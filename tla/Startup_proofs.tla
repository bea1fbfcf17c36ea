--------------------------- MODULE Startup_proofs ----------------------------
(***************************************************************************)
(* For every command line, every screen and any number of clients, packets *)
(* and messages: the port that is served, where the windows are, that the  *)
(* terminal is given back, and that either way out frees each block once.  *)
(***************************************************************************)
EXTENDS StartupProps, ListLemmas, FiniteSetTheorems

-----------------------------------------------------------------------------
(* The windows.                                                            *)

\* The shares of the width on a screen of 20 columns or more: both columns exist.
LEMMA Widths ==
  ASSUME NEW s \in Screen, s.COLS >= 20
  PROVE  /\ L_WIDTH(s) \in Nat /\ R_WIDTH(s) \in Nat
         /\ L_WIDTH(s) >= 18 /\ R_WIDTH(s) >= 2
         /\ L_WIDTH(s) + R_WIDTH(s) <= s.COLS
         /\ s.COLS >= 21 => R_WIDTH(s) >= 3
<1> DEFINE c == s.COLS
<1>1. c \in Nat /\ c >= 20 /\ s.cut \in {0, 1}
  BY DEF Screen
<1> HIDE DEF c
<1>2. /\ L_WIDTH(s) = IF 3 * c < 180 THEN 18 ELSE (3 * c) \div 10
      /\ R_WIDTH(s) = IF 3 * c <= 180 THEN c - 18
                      ELSE (7 * c) \div 10 - (IF c % 10 = 0 THEN s.cut ELSE 0)
  BY DEF L_WIDTH, R_WIDTH, MIN_L_WIDTH, c
<1> DEFINE l == (3 * c) \div 10
           r == (7 * c) \div 10
<1>3. l \in Int /\ r \in Int /\ 10 * l <= 3 * c /\ 3 * c < 10 * l + 10
      /\ 10 * r <= 7 * c /\ 7 * c < 10 * r + 10
  BY <1>1
<1> HIDE DEF l, r
<1>4. CASE 3 * c < 180
  BY <1>1, <1>2, <1>4 DEF c
<1>5. CASE 3 * c = 180
  BY <1>1, <1>2, <1>3, <1>5 DEF c, l
<1>6. CASE 3 * c > 180
  <2>1. L_WIDTH(s) = l /\ (R_WIDTH(s) = r \/ R_WIDTH(s) = r - 1)
    BY <1>1, <1>2, <1>6 DEF l, r
  <2> QED BY <2>1, <1>1, <1>3, <1>6 DEF c
<1> QED BY <1>1, <1>4, <1>5, <1>6

\* On 8 rows and 20 columns curses can make every window of init_ui.
LEMMA AllCreated ==
  ASSUME NEW s \in Screen, s.LINES >= 8, s.COLS >= 20, NEW k \in 1 .. N_WINDOWS
  PROVE  newwin(s, Dims(s)[k])
<1> DEFINE L == L_WIDTH(s)
           R == R_WIDTH(s)
<1>1. /\ s.LINES \in Nat /\ s.COLS \in Nat
      /\ L \in Nat /\ R \in Nat /\ L >= 18 /\ R >= 2 /\ L + R <= s.COLS
  BY Widths DEF Screen
<1>2. k = 1 \/ k = 2 \/ k = 3 \/ k = 4 \/ k = 5 \/ k = 6
  BY DEF N_WINDOWS
<1>3. /\ Dims(s)[1] = init_dim(s.LINES - 7, L, 0, 0)
      /\ Dims(s)[2] = init_dim(4, R, 0, L)
      /\ Dims(s)[3] = init_dim(s.LINES - 8, R, 4, L)
      /\ Dims(s)[4] = init_dim(7, L, s.LINES - 7, 0)
      /\ Dims(s)[5] = init_dim(2, R - 2, s.LINES - 3, L + 1)
      /\ Dims(s)[6] = init_dim(4, R, s.LINES - 4, L)
  BY <1>1 DEF Dims, HEIGHT_USE, HEIGHT_UPP, HEIGHT_LOW, HEIGHT_MID, BORDER
<1> HIDE DEF L, R
<1>4. ASSUME NEW h \in Nat, NEW w \in Nat, NEW y \in Nat, NEW x \in Nat,
             h > 0 \/ y < s.LINES, w > 0 \/ x < s.COLS
      PROVE  newwin(s, init_dim(h, w, y, x))
  BY <1>1, <1>4 DEF newwin, Opened, init_dim
<1>5. newwin(s, Dims(s)[1]) /\ newwin(s, Dims(s)[4])
  <2>1. s.LINES - 7 \in Nat /\ s.LINES - 7 > 0 /\ 0 \in Nat /\ 7 \in Nat /\ 7 > 0 /\ L > 0
    BY <1>1
  <2>2. newwin(s, init_dim(s.LINES - 7, L, 0, 0))
    BY <2>1, <1>1, <1>4
  <2>3. newwin(s, init_dim(7, L, s.LINES - 7, 0))
    BY <2>1, <1>1, <1>4
  <2> QED BY <2>2, <2>3, <1>3
<1>6. newwin(s, Dims(s)[2]) /\ newwin(s, Dims(s)[6])
  <2>1. s.LINES - 4 \in Nat /\ 0 \in Nat /\ 4 \in Nat /\ 4 > 0 /\ R > 0
    BY <1>1
  <2>2. newwin(s, init_dim(4, R, 0, L))
    BY <2>1, <1>1, <1>4
  <2>3. newwin(s, init_dim(4, R, s.LINES - 4, L))
    BY <2>1, <1>1, <1>4
  <2> QED BY <2>2, <2>3, <1>3
<1>7. newwin(s, Dims(s)[3])
  <2> DEFINE h == s.LINES - 8
  <2>1. h \in Nat /\ 4 \in Nat /\ (h > 0 \/ 4 < s.LINES) /\ R > 0
    BY <1>1
  <2>2. Dims(s)[3] = init_dim(h, R, 4, L)
    BY <1>3
  <2> HIDE DEF h
  <2> QED BY <2>1, <2>2, <1>1, <1>4
<1>8. newwin(s, Dims(s)[5])
  <2>1. R - 2 \in Nat /\ s.LINES - 3 \in Nat /\ L + 1 \in Nat /\ 2 \in Nat /\ 2 > 0
    BY <1>1
  <2>2. R - 2 > 0 \/ L + 1 < s.COLS
    BY <1>1
  <2> QED BY <2>1, <2>2, <1>3, <1>4
<1> QED BY <1>2, <1>5, <1>6, <1>7, <1>8

\* Then none of the windows is missing.
LEMMA Complete ==
  ASSUME NEW s \in Screen, screen = s, s.LINES >= 8, s.COLS >= 20
  PROVE  Cardinality(Creatable) = N_WINDOWS
<1>1. Creatable = 1 .. N_WINDOWS
  BY AllCreated DEF Creatable, N_WINDOWS
<1>2. 1 \in Int /\ 6 \in Int
  OBVIOUS
<1>3. Cardinality(1 .. 6) = IF 1 > 6 THEN 0 ELSE 6 - 1 + 1
  BY <1>2, FS_Interval
<1> QED BY <1>1, <1>3 DEF N_WINDOWS

\* init_ui creates at most its windows.
LEMMA HowManyCreatable == Cardinality(Creatable) \in 0 .. N_WINDOWS
<1> DEFINE n == Cardinality(Creatable)
<1>1. 1 \in Int /\ 6 \in Int /\ Creatable \in SUBSET (1 .. 6)
  BY DEF Creatable, N_WINDOWS
<1>2. IsFiniteSet(1 .. 6) /\ Cardinality(1 .. 6) = IF 1 > 6 THEN 0 ELSE 6 - 1 + 1
  BY <1>1, FS_Interval
<1>3. IsFiniteSet(Creatable) /\ n <= Cardinality(1 .. 6)
  BY <1>1, <1>2, FS_Subset
<1>4. n \in Nat
  BY <1>3, FS_CardinalityType
<1> HIDE DEF n
<1>5. n \in 0 .. N_WINDOWS
  BY <1>2, <1>3, <1>4 DEF N_WINDOWS
<1> QED BY <1>5 DEF n

\* On 9 rows and 21 columns the windows have the sizes asked for, and tile.
LEMMA DimsTile ==
  ASSUME NEW s \in Screen, s.LINES >= 9, s.COLS >= 21, NEW ws,
         \A k \in 1 .. N_WINDOWS : ws[k] = Opened(s, Dims(s)[k])
  PROVE  Tiles(s, ws)
<1> DEFINE L == L_WIDTH(s)
           R == R_WIDTH(s)
<1>1. /\ s.LINES \in Nat /\ s.COLS \in Nat
      /\ L \in Nat /\ R \in Nat /\ L >= 18 /\ R >= 3 /\ L + R <= s.COLS
  BY Widths DEF Screen
<1>2. /\ Dims(s)[1] = init_dim(s.LINES - 7, L, 0, 0)
      /\ Dims(s)[2] = init_dim(4, R, 0, L)
      /\ Dims(s)[3] = init_dim(s.LINES - 8, R, 4, L)
      /\ Dims(s)[4] = init_dim(7, L, s.LINES - 7, 0)
      /\ Dims(s)[5] = init_dim(2, R - 2, s.LINES - 3, L + 1)
      /\ Dims(s)[6] = init_dim(4, R, s.LINES - 4, L)
  BY <1>1 DEF Dims, HEIGHT_USE, HEIGHT_UPP, HEIGHT_LOW, HEIGHT_MID, BORDER
<1> HIDE DEF L, R
<1>3. ASSUME NEW h \in Nat \ {0}, NEW w \in Nat \ {0}, NEW y, NEW x
      PROVE  Opened(s, init_dim(h, w, y, x)) = init_dim(h, w, y, x)
  BY <1>3 DEF Opened, init_dim
<1>4. /\ ws[1] = init_dim(s.LINES - 7, L, 0, 0)
      /\ ws[2] = init_dim(4, R, 0, L)
      /\ ws[3] = init_dim(s.LINES - 8, R, 4, L)
      /\ ws[4] = init_dim(7, L, s.LINES - 7, 0)
      /\ ws[5] = init_dim(2, R - 2, s.LINES - 3, L + 1)
      /\ ws[6] = init_dim(4, R, s.LINES - 4, L)
  BY <1>1, <1>2, <1>3 DEF N_WINDOWS
<1>5. \A h, w, y, x : /\ init_dim(h, w, y, x).height = h /\ init_dim(h, w, y, x).width = w
                      /\ init_dim(h, w, y, x).starty = y /\ init_dim(h, w, y, x).startx = x
  BY DEF init_dim
<1>6. ASSUME NEW k \in 1 .. N_WINDOWS
      PROVE  ws[k].height > 0 /\ ws[k].width > 0 /\ Inside(ws[k], init_dim(s.LINES, s.COLS, 0, 0))
  <2>1. k = 1 \/ k = 2 \/ k = 3 \/ k = 4 \/ k = 5 \/ k = 6
    BY DEF N_WINDOWS
  <2> QED BY <1>1, <1>4, <1>5, <2>1 DEF Inside
<1>7. ASSUME NEW j \in 1 .. N_WINDOWS, NEW k \in 1 .. N_WINDOWS, j < k
      PROVE  Apart(ws[j], ws[k]) \/ (j = INPUT /\ k = I_BORDER)
  <2>1. /\ j = 1 \/ j = 2 \/ j = 3 \/ j = 4 \/ j = 5
        /\ k = 2 \/ k = 3 \/ k = 4 \/ k = 5 \/ k = 6
    BY <1>7 DEF N_WINDOWS
  <2> QED BY <1>1, <1>4, <1>5, <1>7, <2>1 DEF Apart, INPUT, I_BORDER
<1>8. Inside(ws[INPUT], ws[I_BORDER])
  BY <1>1, <1>4, <1>5 DEF Inside, INPUT, I_BORDER
<1> QED BY <1>6, <1>7, <1>8 DEF Tiles

-----------------------------------------------------------------------------
(* The calls that are still to be made, and what they will find.           *)

Early == {"window_create_array", "init_curses", "malloc_args", "pfd_create_array",
          "socket", "setsockopt", "bind", "listen", "loop"}
Late == {"free_pfds", "client_free", "message_free", "window_free", "free_args", "endwin"}
Names == Early \cup Late \cup {"getopt", "close", "success", "fopen", "failure"}

\* todo is what is left of list from position k on.
At(list, k) ==
    /\ todo \in Seq(Names) /\ Len(todo) = Len(list) - k + 1
    /\ \A j \in 1 .. Len(todo) : todo[j] = list[j + k - 1]

\* Which blocks of the set-up are in use: the array of windows, the windows, args, pfds.
Holding(array, wins, args, pfds) ==
    \A n \in Nat :
        /\ <<"windows", n>> \in live <=> array /\ n = 0
        /\ <<"window", n>> \in live <=> wins /\ n \in 1 .. N_WINDOWS
        /\ <<"args", n>> \in live <=> args /\ n = 0
        /\ <<"pfds", n>> \in live <=> pfds /\ n = 0

InGetopt == todo = <<"getopt">> /\ ~curses /\ wild = {} /\ Holding(FALSE, FALSE, FALSE, FALSE)

InSetUp(k) ==
    /\ At(SetUp, k) /\ (k <= 2 => ~curses) /\ wild = {}
    /\ Holding(k >= 2, k >= 3, k >= 4, k >= 5)

InEnd(k) ==
    /\ At(End, k) /\ (k >= 7 => ~curses) /\ wild = {}
    /\ (k >= 3 => client_list = <<>>) /\ (k >= 4 => message_queue = <<>>)
    /\ Holding(TRUE, k <= 4, k <= 5, k <= 1)

InFailure(k) ==
    /\ At(Failure, k) /\ (k >= 8 => ~curses)
    /\ (k >= 4 => client_list = <<>>) /\ (k >= 5 => message_queue = <<>>)
    /\ Holding(TRUE, k <= 5, k <= 6, k <= 2 /\ failed # "pfd_create_array")

\* Where the process is, with what it holds there.
Place ==
    \/ InGetopt
    \/ \E k \in 1 .. 9 : InSetUp(k)
    \/ \E k \in 1 .. 8 : InEnd(k)
    \/ \E k \in 1 .. 8 : InFailure(k)

Kinds == {"windows", "window", "args", "pfds", "client", "history", "packet", "message"}

\* The blocks of the loop are the clients of the list, the messages of the queue and
\* the histories of both the listed and the departed.
LoopBlocks ==
    /\ used \in 0 .. MaxBlocks /\ live \subseteq Kinds \X Nat
    /\ client_list \in Seq(1 .. used)
    /\ \A j, k \in 1 .. Len(client_list) : client_list[j] = client_list[k] => j = k
    /\ departed \subseteq 1 .. used /\ departed \cap ToSet(client_list) = {}
    /\ history \in [1 .. MaxBlocks -> SUBSET (1 .. used)]
    /\ \A c \in 1 .. MaxBlocks : history[c] # {} => c \in 1 .. used
    /\ \A c, d \in 1 .. MaxBlocks : history[c] \cap history[d] # {} => c = d
    /\ message_queue \in Seq([id : 1 .. used, client : Nat])
    /\ \A j, k \in 1 .. Len(message_queue) :
           message_queue[j].id = message_queue[k].id => j = k
    /\ \A n \in Nat :
           /\ <<"client", n>> \in live <=> n \in ToSet(client_list)
           /\ <<"message", n>> \in live <=>
                  \E k \in 1 .. Len(message_queue) : message_queue[k].id = n
           /\ <<"history", n>> \in live <=>
                  \E c \in ToSet(client_list) \cup departed : n \in history[c]

\* The inductive invariant: while the process lives, its place and its heap.
SInv ==
    /\ screen \in Screen
    /\ \/ windows = <<>>
       \/ \E n \in 0 .. N_WINDOWS : windows = [k \in 1 .. n |-> Opened(screen, Dims(screen)[k])]
    /\ Alive => Place /\ LoopBlocks
    /\ TerminalRestored /\ FreedOnce /\ LeftBehind

-----------------------------------------------------------------------------

\* The first call of the rest of a list.
LEMMA AtHead ==
  ASSUME NEW list, Len(list) \in Nat, NEW k \in 1 .. Len(list), At(list, k)
  PROVE  Head(todo) = list[k] /\ Len(todo) >= 1
<1>1. Len(todo) >= 1 /\ todo[1] = list[k]
  BY DEF At
<1>2. todo # <<>> /\ Head(todo) = todo[1]
  BY <1>1, HeadTailProperties DEF At
<1> QED BY <1>1, <1>2

\* After a call the next one is first.
LEMMA AtNext ==
  ASSUME NEW list, Len(list) \in Nat, NEW k \in 1 .. Len(list), k < Len(list), At(list, k),
         todo' = Tail(todo)
  PROVE  At(list, k + 1)'
<1>1. todo \in Seq(Names) /\ Len(todo) = Len(list) - k + 1 /\ Len(todo) >= 2
      /\ \A j \in 1 .. Len(todo) : todo[j] = list[j + k - 1]
  BY DEF At
<1>2. /\ Tail(todo) \in Seq(Names) /\ Len(Tail(todo)) = Len(todo) - 1
      /\ \A j \in 1 .. Len(todo) - 1 : Tail(todo)[j] = todo[j + 1]
  BY <1>1, HeadTailProperties
<1>3. ASSUME NEW j \in 1 .. Len(todo) - 1
      PROVE  todo'[j] = list[j + (k + 1) - 1]
  BY <1>1, <1>2
<1> QED BY <1>1, <1>2, <1>3 DEF At

\* The lists of calls.
LEMMA Lists ==
  /\ Len(SetUp) = 9 /\ Len(End) = 8 /\ Len(Failure) = 8
  /\ SetUp \in Seq(Names) /\ End \in Seq(Names) /\ Failure \in Seq(Names)
<1>1. Len(SetUp) = 9 /\ SetUp \in Seq(Names)
  BY DEF SetUp, Names, Early, Late
<1>2. Len(End) = 8 /\ End \in Seq(Names)
  BY DEF End, Names, Early, Late
<1>3. Len(Failure) = 8 /\ Failure \in Seq(Names)
  BY DEF Failure, Names, Early, Late
<1> QED BY <1>1, <1>2, <1>3

\* The second and later calls of the three lists.
LEMMA AtLater ==
  ASSUME todo' = Tail(todo), NEW k \in 1 .. 8, NEW m, m = k + 1
  PROVE  /\ At(SetUp, k) => At(SetUp, m)'
         /\ k < 8 /\ At(End, k) => At(End, m)'
         /\ k < 8 /\ At(Failure, k) => At(Failure, m)'
<1>1. ASSUME At(SetUp, k) PROVE At(SetUp, m)'
  <2>1. Len(SetUp) \in Nat /\ k \in 1 .. Len(SetUp) /\ k < Len(SetUp)
    BY Lists
  <2> QED BY <1>1, <2>1, AtNext
<1>2. ASSUME k < 8, At(End, k) PROVE At(End, m)'
  <2>1. Len(End) \in Nat /\ k \in 1 .. Len(End) /\ k < Len(End)
    BY <1>2, Lists
  <2> QED BY <1>2, <2>1, AtNext
<1>3. ASSUME k < 8, At(Failure, k) PROVE At(Failure, m)'
  <2>1. Len(Failure) \in Nat /\ k \in 1 .. Len(Failure) /\ k < Len(Failure)
    BY <1>3, Lists
  <2> QED BY <1>3, <2>1, AtNext
<1> QED BY <1>1, <1>2, <1>3

\* A list of calls is begun.
LEMMA AtFirst ==
  /\ todo' = SetUp => At(SetUp, 1)'
  /\ todo' = End => At(End, 1)'
  /\ todo' = Failure => At(Failure, 1)'
<1>1. ASSUME NEW list \in Seq(Names), todo' = list
      PROVE  At(list, 1)'
  <2>1. Len(list) \in Nat
    BY LenProperties
  <2>2. \A j \in 1 .. Len(list) : j + 1 - 1 = j
    BY <2>1
  <2>3. Len(list) = Len(list) - 1 + 1
    BY <2>1
  <2> QED BY <1>1, <2>2, <2>3 DEF At
<1> QED BY <1>1, Lists

\* No two calls of the set-up have a name in common, nor with a call of the ends.
LEMMA Where ==
  ASSUME Place
  PROVE  /\ Head(todo) = "getopt" => InGetopt
         /\ \A k \in 1 .. 9 : Head(todo) = SetUp[k] => InSetUp(k)
         /\ \A k \in 1 .. 8 : Head(todo) = End[k] =>
                InEnd(k) \/ \E j \in 1 .. 8 : Failure[j] = End[k] /\ InFailure(j)
         /\ Head(todo) = "fopen" => InFailure(1)
         /\ Head(todo) = "failure" => InFailure(8)
<1>1. CASE InGetopt
  <2>1. Head(todo) = "getopt"
    BY <1>1 DEF InGetopt
  <2> QED BY <1>1, <2>1 DEF SetUp, End
<1>2. ASSUME NEW k \in 1 .. 9, InSetUp(k)
      PROVE  Head(todo) = SetUp[k]
  <2>1. At(SetUp, k)
    BY <1>2 DEF InSetUp
  <2>2. Len(SetUp) \in Nat /\ k \in 1 .. Len(SetUp)
    BY Lists
  <2> QED BY <2>1, <2>2, AtHead
<1>3. ASSUME NEW k \in 1 .. 8, InEnd(k)
      PROVE  Head(todo) = End[k]
  <2>1. At(End, k)
    BY <1>3 DEF InEnd
  <2>2. Len(End) \in Nat /\ k \in 1 .. Len(End)
    BY Lists
  <2> QED BY <2>1, <2>2, AtHead
<1>4. ASSUME NEW k \in 1 .. 8, InFailure(k)
      PROVE  Head(todo) = Failure[k]
  <2>1. At(Failure, k)
    BY <1>4 DEF InFailure
  <2>2. Len(Failure) \in Nat /\ k \in 1 .. Len(Failure)
    BY Lists
  <2> QED BY <2>1, <2>2, AtHead
<1>5. /\ \A j, k \in 1 .. 9 : SetUp[j] = SetUp[k] => j = k
      /\ \A j, k \in 1 .. 8 : End[j] = End[k] => j = k
      /\ \A j, k \in 1 .. 8 : Failure[j] = Failure[k] => j = k
  BY DEF SetUp, End, Failure
<1>a. \A j \in 1 .. 9 : SetUp[j] \in Early
  BY DEF SetUp, Names, Early, Late
<1>b. \A j \in 1 .. 8 : End[j] \in Late \cup {"close", "success"}
  BY DEF End, Names, Early, Late
<1>c. \A j \in 1 .. 8 : Failure[j] \in Late \cup {"fopen", "failure"}
  BY DEF Failure, Names, Early, Late
<1>6. /\ \A j \in 1 .. 9, k \in 1 .. 8 : SetUp[j] # End[k] /\ SetUp[j] # Failure[k]
      /\ \A j \in 1 .. 9 : SetUp[j] \notin {"getopt", "fopen", "failure"}
      /\ \A j \in 1 .. 8 : End[j] \notin {"getopt", "fopen", "failure"} /\ Failure[j] # "getopt"
  BY <1>a, <1>b, <1>c DEF Early, Late
<1>d. Failure[1] = "fopen" /\ Failure[8] = "failure"
  BY DEF Failure, Names, Early, Late
<1>7. CASE \E k \in 1 .. 9 : InSetUp(k)
  <2>1. PICK j \in 1 .. 9 : InSetUp(j)
    BY <1>7
  <2>2. Head(todo) = SetUp[j]
    BY <1>2, <2>1
  <2>3. ASSUME NEW k \in 1 .. 9, Head(todo) = SetUp[k]
        PROVE  InSetUp(k)
    BY <2>1, <2>2, <2>3, <1>5
  <2> QED BY <2>2, <2>3, <1>6
<1>8. CASE \E k \in 1 .. 8 : InEnd(k)
  BY <1>8, <1>3, <1>5, <1>6
<1>9. CASE \E k \in 1 .. 8 : InFailure(k)
  BY <1>9, <1>4, <1>5, <1>6, <1>d
<1> QED BY <1>1, <1>7, <1>8, <1>9 DEF Place

-----------------------------------------------------------------------------
(* What carries over from state to state.                                  *)

\* A step that the process survives.
LEMMA Continues ==
  ASSUME SInv, Alive, UNCHANGED <<screen, exit_code>>,
         windows' = windows \/ windows' = <<>>,
         Place', LoopBlocks', FreedOnce'
  PROVE  SInv'
<1>1. exit_code' = "none"
  BY DEF Alive
<1>2. TerminalRestored' /\ LeftBehind'
  BY <1>1 DEF TerminalRestored, LeftBehind
<1> QED BY <1>2 DEF SInv

\* Blocks of the loop come and go: the place is the same.
LEMMA PlaceKept ==
  ASSUME Place, UNCHANGED <<todo, curses, wild, failed>>,
         InSetUp(9) \/ UNCHANGED <<client_list, message_queue>>,
         \A kind \in {"windows", "window", "args", "pfds"}, n \in Nat :
             <<kind, n>> \in live' <=> <<kind, n>> \in live
  PROVE  Place'
<1>2. ASSUME NEW list, NEW k, At(list, k)
      PROVE  At(list, k)'
  BY <1>2 DEF At
<1>3. InGetopt => InGetopt'
  BY DEF InGetopt, Holding
<1>4. ASSUME NEW k \in 1 .. 9, InSetUp(k)
      PROVE  InSetUp(k)'
  BY <1>2, <1>4 DEF InSetUp, Holding
<1>5. ASSUME NEW k \in 1 .. 8, InEnd(k), UNCHANGED <<client_list, message_queue>>
      PROVE  InEnd(k)'
  BY <1>2, <1>5 DEF InEnd, Holding
<1>6. ASSUME NEW k \in 1 .. 8, InFailure(k), UNCHANGED <<client_list, message_queue>>
      PROVE  InFailure(k)'
  BY <1>2, <1>6 DEF InFailure, Holding
<1> QED BY <1>3, <1>4, <1>5, <1>6 DEF Place

\* Blocks of the set-up come and go: those of the loop are the same.
LEMMA LoopKept ==
  ASSUME LoopBlocks, UNCHANGED listVars, live' \subseteq Kinds \X Nat,
         \A kind \in {"client", "message", "history"}, n \in Nat :
             <<kind, n>> \in live' <=> <<kind, n>> \in live
  PROVE  LoopBlocks'
<1>1. UNCHANGED <<used, client_list, departed, history, message_queue>>
  BY DEF listVars
<1>2. ASSUME NEW n \in Nat
      PROVE  /\ <<"client", n>> \in live' <=> <<"client", n>> \in live
             /\ <<"message", n>> \in live' <=> <<"message", n>> \in live
             /\ <<"history", n>> \in live' <=> <<"history", n>> \in live
  OBVIOUS
<1> QED BY <1>1, <1>2 DEF LoopBlocks

-----------------------------------------------------------------------------
(* The loop.                                                               *)

\* The numbers of the next block are larger ones.
LEMMA Numbers ==
  ASSUME LoopBlocks, used < MaxBlocks
  PROVE  /\ used + 1 \in 0 .. MaxBlocks /\ used + 1 \in Nat
         /\ 1 .. used \subseteq 1 .. (used + 1) /\ used + 1 \notin 1 .. used
         /\ used + 1 \in 1 .. (used + 1)
         /\ client_list \in Seq(1 .. (used + 1))
         /\ message_queue \in Seq([id : 1 .. (used + 1), client : Nat])
         /\ history \in [1 .. MaxBlocks -> SUBSET (1 .. (used + 1))]
         /\ departed \subseteq 1 .. (used + 1)
<1>1. used \in Nat /\ MaxBlocks \in Nat /\ used <= MaxBlocks
  BY StartupAssumption DEF LoopBlocks
<1>2. 1 .. used \subseteq 1 .. (used + 1) /\ used + 1 \notin 1 .. used
  BY <1>1
<1>3. client_list \in Seq(1 .. (used + 1))
  BY <1>2, SeqMonotonic DEF LoopBlocks
<1>4. [id : 1 .. used, client : Nat] \subseteq [id : 1 .. (used + 1), client : Nat]
  BY <1>2
<1>5. message_queue \in Seq([id : 1 .. (used + 1), client : Nat])
  <2> DEFINE M == [id : 1 .. used, client : Nat]
             N == [id : 1 .. (used + 1), client : Nat]
  <2>1. message_queue \in Seq(M) /\ M \subseteq N
    BY <1>4 DEF LoopBlocks
  <2> HIDE DEF M, N
  <2>2. Seq(M) \subseteq Seq(N)
    BY <2>1, SeqMonotonic
  <2>3. message_queue \in Seq(N)
    BY <2>1, <2>2
  <2> QED BY <2>3 DEF N
<1>6. history \in [1 .. MaxBlocks -> SUBSET (1 .. (used + 1))]
  BY <1>2 DEF LoopBlocks
<1> QED BY <1>1, <1>2, <1>3, <1>5, <1>6 DEF LoopBlocks

\* A client of the list, and its place in the numbering.
LEMMA ListedClient ==
  ASSUME LoopBlocks
  PROVE  /\ DOMAIN client_list = 1 .. Len(client_list) /\ Len(client_list) \in Nat
         /\ ToSet(client_list) = {client_list[k] : k \in 1 .. Len(client_list)}
         /\ ToSet(client_list) \subseteq 1 .. used /\ 1 .. used \subseteq 1 .. MaxBlocks
         /\ ToSet(client_list) \subseteq Nat
<1>1. client_list \in Seq(1 .. used) /\ used \in 0 .. MaxBlocks /\ MaxBlocks \in Nat
  BY StartupAssumption DEF LoopBlocks
<1>2. DOMAIN client_list = 1 .. Len(client_list) /\ Len(client_list) \in Nat
  BY <1>1, LenProperties
<1>3. \A k \in 1 .. Len(client_list) : client_list[k] \in 1 .. used
  BY <1>1, <1>2, ElementOfSeq
<1>4. 1 .. used \subseteq 1 .. MaxBlocks /\ 1 .. used \subseteq Nat
  BY <1>1
<1> QED BY <1>2, <1>3, <1>4 DEF ToSet

\* A new client.
LEMMA CreateKeeps ==
  ASSUME LoopBlocks, client_create
  PROVE  LoopBlocks'
<1>0. /\ used' = used + 1 /\ used < MaxBlocks /\ live' = live \cup {<<"client", used + 1>>}
      /\ client_list' = Append(client_list, used + 1)
      /\ UNCHANGED <<history, message_queue, departed>>
  BY DEF client_create, InLoop, Malloc
<1>1. client_list' \in Seq(1 .. used') /\ ToSet(client_list') = ToSet(client_list) \cup {used + 1}
  BY <1>0, Numbers, ToSetAppend, AppendProperties
<1>2. \A j, k \in 1 .. Len(client_list') : client_list'[j] = client_list'[k] => j = k
  <2>1. \A k \in 1 .. Len(client_list) : client_list[k] \in 1 .. used /\ client_list[k] # used + 1
    BY <1>0, Numbers, ListedClient
  <2>2. /\ Len(client_list') = Len(client_list) + 1 /\ Len(client_list) \in Nat
        /\ \A k \in 1 .. Len(client_list) : client_list'[k] = client_list[k]
        /\ client_list'[Len(client_list) + 1] = used + 1
    BY <1>0, ListedClient, AppendProperties, Numbers
  <2>3. \A j, k \in 1 .. Len(client_list) : client_list[j] = client_list[k] => j = k
    BY DEF LoopBlocks
  <2> QED BY <2>1, <2>2, <2>3
<1>3. departed' \cap ToSet(client_list') = {}
  BY <1>0, <1>1, Numbers DEF LoopBlocks
<1>4. live' \subseteq Kinds \X Nat
  <2>1. live \subseteq Kinds \X Nat /\ used + 1 \in Nat
    BY <1>0, Numbers DEF LoopBlocks
  <2>2. "client" \in Kinds
    BY DEF Kinds
  <2> QED BY <1>0, <2>1, <2>2
<1>5. ASSUME NEW n \in Nat
      PROVE  /\ <<"client", n>> \in live' <=> n \in ToSet(client_list')
             /\ <<"message", n>> \in live' <=>
                    \E k \in 1 .. Len(message_queue') : message_queue'[k].id = n
             /\ <<"history", n>> \in live' <=>
                    \E c \in ToSet(client_list') \cup departed' : n \in history'[c]
  <2>1. used + 1 \in 1 .. MaxBlocks /\ history[used + 1] = {}
    <3>1. used + 1 \in 1 .. MaxBlocks
      BY <1>0, Numbers, StartupAssumption
    <3>2. history[used + 1] # {} => used + 1 \in 1 .. used
      BY <3>1 DEF LoopBlocks
    <3> QED BY <1>0, <3>1, <3>2, Numbers
  <2>2. /\ <<"client", n>> \in live' <=> <<"client", n>> \in live \/ n = used + 1
        /\ <<"message", n>> \in live' <=> <<"message", n>> \in live
        /\ <<"history", n>> \in live' <=> <<"history", n>> \in live
    BY <1>0
  <2> QED BY <1>0, <1>1, <2>1, <2>2 DEF LoopBlocks
<1>6. \A c \in 1 .. MaxBlocks : history[c] # {} => c \in 1 .. used'
  BY <1>0, Numbers DEF LoopBlocks
<1>7. /\ used' \in 0 .. MaxBlocks
      /\ departed' \subseteq 1 .. used'
      /\ history' \in [1 .. MaxBlocks -> SUBSET (1 .. used')]
      /\ message_queue' \in Seq([id : 1 .. used', client : Nat])
  BY <1>0, Numbers
<1>8. /\ \A c, d \in 1 .. MaxBlocks : history'[c] \cap history'[d] # {} => c = d
      /\ \A j, k \in 1 .. Len(message_queue') :
             message_queue'[j].id = message_queue'[k].id => j = k
  BY <1>0 DEF LoopBlocks
<1> QED BY <1>0, <1>1, <1>2, <1>3, <1>4, <1>5, <1>6, <1>7, <1>8 DEF LoopBlocks

\* A packet arrives: the history of its client grows.
LEMMA ReceiveKeeps ==
  ASSUME LoopBlocks, NEW k \in DOMAIN client_list, packet_receive(k)
  PROVE  LoopBlocks'
<1> DEFINE c == client_list[k]
           u == used + 1
<1>0. /\ used' = u /\ used < MaxBlocks /\ live' = live \cup {<<"packet", u>>, <<"history", u>>}
      /\ history' = [history EXCEPT ![c] = @ \cup {u}]
      /\ UNCHANGED <<client_list, message_queue, departed>>
  BY DEF packet_receive, InLoop, Malloc
<1>1. c \in ToSet(client_list) /\ c \in 1 .. used /\ c \in 1 .. MaxBlocks
  BY ListedClient
<1>2. /\ \A d \in 1 .. MaxBlocks : history[d] \subseteq 1 .. used
      /\ \A d \in 1 .. MaxBlocks : history'[d] = IF d = c THEN history[c] \cup {u} ELSE history[d]
      /\ history' \in [1 .. MaxBlocks -> SUBSET (1 .. u)]
  <2>1. history \in [1 .. MaxBlocks -> SUBSET (1 .. used)]
    BY DEF LoopBlocks
  <2>2. /\ history \in [1 .. MaxBlocks -> SUBSET (1 .. u)] /\ u \in 1 .. u
    BY <1>0, Numbers
  <2> HIDE DEF c, u
  <2> QED BY <1>0, <1>1, <2>1, <2>2
<1>3. u \in Nat /\ u \notin 1 .. used /\ 1 .. used \subseteq 1 .. u /\ u \in 0 .. MaxBlocks
  BY <1>0, Numbers
<1> HIDE DEF c, u
<1>4. /\ \A d \in 1 .. MaxBlocks : history'[d] # {} => d \in 1 .. u
      /\ \A d, e \in 1 .. MaxBlocks : history'[d] \cap history'[e] # {} => d = e
  <2>1. \A d \in 1 .. MaxBlocks : history[d] # {} => d \in 1 .. used
    BY DEF LoopBlocks
  <2>2. \A d, e \in 1 .. MaxBlocks : history[d] \cap history[e] # {} => d = e
    BY DEF LoopBlocks
  <2> QED BY <1>1, <1>2, <1>3, <2>1, <2>2
<1>5. live' \subseteq Kinds \X Nat
  BY <1>0, <1>3 DEF LoopBlocks, Kinds
<1>6. ASSUME NEW n \in Nat
      PROVE  /\ <<"client", n>> \in live' <=> n \in ToSet(client_list')
             /\ <<"message", n>> \in live' <=>
                    \E j \in 1 .. Len(message_queue') : message_queue'[j].id = n
             /\ <<"history", n>> \in live' <=>
                    \E d \in ToSet(client_list') \cup departed' : n \in history'[d]
  <2>1. /\ <<"client", n>> \in live' <=> <<"client", n>> \in live
        /\ <<"message", n>> \in live' <=> <<"message", n>> \in live
        /\ <<"history", n>> \in live' <=> <<"history", n>> \in live \/ n = u
    BY <1>0
  <2>2. <<"history", n>> \in live <=> \E d \in ToSet(client_list) \cup departed : n \in history[d]
    BY DEF LoopBlocks
  <2>3. ToSet(client_list) \cup departed \subseteq 1 .. MaxBlocks
    BY ListedClient DEF LoopBlocks
  <2>4. (\E d \in ToSet(client_list) \cup departed : n \in history'[d]) <=>
            (\E d \in ToSet(client_list) \cup departed : n \in history[d]) \/ n = u
    BY <1>1, <1>2, <2>3
  <2>5. /\ <<"client", n>> \in live <=> n \in ToSet(client_list)
        /\ <<"message", n>> \in live <=>
               \E j \in 1 .. Len(message_queue) : message_queue[j].id = n
    BY DEF LoopBlocks
  <2> QED BY <1>0, <2>1, <2>2, <2>4, <2>5
<1>7. /\ client_list' \in Seq(1 .. used') /\ departed' \subseteq 1 .. used'
      /\ message_queue' \in Seq([id : 1 .. used', client : Nat])
  BY <1>0, Numbers DEF u
<1>8. /\ \A i, j \in 1 .. Len(client_list') : client_list'[i] = client_list'[j] => i = j
      /\ \A i, j \in 1 .. Len(message_queue') :
             message_queue'[i].id = message_queue'[j].id => i = j
      /\ departed' \cap ToSet(client_list') = {}
  BY <1>0 DEF LoopBlocks
<1> QED BY <1>0, <1>2, <1>3, <1>4, <1>5, <1>6, <1>7, <1>8 DEF LoopBlocks

\* A line is typed: a message for the client.
LEMMA MessageKeeps ==
  ASSUME LoopBlocks, NEW k \in DOMAIN client_list, message_create(k)
  PROVE  LoopBlocks'
<1> DEFINE u == used + 1
           m == [id |-> u, client |-> client_list[k]]
<1>0. /\ used' = u /\ used < MaxBlocks /\ live' = live \cup {<<"packet", u>>, <<"message", u>>}
      /\ message_queue' = Append(message_queue, m)
      /\ UNCHANGED <<client_list, history, departed>>
  BY DEF message_create, InLoop, Malloc
<1>1. m \in [id : 1 .. u, client : Nat] /\ m.id = u
  BY <1>0, ListedClient, Numbers
<1>2. /\ message_queue \in Seq([id : 1 .. u, client : Nat])
      /\ u \in Nat /\ u \notin 1 .. used /\ 1 .. used \subseteq 1 .. u /\ u \in 0 .. MaxBlocks
      /\ client_list \in Seq(1 .. u) /\ departed \subseteq 1 .. u
      /\ history \in [1 .. MaxBlocks -> SUBSET (1 .. u)]
  BY <1>0, Numbers
<1>3. \A j \in 1 .. Len(message_queue) : message_queue[j].id \in 1 .. used
  <2>1. message_queue \in Seq([id : 1 .. used, client : Nat])
    BY DEF LoopBlocks
  <2>2. \A j \in 1 .. Len(message_queue) : message_queue[j] \in [id : 1 .. used, client : Nat]
    BY <2>1, ElementOfSeq
  <2> QED BY <2>2
<1> HIDE DEF u, m
<1>4. /\ message_queue' \in Seq([id : 1 .. u, client : Nat])
      /\ Len(message_queue) \in Nat /\ Len(message_queue') = Len(message_queue) + 1
      /\ \A j \in 1 .. Len(message_queue) : message_queue'[j] = message_queue[j]
      /\ message_queue'[Len(message_queue) + 1] = m
  BY <1>0, <1>1, <1>2, AppendProperties, LenProperties
<1>5. \A i, j \in 1 .. Len(message_queue') : message_queue'[i].id = message_queue'[j].id => i = j
  <2>1. \A i, j \in 1 .. Len(message_queue) : message_queue[i].id = message_queue[j].id => i = j
    BY DEF LoopBlocks
  <2>2. ASSUME NEW i \in 1 .. Len(message_queue) + 1, NEW j \in 1 .. Len(message_queue) + 1,
               message_queue'[i].id = message_queue'[j].id
        PROVE  i = j
    <3> DEFINE l == Len(message_queue)
    <3>1. (i \in 1 .. l \/ i = l + 1) /\ (j \in 1 .. l \/ j = l + 1)
      BY <1>4
    <3>2. /\ \A h \in 1 .. l : message_queue'[h].id = message_queue[h].id
          /\ \A h \in 1 .. l : message_queue'[h].id \in 1 .. used
          /\ message_queue'[l + 1].id = u
      BY <1>1, <1>3, <1>4
    <3> HIDE DEF l
    <3> QED BY <1>2, <2>1, <2>2, <3>1, <3>2 DEF l
  <2> QED BY <1>4, <2>2
<1>6. live' \subseteq Kinds \X Nat
  BY <1>0, <1>2 DEF LoopBlocks, Kinds
<1>7. ASSUME NEW n \in Nat
      PROVE  /\ <<"client", n>> \in live' <=> n \in ToSet(client_list')
             /\ <<"message", n>> \in live' <=>
                    \E j \in 1 .. Len(message_queue') : message_queue'[j].id = n
             /\ <<"history", n>> \in live' <=>
                    \E d \in ToSet(client_list') \cup departed' : n \in history'[d]
  <2>1. /\ <<"client", n>> \in live' <=> <<"client", n>> \in live
        /\ <<"message", n>> \in live' <=> <<"message", n>> \in live \/ n = u
        /\ <<"history", n>> \in live' <=> <<"history", n>> \in live
    BY <1>0
  <2>2. <<"message", n>> \in live <=> \E j \in 1 .. Len(message_queue) : message_queue[j].id = n
    BY DEF LoopBlocks
  <2>3. (\E j \in 1 .. Len(message_queue') : message_queue'[j].id = n) <=>
            (\E j \in 1 .. Len(message_queue) : message_queue[j].id = n) \/ n = u
    <3> DEFINE l == Len(message_queue)
    <3>1. \A j : j \in 1 .. l + 1 <=> j \in 1 .. l \/ j = l + 1
      BY <1>4
    <3>2. /\ \A h \in 1 .. l : message_queue'[h].id = message_queue[h].id
          /\ message_queue'[l + 1].id = u /\ Len(message_queue') = l + 1
      BY <1>1, <1>4
    <3> HIDE DEF l
    <3> QED BY <3>1, <3>2 DEF l
  <2>4. /\ <<"client", n>> \in live <=> n \in ToSet(client_list)
        /\ <<"history", n>> \in live <=>
               \E d \in ToSet(client_list) \cup departed : n \in history[d]
    BY DEF LoopBlocks
  <2> QED BY <1>0, <2>1, <2>2, <2>3, <2>4
<1>8. /\ \A i, j \in 1 .. Len(client_list') : client_list'[i] = client_list'[j] => i = j
      /\ departed' \cap ToSet(client_list') = {}
      /\ \A d \in 1 .. MaxBlocks : history'[d] # {} => d \in 1 .. u
      /\ \A d, e \in 1 .. MaxBlocks : history'[d] \cap history'[e] # {} => d = e
  <2>1. /\ \A i, j \in 1 .. Len(client_list) : client_list[i] = client_list[j] => i = j
        /\ departed \cap ToSet(client_list) = {}
        /\ \A d \in 1 .. MaxBlocks : history[d] # {} => d \in 1 .. used
        /\ \A d, e \in 1 .. MaxBlocks : history[d] \cap history[e] # {} => d = e
    BY DEF LoopBlocks
  <2> QED BY <1>0, <1>2, <2>1
<1> QED BY <1>0, <1>2, <1>4, <1>5, <1>6, <1>7, <1>8 DEF LoopBlocks

\* What is left of a list without repetition when position k is removed.
LEMMA Removed ==
  ASSUME NEW S, NEW s \in Seq(S), NEW k \in 1 .. Len(s),
         \A i, j \in 1 .. Len(s) : s[i] = s[j] => i = j
  PROVE  LET r == RemoveAt(s, k)
         IN  /\ r \in Seq(S) /\ ToSet(r) = ToSet(s) \ {s[k]}
             /\ \A i, j \in 1 .. Len(r) : r[i] = r[j] => i = j
<1> DEFINE r == RemoveAt(s, k)
<1>1. /\ r \in Seq(S) /\ Len(r) = Len(s) - 1 /\ Len(s) \in Nat
      /\ \A j \in 1 .. Len(s) - 1 : r[j] = IF j < k THEN s[j] ELSE s[j + 1]
  BY RemoveAtProperties, LenProperties
<1>2. ToSet(r) = ToSet(s) \ {s[k]}
  BY ToSetRemoveAt
<1> HIDE DEF r
<1>3. ASSUME NEW i \in 1 .. Len(r), NEW j \in 1 .. Len(r), r[i] = r[j]
      PROVE  i = j
  BY <1>1, <1>3
<1> QED BY <1>1, <1>2, <1>3 DEF r

\* A client leaves the list, and its block, and no other, leaves the heap.
LEMMA LeaveKeeps ==
  ASSUME LoopBlocks, NEW k \in DOMAIN client_list, NEW packets,
         packets \subseteq {"packet"} \X Nat,
         used' \in used .. MaxBlocks,
         live' = (live \cup packets) \ {<<"client", client_list[k]>>},
         client_list' = RemoveAt(client_list, k),
         departed' = departed \cup {client_list[k]},
         UNCHANGED <<history, message_queue>>
  PROVE  LoopBlocks' /\ <<"client", client_list[k]>> \in live
<1> DEFINE c == client_list[k]
<1>0. /\ k \in 1 .. Len(client_list) /\ c \in 1 .. used /\ c \in Nat /\ c \in ToSet(client_list)
  BY ListedClient
<1>1. /\ client_list \in Seq(1 .. used)
      /\ \A i, j \in 1 .. Len(client_list) : client_list[i] = client_list[j] => i = j
  BY DEF LoopBlocks
<1>2. /\ client_list' \in Seq(1 .. used) /\ ToSet(client_list') = ToSet(client_list) \ {c}
      /\ \A i, j \in 1 .. Len(client_list') : client_list'[i] = client_list'[j] => i = j
  BY <1>0, <1>1, Removed
<1>3. /\ used' \in 0 .. MaxBlocks /\ 1 .. used \subseteq 1 .. used'
  BY StartupAssumption DEF LoopBlocks
<1>4. client_list' \in Seq(1 .. used')
  BY <1>2, <1>3, SeqMonotonic
<1>5. message_queue' \in Seq([id : 1 .. used', client : Nat])
  <2> DEFINE M == [id : 1 .. used, client : Nat]
             N == [id : 1 .. used', client : Nat]
  <2>1. message_queue \in Seq(M) /\ M \subseteq N
    BY <1>3 DEF LoopBlocks
  <2> HIDE DEF M, N
  <2>2. Seq(M) \subseteq Seq(N)
    BY <2>1, SeqMonotonic
  <2>3. message_queue \in Seq(N)
    BY <2>1, <2>2
  <2> QED BY <2>3 DEF N
<1> HIDE DEF c
<1>6. live' \subseteq Kinds \X Nat
  BY DEF LoopBlocks, Kinds
<1>7. /\ departed' \subseteq 1 .. used' /\ departed' \cap ToSet(client_list') = {}
      /\ ToSet(client_list') \cup departed' = ToSet(client_list) \cup departed
  <2>1. departed \subseteq 1 .. used /\ departed \cap ToSet(client_list) = {}
    BY DEF LoopBlocks
  <2>2. departed' = departed \cup {c}
    BY DEF c
  <2>3. departed' \subseteq 1 .. used'
    BY <1>0, <1>3, <2>1, <2>2
  <2>4. departed' \cap ToSet(client_list') = {}
    BY <1>2, <2>1, <2>2
  <2>5. ToSet(client_list') \cup departed' = ToSet(client_list) \cup departed
    BY <1>0, <1>2, <2>2
  <2> QED BY <2>3, <2>4, <2>5
<1>8. ASSUME NEW n \in Nat
      PROVE  /\ <<"client", n>> \in live' <=> n \in ToSet(client_list')
             /\ <<"message", n>> \in live' <=>
                    \E j \in 1 .. Len(message_queue') : message_queue'[j].id = n
             /\ <<"history", n>> \in live' <=>
                    \E d \in ToSet(client_list') \cup departed' : n \in history'[d]
  <2>1. /\ <<"client", n>> \in live' <=> <<"client", n>> \in live /\ n # c
        /\ <<"message", n>> \in live' <=> <<"message", n>> \in live
        /\ <<"history", n>> \in live' <=> <<"history", n>> \in live
    BY DEF c
  <2>2. /\ <<"client", n>> \in live <=> n \in ToSet(client_list)
        /\ <<"message", n>> \in live <=>
               \E j \in 1 .. Len(message_queue) : message_queue[j].id = n
        /\ <<"history", n>> \in live <=>
               \E d \in ToSet(client_list) \cup departed : n \in history[d]
    BY DEF LoopBlocks
  <2> QED BY <1>2, <1>7, <2>1, <2>2
<1>9. history' \in [1 .. MaxBlocks -> SUBSET (1 .. used')]
  BY <1>3 DEF LoopBlocks
<1>10. /\ \A d \in 1 .. MaxBlocks : history'[d] # {} => d \in 1 .. used'
       /\ \A d, e \in 1 .. MaxBlocks : history'[d] \cap history'[e] # {} => d = e
       /\ \A i, j \in 1 .. Len(message_queue') :
              message_queue'[i].id = message_queue'[j].id => i = j
  BY <1>3 DEF LoopBlocks
<1>11. <<"client", c>> \in live
  BY <1>0 DEF LoopBlocks
<1> QED BY <1>2, <1>3, <1>4, <1>5, <1>6, <1>7, <1>8, <1>9, <1>10, <1>11 DEF LoopBlocks, c

\* A message is sent: its text goes to a history, and the first message with that
\* text is freed, which was in use.
LEMMA TransmitKeeps ==
  ASSUME LoopBlocks, NEW k \in DOMAIN message_queue, packet_transmit(k)
  PROVE  LoopBlocks' /\ wild' = wild
<1> DEFINE c == message_queue[k].client
           u == used + 1
<1>0. PICK same \in 1 .. k :
          /\ used' = u /\ used < MaxBlocks /\ c \in ToSet(client_list)
          /\ history' = [history EXCEPT ![c] = @ \cup {u}]
          /\ live' = (live \cup {<<"packet", u>>, <<"history", u>>})
                          \ {<<"message", message_queue[same].id>>}
          /\ wild' = wild \cup ({<<"message", message_queue[same].id>>} \ live)
          /\ message_queue' = RemoveAt(message_queue, same)
          /\ UNCHANGED <<client_list, departed>>
  BY DEF packet_transmit, InLoop
<1> DEFINE g == message_queue[same].id
<1>1. c \in 1 .. used /\ c \in 1 .. MaxBlocks
  BY <1>0, ListedClient
<1>2. /\ u \in Nat /\ u \notin 1 .. used /\ 1 .. used \subseteq 1 .. u /\ u \in 0 .. MaxBlocks
      /\ u \in 1 .. u
      /\ client_list \in Seq(1 .. u) /\ departed \subseteq 1 .. u
      /\ history \in [1 .. MaxBlocks -> SUBSET (1 .. u)]
      /\ message_queue \in Seq([id : 1 .. u, client : Nat])
  BY <1>0, Numbers
<1>3. /\ DOMAIN message_queue = 1 .. Len(message_queue) /\ Len(message_queue) \in Nat
      /\ same \in 1 .. Len(message_queue) /\ g \in 1 .. u /\ g \in Nat
  <2>1. DOMAIN message_queue = 1 .. Len(message_queue) /\ Len(message_queue) \in Nat
    BY <1>2, LenProperties
  <2>2. same \in 1 .. Len(message_queue)
    BY <2>1
  <2>3. message_queue[same] \in [id : 1 .. u, client : Nat]
    BY <1>2, <2>2, ElementOfSeq
  <2> QED BY <1>2, <2>1, <2>2, <2>3
<1>4. /\ message_queue' \in Seq([id : 1 .. u, client : Nat])
      /\ Len(message_queue') = Len(message_queue) - 1
      /\ \A j \in 1 .. Len(message_queue) - 1 :
             message_queue'[j] = IF j < same THEN message_queue[j] ELSE message_queue[j + 1]
  <2> DEFINE T == [id : 1 .. u, client : Nat]
             q == message_queue
  <2>1. q \in Seq(T) /\ same \in 1 .. Len(q) /\ message_queue' = RemoveAt(q, same)
    BY <1>0, <1>2, <1>3
  <2> HIDE DEF T, q
  <2>2. /\ RemoveAt(q, same) \in Seq(T) /\ Len(RemoveAt(q, same)) = Len(q) - 1
        /\ \A j \in 1 .. Len(q) - 1 : RemoveAt(q, same)[j] = IF j < same THEN q[j] ELSE q[j + 1]
    BY <2>1, RemoveAtProperties
  <2> QED BY <2>1, <2>2 DEF T, q
<1>5. <<"message", g>> \in live
  BY <1>3 DEF LoopBlocks
<1>6. wild' = wild
  BY <1>0, <1>5
<1>7. /\ \A d \in 1 .. MaxBlocks : history[d] \subseteq 1 .. used
      /\ \A d \in 1 .. MaxBlocks : history'[d] = IF d = c THEN history[c] \cup {u} ELSE history[d]
      /\ history' \in [1 .. MaxBlocks -> SUBSET (1 .. u)]
  <2>1. history \in [1 .. MaxBlocks -> SUBSET (1 .. used)]
    BY DEF LoopBlocks
  <2> HIDE DEF c, u, g
  <2> QED BY <1>0, <1>1, <1>2, <2>1
<1> HIDE DEF c, u, g
<1>8. /\ \A d \in 1 .. MaxBlocks : history'[d] # {} => d \in 1 .. u
      /\ \A d, e \in 1 .. MaxBlocks : history'[d] \cap history'[e] # {} => d = e
  <2>1. \A d \in 1 .. MaxBlocks : history[d] # {} => d \in 1 .. used
    BY DEF LoopBlocks
  <2>2. \A d, e \in 1 .. MaxBlocks : history[d] \cap history[e] # {} => d = e
    BY DEF LoopBlocks
  <2>3. \A d \in 1 .. MaxBlocks : u \notin history[d]
    BY <1>2, <1>7
  <2>4. ASSUME NEW d \in 1 .. MaxBlocks, NEW e \in 1 .. MaxBlocks,
               history'[d] \cap history'[e] # {}
        PROVE  d = e
    <3>1. PICK n : n \in history'[d] /\ n \in history'[e]
      BY <2>4
    <3>2. CASE n = u
      BY <1>7, <2>3, <3>1, <3>2
    <3>3. CASE n # u
      <4>1. n \in history[d] /\ n \in history[e]
        BY <1>7, <3>1, <3>3
      <4> QED BY <2>2, <4>1
    <3> QED BY <3>2, <3>3
  <2>5. \A d \in 1 .. MaxBlocks : history'[d] # {} => d \in 1 .. u
    BY <1>1, <1>2, <1>7, <2>1
  <2> QED BY <2>4, <2>5
<1>9. \A i, j \in 1 .. Len(message_queue) : message_queue[i].id = message_queue[j].id => i = j
  BY DEF LoopBlocks
<1>10. \A i, j \in 1 .. Len(message_queue') :
           message_queue'[i].id = message_queue'[j].id => i = j
  <2>1. ASSUME NEW i \in 1 .. Len(message_queue'), NEW j \in 1 .. Len(message_queue'),
               message_queue'[i].id = message_queue'[j].id
        PROVE  i = j
    <3> DEFINE a == IF i < same THEN i ELSE i + 1
               b == IF j < same THEN j ELSE j + 1
    <3>1. a \in 1 .. Len(message_queue) /\ b \in 1 .. Len(message_queue)
      BY <1>3, <1>4
    <3>2. message_queue'[i] = message_queue[a] /\ message_queue'[j] = message_queue[b]
      BY <1>3, <1>4
    <3>3. a = b
      BY <1>9, <2>1, <3>1, <3>2
    <3> QED BY <1>3, <3>3
  <2> QED BY <2>1
<1>11. ASSUME NEW n
       PROVE  (\E j \in 1 .. Len(message_queue') : message_queue'[j].id = n) <=>
                  (\E j \in 1 .. Len(message_queue) : message_queue[j].id = n) /\ n # g
  <2>1. ASSUME NEW j \in 1 .. Len(message_queue'), message_queue'[j].id = n
        PROVE  (\E i \in 1 .. Len(message_queue) : message_queue[i].id = n) /\ n # g
    <3> DEFINE a == IF j < same THEN j ELSE j + 1
    <3>1. a \in 1 .. Len(message_queue) /\ a # same /\ message_queue'[j] = message_queue[a]
      BY <1>3, <1>4
    <3> HIDE DEF a
    <3> QED BY <1>3, <1>9, <2>1, <3>1 DEF g
  <2>2. ASSUME NEW j \in 1 .. Len(message_queue), message_queue[j].id = n, n # g
        PROVE  \E i \in 1 .. Len(message_queue') : message_queue'[i].id = n
    <3> DEFINE a == IF j < same THEN j ELSE j - 1
    <3>1. j # same
      BY <2>2 DEF g
    <3>2. a \in 1 .. Len(message_queue') /\ message_queue'[a] = message_queue[j]
      BY <1>3, <1>4, <3>1
    <3> HIDE DEF a
    <3> QED BY <2>2, <3>2
  <2> QED BY <2>1, <2>2
<1>12. live' \subseteq Kinds \X Nat
  BY <1>0, <1>2 DEF LoopBlocks, Kinds, u
<1>13. ASSUME NEW n \in Nat
      PROVE  /\ <<"client", n>> \in live' <=> n \in ToSet(client_list')
             /\ <<"message", n>> \in live' <=>
                    \E j \in 1 .. Len(message_queue') : message_queue'[j].id = n
             /\ <<"history", n>> \in live' <=>
                    \E d \in ToSet(client_list') \cup departed' : n \in history'[d]
  <2>1. /\ <<"client", n>> \in live' <=> <<"client", n>> \in live
        /\ <<"message", n>> \in live' <=> <<"message", n>> \in live /\ n # g
        /\ <<"history", n>> \in live' <=> <<"history", n>> \in live \/ n = u
    BY <1>0 DEF g, u
  <2>2. /\ <<"client", n>> \in live <=> n \in ToSet(client_list)
        /\ <<"message", n>> \in live <=>
               \E j \in 1 .. Len(message_queue) : message_queue[j].id = n
        /\ <<"history", n>> \in live <=>
               \E d \in ToSet(client_list) \cup departed : n \in history[d]
    BY DEF LoopBlocks
  <2>3. ToSet(client_list) \cup departed \subseteq 1 .. MaxBlocks /\ c \in ToSet(client_list)
    BY <1>0, ListedClient DEF LoopBlocks, c
  <2>4. (\E d \in ToSet(client_list) \cup departed : n \in history'[d]) <=>
            (\E d \in ToSet(client_list) \cup departed : n \in history[d]) \/ n = u
    BY <1>7, <2>3
  <2> QED BY <1>0, <1>11, <2>1, <2>2, <2>4
<1>14. /\ \A i, j \in 1 .. Len(client_list') : client_list'[i] = client_list'[j] => i = j
       /\ departed' \cap ToSet(client_list') = {}
       /\ client_list' \in Seq(1 .. u) /\ departed' \subseteq 1 .. u /\ used' = u
  BY <1>0, <1>2 DEF LoopBlocks, u
<1> QED BY <1>2, <1>4, <1>6, <1>7, <1>8, <1>10, <1>12, <1>13, <1>14 DEF LoopBlocks

-----------------------------------------------------------------------------
(* The steps.                                                              *)

\* Nothing but the command line or the sockets changes.
LEMMA Idle ==
  ASSUME Place, LoopBlocks, UNCHANGED <<todo, curses, wild, failed, live, listVars>>
  PROVE  Place' /\ LoopBlocks'
<1>1. UNCHANGED <<client_list, message_queue>>
  BY DEF listVars
<1>2. live' \subseteq Kinds \X Nat
  BY DEF LoopBlocks
<1>3. Place'
  BY <1>1, PlaceKept
<1> QED BY <1>2, <1>3, LoopKept

\* The process ends before the last call of its list, and not in curses mode.
LEMMA Stops ==
  ASSUME SInv, UNCHANGED <<screen, windows, todo, wild, failed, curses>>,
         exit_code' # "none", todo # <<exit_code'>>, ~curses
  PROVE  SInv'
<1>1. ~Alive'
  BY DEF Alive
<1> QED BY <1>1 DEF SInv, FreedOnce, TerminalRestored, LeftBehind

\* A signal ends the process at one of the three calls that may raise one.
LEMMA Killed ==
  ASSUME SInv, UNCHANGED <<screen, windows, todo, wild, failed, curses>>,
         exit_code' = "killed",
         \/ Head(todo) \in {"loop", "fopen"}
         \/ Head(todo) = "free_pfds" /\ failed = "pfd_create_array"
  PROVE  SInv'
<1>1. ~Alive'
  BY DEF Alive
<1>2. todo # <<"killed">>
  <2>1. Head(<<"killed">>) = "killed"
    OBVIOUS
  <2> QED BY <2>1
<1>3. LeftBehind'
  BY <1>2 DEF LeftBehind
<1>4. TerminalRestored'
  BY DEF TerminalRestored
<1> QED BY <1>1, <1>3, <1>4 DEF SInv, FreedOnce

\* Reading the command line.
LEMMA GetoptStep == SInv /\ (getopt \/ GetoptEnds) => SInv'
<1> SUFFICES ASSUME SInv, getopt \/ GetoptEnds PROVE SInv'
  OBVIOUS
<1>1. Alive /\ Head(todo) = "getopt" /\ exit_code = "none"
  BY DEF getopt, GetoptEnds, Call, Alive
<1>2. Place /\ LoopBlocks /\ InGetopt /\ FreedOnce
  BY <1>1, Where DEF SInv
<1>3. UNCHANGED <<screen, windows, curses, wild, failed, live, listVars>>
  BY DEF getopt, GetoptEnds, startVars, ttyVars, heapVars, Ends
<1>4. CASE UNCHANGED <<todo, exit_code>>
  BY <1>1, <1>2, <1>3, <1>4, Idle, Continues DEF FreedOnce
<1>5. CASE UNCHANGED todo /\ exit_code' \in {"failure", "success"}
  <2>1. todo # <<exit_code'>> /\ ~curses
    BY <1>2, <1>5 DEF InGetopt
  <2> QED BY <1>3, <1>5, <2>1, Stops
<1>6. CASE todo' = SetUp /\ UNCHANGED exit_code
  <2>1. InSetUp(1)'
    BY <1>2, <1>3, <1>6, AtFirst DEF InGetopt, InSetUp, Holding
  <2>2. LoopBlocks'
    BY <1>2, <1>3, LoopKept DEF LoopBlocks
  <2> QED BY <1>1, <1>2, <1>3, <1>6, <2>1, <2>2, Continues DEF Place, FreedOnce
<1> QED BY <1>4, <1>5, <1>6 DEF getopt, GetoptEnds, Ends

\* The array of windows, which is not yet filled.
LEMMA WindowArrayStep == SInv /\ window_create_array => SInv'
<1> SUFFICES ASSUME SInv, window_create_array PROVE SInv'
  OBVIOUS
<1>1. /\ Alive /\ Head(todo) = SetUp[1] /\ todo' = Tail(todo)
      /\ UNCHANGED <<screen, exit_code, windows, curses, failed, wild, listVars>>
      /\ live' = live \cup {<<"windows", 0>>}
  BY DEF window_create_array, Call, Done, Malloc, Block, startVars, ttyVars, SetUp
<1>2. Place /\ LoopBlocks /\ InSetUp(1) /\ FreedOnce
  BY <1>1, Where DEF SInv
<1>3. At(SetUp, 2)'
  BY <1>1, <1>2, AtLater DEF InSetUp
<1>4. InSetUp(2)'
  BY <1>1, <1>2, <1>3 DEF InSetUp, Holding
<1>5. live' \subseteq Kinds \X Nat
  BY <1>1, <1>2 DEF LoopBlocks, Kinds
<1>6. LoopBlocks'
  BY <1>1, <1>2, <1>5, LoopKept
<1> QED BY <1>1, <1>2, <1>4, <1>6, Continues DEF Place, FreedOnce

\* args.
LEMMA MallocArgsStep == SInv /\ malloc_args => SInv'
<1> SUFFICES ASSUME SInv, malloc_args PROVE SInv'
  OBVIOUS
<1>1. /\ Alive /\ Head(todo) = SetUp[3] /\ todo' = Tail(todo)
      /\ UNCHANGED <<screen, exit_code, windows, curses, failed, wild, listVars>>
      /\ live' = live \cup {<<"args", 0>>}
  BY DEF malloc_args, Call, Done, Malloc, Block, startVars, ttyVars, SetUp
<1>2. Place /\ LoopBlocks /\ InSetUp(3) /\ FreedOnce
  BY <1>1, Where DEF SInv
<1>3. At(SetUp, 4)'
  BY <1>1, <1>2, AtLater DEF InSetUp
<1>4. InSetUp(4)'
  BY <1>1, <1>2, <1>3 DEF InSetUp, Holding
<1>5. live' \subseteq Kinds \X Nat
  BY <1>1, <1>2 DEF LoopBlocks, Kinds
<1>6. LoopBlocks'
  BY <1>1, <1>2, <1>5, LoopKept
<1> QED BY <1>1, <1>2, <1>4, <1>6, Continues DEF Place, FreedOnce

\* A failure that handle_error ends: everything of the set-up is in use, but args->pfds
\* if that was the failure.
LEMMA FailureStep ==
  ASSUME SInv, Alive, NEW k \in 4 .. 9, InSetUp(k), handle_error(SetUp[k]),
         UNCHANGED <<screen, windows, curses, wild, live, listVars>>
  PROVE  SInv'
<1>1. Place /\ LoopBlocks /\ wild = {}
  BY DEF SInv, InSetUp
<1>2. /\ todo' = Failure /\ failed' = SetUp[k] /\ UNCHANGED exit_code
      /\ SetUp[k] = "pfd_create_array" <=> k = 4
  BY DEF handle_error, SetUp
<1>3. InFailure(1)'
  BY <1>2, AtFirst DEF InFailure, InSetUp, Holding
<1>4. LoopBlocks'
  BY <1>1, LoopKept DEF LoopBlocks
<1>5. FreedOnce'
  BY <1>1 DEF FreedOnce
<1> QED BY <1>2, <1>3, <1>4, <1>5, Continues DEF Place

\* The array of descriptors, which may not be had.
LEMMA PfdArrayStep == SInv /\ pfd_create_array => SInv'
<1> SUFFICES ASSUME SInv, pfd_create_array PROVE SInv'
  OBVIOUS
<1>1. /\ Alive /\ Head(todo) = SetUp[4]
      /\ UNCHANGED <<screen, windows, curses, wild, listVars>>
  BY DEF pfd_create_array, Call, Malloc, startVars, ttyVars, heapVars, SetUp
<1>2. Place /\ LoopBlocks /\ InSetUp(4) /\ FreedOnce
  BY <1>1, Where DEF SInv
<1>3. CASE live' = live \cup {<<"pfds", 0>>} /\ todo' = Tail(todo) /\ UNCHANGED <<exit_code, failed>>
  <2>1. At(SetUp, 5)'
    BY <1>2, <1>3, AtLater DEF InSetUp
  <2>2. InSetUp(5)'
    BY <1>1, <1>2, <1>3, <2>1 DEF InSetUp, Holding
  <2>3. live' \subseteq Kinds \X Nat
    BY <1>2, <1>3 DEF LoopBlocks, Kinds
  <2>4. LoopBlocks'
    BY <1>1, <1>2, <1>3, <2>3, LoopKept
  <2> QED BY <1>1, <1>2, <1>3, <2>2, <2>4, Continues DEF Place, FreedOnce
<1>4. CASE handle_error("pfd_create_array") /\ UNCHANGED live
  <2>1. SetUp[4] = "pfd_create_array"
    BY DEF SetUp
  <2> QED BY <1>1, <1>2, <1>4, <2>1, FailureStep
<1> QED BY <1>3, <1>4 DEF pfd_create_array, Malloc, Done, Block, heapVars

\* The calls of server_init.
LEMMA ServerStep ==
  ASSUME SInv, NEW call \in {"socket", "setsockopt", "bind", "listen"}, server_init(call)
  PROVE  SInv'
<1>1. PICK k \in 5 .. 8 : SetUp[k] = call
  BY DEF SetUp
<1>2. /\ Alive /\ Head(todo) = SetUp[k]
      /\ UNCHANGED <<screen, windows, curses, wild, live, listVars>>
  BY <1>1 DEF server_init, Call, startVars, ttyVars, heapVars
<1>3. Place /\ LoopBlocks /\ InSetUp(k) /\ FreedOnce
  BY <1>2, Where DEF SInv
<1>4. CASE todo' = Tail(todo) /\ UNCHANGED <<exit_code, failed>>
  <2>1. At(SetUp, k + 1)'
    BY <1>3, <1>4, AtLater DEF InSetUp
  <2>2. InSetUp(k + 1)'
    BY <1>2, <1>3, <2>1 DEF InSetUp, Holding
  <2>3. LoopBlocks'
    BY <1>2, <1>3, LoopKept DEF LoopBlocks
  <2> QED BY <1>2, <1>3, <1>4, <2>2, <2>3, Continues DEF Place, FreedOnce
<1>5. CASE handle_error(SetUp[k])
  BY <1>2, <1>3, <1>5, FailureStep
<1> QED BY <1>1, <1>4, <1>5 DEF server_init, Done

\* The windows: all of them, or the process leaves with the terminal as it is.
LEMMA CursesStep == SInv /\ init_curses => SInv'
<1> SUFFICES ASSUME SInv, init_curses PROVE SInv'
  OBVIOUS
<1> DEFINE n == Cardinality(Creatable)
<1>1. /\ Alive /\ Head(todo) = SetUp[2] /\ curses' = TRUE
      /\ UNCHANGED <<screen, wild, failed, listVars>>
      /\ windows' = [k \in 1 .. n |-> Opened(screen, Dims(screen)[k])]
      /\ IF n = N_WINDOWS
         THEN /\ live' = live \cup Blocks("window", 1 .. N_WINDOWS)
              /\ todo' = Tail(todo) /\ UNCHANGED exit_code
         ELSE exit_code' = "failure" /\ UNCHANGED todo
  BY DEF init_curses, Call, Done, Ends, Malloc, startVars, SetUp
<1>2. Place /\ LoopBlocks /\ InSetUp(2) /\ FreedOnce /\ screen \in Screen
  BY <1>1, Where DEF SInv
<1>3. n \in 0 .. N_WINDOWS
  BY HowManyCreatable
<1>4. screen' \in Screen
      /\ \E m \in 0 .. N_WINDOWS :
             windows' = [k \in 1 .. m |-> Opened(screen', Dims(screen')[k])]
  BY <1>1, <1>2, <1>3
<1>5. CASE n = N_WINDOWS
  <2>1. At(SetUp, 3)'
    BY <1>1, <1>2, <1>5, AtLater DEF InSetUp
  <2>2. live' = live \cup {<<"window", m>> : m \in 1 .. N_WINDOWS}
    BY <1>1, <1>5 DEF Blocks
  <2> HIDE DEF n
  <2>3. InSetUp(3)'
    BY <1>1, <1>2, <2>1, <2>2 DEF InSetUp, Holding
  <2>4. live' \subseteq Kinds \X Nat
    BY <1>2, <2>2 DEF LoopBlocks, Kinds, N_WINDOWS
  <2>5. LoopBlocks'
    BY <1>1, <1>2, <2>2, <2>4, LoopKept
  <2>6. exit_code' = "none"
    BY <1>1, <1>5 DEF Alive
  <2>7. FreedOnce'
    BY <1>1, <1>2 DEF FreedOnce
  <2> QED BY <1>4, <2>3, <2>5, <2>6, <2>7 DEF SInv, Place, TerminalRestored, LeftBehind
<1>6. CASE n # N_WINDOWS
  <2>1. exit_code' = "failure" /\ todo' = todo
    BY <1>1, <1>6
  <2>2. screen.LINES < 8 \/ screen.COLS < 20
    <3>1. screen.LINES \in Nat /\ screen.COLS \in Nat
      BY <1>2 DEF Screen
    <3> QED BY <1>2, <1>6, <3>1, Complete
  <2>3. todo # <<"failure">>
    BY <1>2, Lists DEF InSetUp, At
  <2> HIDE DEF n
  <2> QED BY <1>1, <1>2, <1>4, <2>1, <2>2, <2>3
      DEF SInv, Alive, FreedOnce, TerminalRestored, LeftBehind
<1> QED BY <1>5, <1>6

\* Every step of the loop.
LEMMA LoopingStep == SInv /\ Looping => SInv'
<1> SUFFICES ASSUME SInv, Looping PROVE SInv'
  OBVIOUS
<1>1. Alive /\ Head(todo) = SetUp[9] /\ SetUp[9] = "loop"
  BY DEF Looping, client_create, packet_receive, message_create, packet_transmit,
     client_disconnect, ReceiveEnd, LoopEnds, InLoop, Call, SetUp
<1>2. Place /\ LoopBlocks /\ InSetUp(9) /\ FreedOnce
  BY <1>1, Where DEF SInv
<1>3. ASSUME LoopOnly, LoopBlocks', UNCHANGED wild,
             \A kind \in {"windows", "window", "args", "pfds"}, n \in Nat :
                 <<kind, n>> \in live' <=> <<kind, n>> \in live
      PROVE  SInv'
  <2>1. UNCHANGED <<screen, exit_code, windows, todo, curses, failed>>
    BY <1>3 DEF LoopOnly, startVars, ttyVars
  <2>2. Place'
    BY <1>2, <1>3, <2>1, PlaceKept
  <2> QED BY <1>1, <1>2, <1>3, <2>1, <2>2, Continues DEF FreedOnce
<1>4. CASE client_create
  <2>1. LoopBlocks'
    BY <1>2, <1>4, CreateKeeps
  <2>2. LoopOnly /\ wild' = wild /\ live' = live \cup {<<"client", used'>>}
    BY <1>4 DEF client_create, Malloc
  <2> QED BY <1>3, <2>1, <2>2
<1>5. ASSUME NEW k \in DOMAIN client_list, packet_receive(k)
      PROVE  SInv'
  <2>1. LoopBlocks'
    BY <1>2, <1>5, ReceiveKeeps
  <2>2. LoopOnly /\ wild' = wild /\ live' = live \cup {<<"packet", used'>>, <<"history", used'>>}
    BY <1>5 DEF packet_receive, Malloc
  <2> QED BY <1>3, <2>1, <2>2
<1>6. ASSUME NEW k \in DOMAIN client_list, message_create(k)
      PROVE  SInv'
  <2>1. LoopBlocks'
    BY <1>2, <1>6, MessageKeeps
  <2>2. LoopOnly /\ wild' = wild /\ live' = live \cup {<<"packet", used'>>, <<"message", used'>>}
    BY <1>6 DEF message_create, Malloc
  <2> QED BY <1>3, <2>1, <2>2
<1>7. ASSUME NEW k \in DOMAIN client_list, client_disconnect(k) \/ ReceiveEnd(k)
      PROVE  SInv'
  <2> DEFINE c == client_list[k]
  <2>1. PICK packets \in SUBSET {<<"packet", used + 1>>} :
            /\ live' = (live \cup packets) \ {<<"client", c>>}
            /\ wild' = wild \cup ({<<"client", c>>} \ live)
            /\ used' = used \/ (used < MaxBlocks /\ used' = used + 1)
    <3>1. CASE client_disconnect(k)
      <4>1. /\ live' = (live \cup {}) \ {<<"client", c>>}
            /\ wild' = wild \cup ({<<"client", c>>} \ live) /\ used' = used
        BY <3>1 DEF client_disconnect, Free
      <4> WITNESS {} \in SUBSET {<<"packet", used + 1>>}
      <4> QED BY <4>1
    <3>2. CASE ReceiveEnd(k)
      BY <3>2 DEF ReceiveEnd, InLoop
    <3> QED BY <1>7, <3>1, <3>2
  <2>2. /\ LoopOnly /\ client_list' = RemoveAt(client_list, k)
        /\ departed' = departed \cup {c} /\ UNCHANGED <<history, message_queue>>
    BY <1>7 DEF client_disconnect, ReceiveEnd
  <2>3. used' \in used .. MaxBlocks /\ packets \subseteq {"packet"} \X Nat
    <3>1. used \in 0 .. MaxBlocks /\ MaxBlocks \in Nat
      BY <1>2, StartupAssumption DEF LoopBlocks
    <3> QED BY <2>1, <3>1
  <2>4. LoopBlocks' /\ <<"client", c>> \in live
    BY <1>2, <2>1, <2>2, <2>3, LeaveKeeps
  <2>5. \A kind \in {"windows", "window", "args", "pfds"}, n \in Nat :
            <<kind, n>> \in live' <=> <<kind, n>> \in live
    BY <2>1, <2>3
  <2>6. wild' = wild
    BY <2>1, <2>4
  <2> QED BY <1>3, <2>2, <2>4, <2>5, <2>6
<1>8. ASSUME NEW k \in DOMAIN message_queue, packet_transmit(k)
      PROVE  SInv'
  <2>1. LoopBlocks' /\ wild' = wild
    BY <1>2, <1>8, TransmitKeeps
  <2>2. /\ LoopOnly
        /\ \E same \in 1 .. k :
               live' = (live \cup {<<"packet", used'>>, <<"history", used'>>})
                           \ {<<"message", message_queue[same].id>>}
    BY <1>8 DEF packet_transmit
  <2> QED BY <1>3, <2>1, <2>2
<1>9. CASE LoopEnds
  <2>1. UNCHANGED <<screen, windows, curses, wild, live, listVars>>
    BY <1>9 DEF LoopEnds, startVars, ttyVars, heapVars
  <2>2. CASE todo' = End /\ UNCHANGED <<exit_code, failed>>
    <3>1. InEnd(1)'
      BY <1>2, <2>1, <2>2, AtFirst DEF InEnd, InSetUp, Holding
    <3>2. LoopBlocks'
      BY <1>2, <2>1, LoopKept DEF LoopBlocks
    <3> QED BY <1>1, <1>2, <2>1, <2>2, <3>1, <3>2, Continues DEF Place, FreedOnce
  <2>3. CASE handle_error("loop")
    BY <1>1, <1>2, <2>1, <2>3, FailureStep
  <2>4. CASE Ends("killed")
    BY <1>1, <2>1, <2>4, Killed DEF Ends
  <2> QED BY <1>9, <2>2, <2>3, <2>4 DEF LoopEnds
<1> QED BY <1>4, <1>5, <1>6, <1>7, <1>8, <1>9 DEF Looping

-----------------------------------------------------------------------------

\* The two clean-ups make the same six calls.
LEMMA Cleaning ==
  ASSUME Place, NEW k \in 1 .. 6, Head(todo) = End[k], todo' = Tail(todo)
  PROVE  \/ InEnd(k) /\ At(End, k + 1)'
         \/ InFailure(k + 1) /\ At(Failure, k + 2)'
<1>0. k \in 1 .. 8 /\ k < 8
  OBVIOUS
<1>1. CASE InEnd(k)
  <2>1. At(End, k)
    BY <1>1 DEF InEnd
  <2> QED BY <1>0, <1>1, <2>1, AtLater
<1>2. CASE InFailure(k + 1)
  <2>1. k + 1 \in 1 .. 8 /\ k + 1 < 8 /\ k + 2 = (k + 1) + 1
    OBVIOUS
  <2>2. At(Failure, k + 2)'
    BY <1>2, <2>1, AtLater DEF InFailure
  <2> QED BY <1>2, <2>2
<1>3. InEnd(k) \/ \E j \in 1 .. 8 : Failure[j] = End[k] /\ InFailure(j)
  BY <1>0, Where
<1>4. \A j \in 1 .. 8 : Failure[j] = End[k] => j = k + 1
  BY DEF End, Failure
<1> QED BY <1>1, <1>2, <1>3, <1>4

\* A clean-up call that leaves the blocks of the loop alone.
LEMMA CleaningStep ==
  ASSUME SInv, Alive, NEW k \in {1, 4, 5, 6}, Head(todo) = End[k], todo' = Tail(todo),
         UNCHANGED <<screen, exit_code, failed, listVars>>,
         windows' = windows \/ windows' = <<>>,
         k # 6 => UNCHANGED curses, k = 6 => ~curses',
         NEW blocks,
         k = 1 => blocks = {<<"pfds", 0>>},
         k = 4 => blocks = {<<"window", n>> : n \in 1 .. N_WINDOWS},
         k = 5 => blocks = {<<"args", 0>>},
         k = 6 => blocks = {},
         live' = live \ blocks, wild' = wild \cup (blocks \ live)
  PROVE  SInv'
<1>1. Place /\ LoopBlocks /\ FreedOnce
  BY DEF SInv
<1>2. LoopBlocks'
  <2>1. live' \subseteq Kinds \X Nat
    BY <1>1 DEF LoopBlocks
  <2>2. blocks \cap ({"client", "message", "history"} \X Nat) = {}
    OBVIOUS
  <2> QED BY <1>1, <2>1, <2>2, LoopKept
<1>3. UNCHANGED <<client_list, message_queue>>
  BY DEF listVars
<1>4. CASE InEnd(k) /\ At(End, k + 1)'
  <2>1. blocks \subseteq live
    <3>1. /\ k <= 1 => <<"pfds", 0>> \in live
          /\ k <= 4 => \A n \in 1 .. N_WINDOWS : <<"window", n>> \in live
          /\ k <= 5 => <<"args", 0>> \in live
      <4>1. 0 \in Nat /\ \A n \in 1 .. N_WINDOWS : n \in Nat
        BY DEF N_WINDOWS
      <4>2. Holding(TRUE, k <= 4, k <= 5, k <= 1)
        BY <1>4 DEF InEnd
      <4>3. <<"pfds", 0>> \in live <=> k <= 1
        BY <4>1, <4>2 DEF Holding
      <4>4. \A n \in 1 .. N_WINDOWS : <<"window", n>> \in live <=> k <= 4
        BY <4>1, <4>2 DEF Holding
      <4>5. <<"args", 0>> \in live <=> k <= 5
        BY <4>1, <4>2 DEF Holding
      <4> QED BY <4>3, <4>4, <4>5
    <3> QED BY <3>1
  <2>2. InEnd(k + 1)'
    BY <1>3, <1>4, <2>1 DEF InEnd, Holding
  <2>3. FreedOnce'
    BY <1>1, <2>1 DEF FreedOnce
  <2> QED BY <1>2, <2>2, <2>3, Continues DEF Place
<1>5. CASE InFailure(k + 1) /\ At(Failure, k + 2)'
  <2>1. blocks \subseteq live \/ (failed = "pfd_create_array" /\ blocks = {<<"pfds", 0>>})
    <3>1. /\ k <= 1 /\ failed # "pfd_create_array" => <<"pfds", 0>> \in live
          /\ k <= 4 => \A n \in 1 .. N_WINDOWS : <<"window", n>> \in live
          /\ k <= 5 => <<"args", 0>> \in live
      <4>1. 0 \in Nat /\ \A n \in 1 .. N_WINDOWS : n \in Nat
        BY DEF N_WINDOWS
      <4>2. Holding(TRUE, k + 1 <= 5, k + 1 <= 6, k + 1 <= 2 /\ failed # "pfd_create_array")
        BY <1>5 DEF InFailure
      <4>3. <<"pfds", 0>> \in live <=> k + 1 <= 2 /\ failed # "pfd_create_array"
        BY <4>1, <4>2 DEF Holding
      <4>4. \A n \in 1 .. N_WINDOWS : <<"window", n>> \in live <=> k + 1 <= 5
        BY <4>1, <4>2 DEF Holding
      <4>5. <<"args", 0>> \in live <=> k + 1 <= 6
        BY <4>1, <4>2 DEF Holding
      <4> QED BY <4>3, <4>4, <4>5
    <3> QED BY <3>1
  <2>2. InFailure(k + 2)'
    BY <1>3, <1>5 DEF InFailure, Holding
  <2>3. FreedOnce'
    BY <1>1, <2>1 DEF FreedOnce, Block
  <2>4. k + 2 \in 1 .. 8
    OBVIOUS
  <2> QED BY <1>2, <2>2, <2>3, <2>4, Continues DEF Place
<1> QED BY <1>1, <1>4, <1>5, Cleaning

\* Every client of the list is freed, and its history with it.
LEMMA ClientsFreed == SInv /\ client_free => SInv'
<1> SUFFICES ASSUME SInv, client_free PROVE SInv'
  OBVIOUS
<1> DEFINE clients == {<<"client", c>> : c \in ToSet(client_list)}
           entries == {<<"history", n>> : n \in UNION {history[c] : c \in ToSet(client_list)}}
<1>1. /\ Alive /\ Head(todo) = End[2] /\ todo' = Tail(todo)
      /\ UNCHANGED <<screen, exit_code, failed, windows, curses>>
      /\ UNCHANGED <<history, message_queue, used, departed>>
      /\ live' = live \ (clients \cup entries)
      /\ wild' = wild \cup ((clients \cup entries) \ live)
      /\ client_list' = <<>>
  BY DEF client_free, Call, Done, Free, Blocks, startVars, ttyVars, End
<1>2. Place /\ LoopBlocks /\ FreedOnce
  BY <1>1 DEF SInv
<1>3. /\ ToSet(client_list) \subseteq Nat /\ ToSet(client_list) \subseteq 1 .. MaxBlocks
      /\ \A c \in ToSet(client_list) : history[c] \subseteq Nat
  <2>1. ToSet(client_list) \subseteq Nat /\ ToSet(client_list) \subseteq 1 .. MaxBlocks
    BY <1>2, ListedClient
  <2>2. history \in [1 .. MaxBlocks -> SUBSET (1 .. used)] /\ 1 .. used \subseteq Nat
    BY <1>2 DEF LoopBlocks
  <2> QED BY <2>1, <2>2
<1>4. clients \subseteq live /\ entries \subseteq live
  <2>1. \A n \in Nat :
            /\ <<"client", n>> \in live <=> n \in ToSet(client_list)
            /\ <<"history", n>> \in live <=>
                   \E d \in ToSet(client_list) \cup departed : n \in history[d]
    BY <1>2 DEF LoopBlocks
  <2>2. clients \subseteq live
    BY <1>3, <2>1
  <2>3. entries \subseteq live
    BY <1>3, <2>1
  <2> QED BY <2>2, <2>3
<1>5. wild' = wild
  BY <1>1, <1>4
<1>6. ToSet(client_list') = {} /\ Len(client_list') = 0 /\ client_list' \in Seq(1 .. used)
  BY <1>1 DEF ToSet
<1>7. ASSUME NEW n \in Nat
      PROVE  /\ <<"client", n>> \in live' <=> n \in ToSet(client_list')
             /\ <<"message", n>> \in live' <=>
                    \E k \in 1 .. Len(message_queue') : message_queue'[k].id = n
             /\ <<"history", n>> \in live' <=>
                    \E c \in ToSet(client_list') \cup departed' : n \in history'[c]
  <2>1. /\ <<"client", n>> \in live <=> n \in ToSet(client_list)
        /\ <<"message", n>> \in live <=>
               \E k \in 1 .. Len(message_queue) : message_queue[k].id = n
        /\ <<"history", n>> \in live <=>
               \E d \in ToSet(client_list) \cup departed : n \in history[d]
    BY <1>2 DEF LoopBlocks
  <2>2. /\ <<"client", n>> \in live' <=>
               <<"client", n>> \in live /\ n \notin ToSet(client_list)
        /\ <<"message", n>> \in live' <=> <<"message", n>> \in live
        /\ <<"history", n>> \in live' <=>
               /\ <<"history", n>> \in live
               /\ ~ \E c \in ToSet(client_list) : n \in history[c]
    BY <1>1
  <2>3. /\ departed \cap ToSet(client_list) = {} /\ departed \subseteq 1 .. MaxBlocks
        /\ \A c, d \in 1 .. MaxBlocks : history[c] \cap history[d] # {} => c = d
    BY <1>2, ListedClient DEF LoopBlocks
  <2>4. ASSUME NEW d \in departed, NEW c \in ToSet(client_list), n \in history[d], n \in history[c]
        PROVE  FALSE
    BY <1>3, <2>3, <2>4
  <2> HIDE DEF clients, entries
  <2> QED BY <1>1, <1>6, <2>1, <2>2, <2>4
<1>8. live' \subseteq Kinds \X Nat
  BY <1>1, <1>2 DEF LoopBlocks
<1>9. \A kind \in {"windows", "window", "args", "pfds"}, n \in Nat :
          <<kind, n>> \in live' <=> <<kind, n>> \in live
  BY <1>1
<1> HIDE DEF clients, entries
<1>10. LoopBlocks'
  <2>1. /\ used \in 0 .. MaxBlocks /\ departed \subseteq 1 .. used
        /\ history \in [1 .. MaxBlocks -> SUBSET (1 .. used)]
        /\ \A c \in 1 .. MaxBlocks : history[c] # {} => c \in 1 .. used
        /\ \A c, d \in 1 .. MaxBlocks : history[c] \cap history[d] # {} => c = d
    BY <1>2 DEF LoopBlocks
  <2>2. /\ message_queue \in Seq([id : 1 .. used, client : Nat])
        /\ \A j, k \in 1 .. Len(message_queue) :
               message_queue[j].id = message_queue[k].id => j = k
    BY <1>2 DEF LoopBlocks
  <2>3. \A j, k \in 1 .. Len(client_list') : client_list'[j] = client_list'[k] => j = k
    BY <1>6
  <2>4. departed \cap ToSet(client_list') = {}
    BY <1>6
  <2> QED BY <1>1, <1>6, <1>7, <1>8, <2>1, <2>2, <2>3, <2>4 DEF LoopBlocks
<1>11. FreedOnce'
  BY <1>1, <1>2, <1>5 DEF FreedOnce
<1>12. CASE InEnd(2) /\ At(End, 3)'
  <2>1. InEnd(3)'
    BY <1>1, <1>5, <1>9, <1>12 DEF InEnd, Holding
  <2> QED BY <1>1, <1>10, <1>11, <2>1, Continues DEF Place
<1>13. CASE InFailure(3) /\ At(Failure, 4)'
  <2>1. InFailure(4)'
    BY <1>1, <1>9, <1>13 DEF InFailure, Holding
  <2> QED BY <1>1, <1>10, <1>11, <2>1, Continues DEF Place
<1>14. 2 + 1 = 3 /\ 2 + 2 = 4 /\ 2 \in 1 .. 6
  OBVIOUS
<1>15. (InEnd(2) /\ At(End, 2 + 1)') \/ (InFailure(2 + 1) /\ At(Failure, 2 + 2)')
  BY <1>1, <1>2, <1>14, Cleaning
<1> QED BY <1>12, <1>13, <1>14, <1>15

\* Every message of the queue is freed.
LEMMA MessagesFreed == SInv /\ message_free => SInv'
<1> SUFFICES ASSUME SInv, message_free PROVE SInv'
  OBVIOUS
<1> DEFINE messages == {<<"message", n>> : n \in {message_queue[k].id : k \in DOMAIN message_queue}}
<1>1. /\ Alive /\ Head(todo) = End[3] /\ todo' = Tail(todo)
      /\ UNCHANGED <<screen, exit_code, failed, windows, curses>>
      /\ UNCHANGED <<history, client_list, used, departed>>
      /\ live' = live \ messages
      /\ wild' = wild \cup (messages \ live)
      /\ message_queue' = <<>>
  BY DEF message_free, Call, Done, Free, Blocks, startVars, ttyVars, End
<1>2. Place /\ LoopBlocks /\ FreedOnce
  BY <1>1 DEF SInv
<1>3. /\ DOMAIN message_queue = 1 .. Len(message_queue)
      /\ \A k \in 1 .. Len(message_queue) : message_queue[k].id \in Nat
  <2>1. message_queue \in Seq([id : 1 .. used, client : Nat]) /\ 1 .. used \subseteq Nat
    BY <1>2 DEF LoopBlocks
  <2>2. DOMAIN message_queue = 1 .. Len(message_queue)
    BY <2>1, LenProperties
  <2>3. \A k \in 1 .. Len(message_queue) : message_queue[k] \in [id : 1 .. used, client : Nat]
    BY <2>1, ElementOfSeq
  <2> QED BY <2>1, <2>2, <2>3
<1>a. \A n \in Nat : <<"message", n>> \in live <=>
                          \E k \in 1 .. Len(message_queue) : message_queue[k].id = n
  BY <1>2 DEF LoopBlocks
<1>4. messages \subseteq live
  BY <1>3, <1>a
<1>5. wild' = wild
  BY <1>1, <1>4
<1>6. Len(message_queue') = 0 /\ message_queue' \in Seq([id : 1 .. used, client : Nat])
  BY <1>1
<1>7. ASSUME NEW n \in Nat
      PROVE  /\ <<"client", n>> \in live' <=> <<"client", n>> \in live
             /\ <<"message", n>> \notin live'
             /\ <<"history", n>> \in live' <=> <<"history", n>> \in live
  <2>1. <<"message", n>> \in live => <<"message", n>> \in messages
    BY <1>3, <1>a
  <2> QED BY <1>1, <2>1
<1>8. live' \subseteq Kinds \X Nat
  BY <1>1, <1>2 DEF LoopBlocks
<1>9. \A kind \in {"windows", "window", "args", "pfds"}, n \in Nat :
          <<kind, n>> \in live' <=> <<kind, n>> \in live
  BY <1>1
<1> HIDE DEF messages
<1>10. LoopBlocks'
  <2>1. /\ used \in 0 .. MaxBlocks /\ departed \subseteq 1 .. used
        /\ history \in [1 .. MaxBlocks -> SUBSET (1 .. used)]
        /\ \A c \in 1 .. MaxBlocks : history[c] # {} => c \in 1 .. used
        /\ \A c, d \in 1 .. MaxBlocks : history[c] \cap history[d] # {} => c = d
    BY <1>2 DEF LoopBlocks
  <2>2. /\ client_list \in Seq(1 .. used) /\ departed \cap ToSet(client_list) = {}
        /\ \A j, k \in 1 .. Len(client_list) : client_list[j] = client_list[k] => j = k
    BY <1>2 DEF LoopBlocks
  <2>3. \A j, k \in 1 .. Len(message_queue') :
            message_queue'[j].id = message_queue'[k].id => j = k
    BY <1>6
  <2>4. \A n \in Nat :
            /\ <<"client", n>> \in live' <=> n \in ToSet(client_list)
            /\ <<"message", n>> \in live' <=>
                   \E k \in 1 .. Len(message_queue') : message_queue'[k].id = n
            /\ <<"history", n>> \in live' <=>
                   \E d \in ToSet(client_list) \cup departed : n \in history[d]
    <3>1. \A n \in Nat :
              /\ <<"client", n>> \in live <=> n \in ToSet(client_list)
              /\ <<"history", n>> \in live <=>
                     \E d \in ToSet(client_list) \cup departed : n \in history[d]
      BY <1>2 DEF LoopBlocks
    <3>2. \A n \in Nat : ~ \E k \in 1 .. Len(message_queue') : message_queue'[k].id = n
      BY <1>6
    <3> QED BY <1>7, <3>1, <3>2
  <2> QED BY <1>1, <1>6, <1>8, <2>1, <2>2, <2>3, <2>4 DEF LoopBlocks
<1>11. FreedOnce'
  BY <1>1, <1>2, <1>5 DEF FreedOnce
<1>12. CASE InEnd(3) /\ At(End, 4)'
  <2>1. InEnd(4)'
    BY <1>1, <1>5, <1>9, <1>12 DEF InEnd, Holding
  <2> QED BY <1>1, <1>10, <1>11, <2>1, Continues DEF Place
<1>13. CASE InFailure(4) /\ At(Failure, 5)'
  <2>1. InFailure(5)'
    BY <1>1, <1>9, <1>13 DEF InFailure, Holding
  <2> QED BY <1>1, <1>10, <1>11, <2>1, Continues DEF Place
<1>14. 3 + 1 = 4 /\ 3 + 2 = 5 /\ 3 \in 1 .. 6
  OBVIOUS
<1>15. (InEnd(3) /\ At(End, 3 + 1)') \/ (InFailure(3 + 1) /\ At(Failure, 3 + 2)')
  BY <1>1, <1>2, <1>14, Cleaning
<1> QED BY <1>12, <1>13, <1>14, <1>15

\* The last call: everything is freed but what LeftBehind says.
LEMMA ExitStep ==
  ASSUME SInv, NEW code \in {"success", "failure"}, exit(code)
  PROVE  SInv'
<1>1. /\ Alive /\ Head(todo) = code /\ exit_code' = code
      /\ UNCHANGED <<todo, failed, screen, windows, curses, wild, live, history, departed>>
  BY DEF exit, Call, Ends, startVars, ttyVars, heapVars, listVars
<1>2. Place /\ LoopBlocks
  BY <1>1 DEF SInv
<1>3. InEnd(8) \/ InFailure(8)
  <2>1. End[8] = "success" /\ \A j \in 1 .. 8 : Failure[j] # "success"
    BY DEF End, Failure
  <2> QED BY <1>1, <1>2, <2>1, Where
<1>4. /\ ~curses /\ client_list = <<>> /\ message_queue = <<>>
      /\ \A n \in Nat : /\ <<"windows", n>> \in live <=> n = 0
                        /\ <<"window", n>> \notin live
                        /\ <<"args", n>> \notin live
                        /\ <<"pfds", n>> \notin live
  BY <1>3 DEF InEnd, InFailure, Holding
<1>5. ASSUME NEW n \in Nat
      PROVE  /\ <<"client", n>> \notin live /\ <<"message", n>> \notin live
             /\ <<"history", n>> \in live <=> \E c \in departed : n \in history[c]
  <2>1. ToSet(client_list) = {} /\ Len(message_queue) = 0
    BY <1>4 DEF ToSet
  <2>2. /\ <<"client", n>> \in live <=> n \in ToSet(client_list)
        /\ <<"message", n>> \in live <=>
               \E k \in 1 .. Len(message_queue) : message_queue[k].id = n
        /\ <<"history", n>> \in live <=>
               \E d \in ToSet(client_list) \cup departed : n \in history[d]
    BY <1>2 DEF LoopBlocks
  <2> QED BY <2>1, <2>2
<1>6. live \subseteq Kinds \X Nat
  BY <1>2 DEF LoopBlocks
<1>7. \A c \in departed : history[c] \subseteq Nat
  <2>1. /\ history \in [1 .. MaxBlocks -> SUBSET (1 .. used)] /\ 1 .. used \subseteq Nat
        /\ departed \subseteq 1 .. MaxBlocks
    <3>1. 1 .. used \subseteq Nat /\ 1 .. used \subseteq 1 .. MaxBlocks
      BY <1>2, StartupAssumption DEF LoopBlocks
    <3> QED BY <1>2, <3>1 DEF LoopBlocks
  <2> QED BY <2>1
<1> DEFINE left == {<<"windows", 0>>} \cup {b \in live : b[1] = "packet"}
                      \cup {<<"history", n>> : n \in UNION {history[c] : c \in departed}}
<1>8. live \subseteq left
  <2> SUFFICES ASSUME NEW b \in live PROVE b \in left
    OBVIOUS
  <2>1. PICK kind \in Kinds, n \in Nat : b = <<kind, n>>
    BY <1>6
  <2> QED BY <1>4, <1>5, <2>1 DEF Kinds
<1>9. left \subseteq live
  BY <1>4, <1>5, <1>7
<1>10. LeftBehind'
  <2>1. (live = left)'
    BY <1>1, <1>8, <1>9
  <2>2. (live \ Packets \subseteq
             {<<"windows", 0>>} \cup {<<"history", n>> : n \in UNION {history[c] : c \in departed}})'
    BY <2>1 DEF Packets
  <2> QED BY <2>2 DEF LeftBehind, Blocks, Block
<1>11. FreedOnce' /\ TerminalRestored'
  BY <1>1, <1>4 DEF SInv, FreedOnce, TerminalRestored
<1> QED BY <1>1, <1>10, <1>11 DEF SInv, Alive

\* Every step of the two ways out.
LEMMA CleaningUpStep == SInv /\ CleaningUp => SInv'
<1> SUFFICES ASSUME SInv, CleaningUp PROVE SInv'
  OBVIOUS
<1> USE DEF Call, Done, Free, Block, Blocks, startVars, ttyVars, heapVars
<1>0. End[1] = "free_pfds" /\ End[4] = "window_free" /\ End[5] = "free_args" /\ End[6] = "endwin"
  BY DEF End
<1>1. CASE free_pfds /\ ~Ends("killed")
  <2>1. /\ Alive /\ Head(todo) = End[1] /\ todo' = Tail(todo)
        /\ UNCHANGED <<screen, exit_code, failed, listVars>> /\ UNCHANGED <<windows, curses>>
        /\ live' = live \ {<<"pfds", 0>>} /\ wild' = wild \cup ({<<"pfds", 0>>} \ live)
    BY <1>0, <1>1 DEF free_pfds, listVars
  <2> DEFINE K == 1
             blocks == {<<"pfds", 0>>}
  <2>2. /\ (K = 1 => blocks = {<<"pfds", 0>>})
        /\ (K = 4 => blocks = {<<"window", n>> : n \in 1 .. N_WINDOWS})
        /\ (K = 5 => blocks = {<<"args", 0>>})
        /\ (K = 6 => blocks = {})
        /\ windows' = windows \/ windows' = <<>>
        /\ K \in {1, 4, 5, 6}
        /\ (K # 6 => UNCHANGED curses) /\ (K = 6 => ~curses')
    BY <2>1
  <2>3. Head(todo) = End[K] /\ live' = live \ blocks /\ wild' = wild \cup (blocks \ live)
    BY <2>1
  <2> HIDE DEF K, blocks
  <2> QED BY <2>1, <2>2, <2>3, CleaningStep
<1>10. CASE free_pfds /\ Ends("killed")
  <2>1. exit_code' = "killed" /\ UNCHANGED <<todo, failed>>
    BY <1>10 DEF Ends
  <2>2. Alive /\ Head(todo) = "free_pfds" /\ UNCHANGED <<screen, windows, curses>>
    BY <1>10 DEF free_pfds
  <2>3. exit_code' # exit_code
    BY <2>1, <2>2 DEF Alive
  <2>4. failed = "pfd_create_array" /\ UNCHANGED wild
    BY <1>10, <2>3 DEF free_pfds
  <2> QED BY <2>1, <2>2, <2>4, Killed
<1>2. CASE client_free
  BY <1>2, ClientsFreed
<1>3. CASE message_free
  BY <1>3, MessagesFreed
<1>4. CASE window_free
  <2> DEFINE blocks == {<<"window", n>> : n \in 1 .. N_WINDOWS}
  <2>1. /\ Alive /\ Head(todo) = End[4] /\ todo' = Tail(todo)
        /\ UNCHANGED <<screen, exit_code, failed, listVars>>
        /\ windows' = <<>> /\ UNCHANGED curses
        /\ live' = live \ blocks /\ wild' = wild \cup (blocks \ live)
    BY <1>0, <1>4 DEF window_free, listVars
  <2> DEFINE K == 4
  <2>2. /\ (K = 1 => blocks = {<<"pfds", 0>>})
        /\ (K = 4 => blocks = {<<"window", n>> : n \in 1 .. N_WINDOWS})
        /\ (K = 5 => blocks = {<<"args", 0>>})
        /\ (K = 6 => blocks = {})
        /\ windows' = windows \/ windows' = <<>>
        /\ K \in {1, 4, 5, 6} /\ Head(todo) = End[K]
        /\ (K # 6 => UNCHANGED curses) /\ (K = 6 => ~curses')
    BY <2>1
  <2> HIDE DEF blocks, K
  <2> QED BY <2>1, <2>2, CleaningStep
<1>5. CASE free_args
  <2>1. /\ Alive /\ Head(todo) = End[5] /\ todo' = Tail(todo)
        /\ UNCHANGED <<screen, exit_code, failed, listVars>> /\ UNCHANGED <<windows, curses>>
        /\ live' = live \ {<<"args", 0>>} /\ wild' = wild \cup ({<<"args", 0>>} \ live)
    BY <1>0, <1>5 DEF free_args, listVars
  <2> DEFINE K == 5
             blocks == {<<"args", 0>>}
  <2>2. /\ (K = 1 => blocks = {<<"pfds", 0>>})
        /\ (K = 4 => blocks = {<<"window", n>> : n \in 1 .. N_WINDOWS})
        /\ (K = 5 => blocks = {<<"args", 0>>})
        /\ (K = 6 => blocks = {})
        /\ windows' = windows \/ windows' = <<>>
        /\ K \in {1, 4, 5, 6}
        /\ (K # 6 => UNCHANGED curses) /\ (K = 6 => ~curses')
    BY <2>1
  <2>3. Head(todo) = End[K] /\ live' = live \ blocks /\ wild' = wild \cup (blocks \ live)
    BY <2>1
  <2> HIDE DEF K, blocks
  <2> QED BY <2>1, <2>2, <2>3, CleaningStep
<1>6. CASE endwin
  <2>1. /\ Alive /\ Head(todo) = End[6] /\ todo' = Tail(todo)
        /\ UNCHANGED <<screen, exit_code, failed, listVars>> /\ UNCHANGED windows /\ ~curses'
        /\ live' = live \ {} /\ wild' = wild \cup ({} \ live)
    BY <1>0, <1>6 DEF endwin, listVars
  <2> DEFINE K == 6
             blocks == {}
  <2>2. /\ (K = 1 => blocks = {<<"pfds", 0>>})
        /\ (K = 4 => blocks = {<<"window", n>> : n \in 1 .. N_WINDOWS})
        /\ (K = 5 => blocks = {<<"args", 0>>})
        /\ (K = 6 => blocks = {})
        /\ windows' = windows \/ windows' = <<>>
        /\ K \in {1, 4, 5, 6}
        /\ (K # 6 => UNCHANGED curses) /\ (K = 6 => ~curses')
    BY <2>1
  <2>3. Head(todo) = End[K] /\ live' = live \ blocks /\ wild' = wild \cup (blocks \ live)
    BY <2>1
  <2> HIDE DEF K, blocks
  <2> QED BY <2>1, <2>2, <2>3, CleaningStep
<1>7. CASE close
  <2>1. /\ Alive /\ Head(todo) = End[7] /\ todo' = Tail(todo)
        /\ UNCHANGED <<screen, exit_code, failed, windows, curses, wild, live, listVars>>
    BY <1>7 DEF close, listVars, End
  <2>2. Place /\ LoopBlocks /\ FreedOnce
    BY <2>1 DEF SInv
  <2>3. InEnd(7)
    <3>1. \A j \in 1 .. 8 : Failure[j] # End[7]
      BY DEF End, Failure
    <3> QED BY <2>1, <2>2, <3>1, Where
  <2>4. At(End, 8)'
    BY <2>1, <2>3, AtLater DEF InEnd
  <2>5. InEnd(8)'
    BY <2>1, <2>3, <2>4 DEF InEnd, Holding, listVars
  <2>6. LoopBlocks'
    BY <2>1, <2>2, LoopKept DEF LoopBlocks
  <2> QED BY <2>1, <2>2, <2>5, <2>6, Continues DEF Place, FreedOnce
<1>8. CASE fopen
  <2>1. /\ Alive /\ Head(todo) = "fopen"
        /\ UNCHANGED <<screen, failed, windows, curses, wild, live, listVars>>
        /\ \/ todo' = Tail(todo) /\ UNCHANGED exit_code
           \/ exit_code' = "killed" /\ UNCHANGED todo
    BY <1>8 DEF fopen, Ends, listVars
  <2>2. Place /\ LoopBlocks /\ FreedOnce /\ InFailure(1)
    BY <2>1, Where DEF SInv
  <2>3. CASE todo' = Tail(todo) /\ UNCHANGED exit_code
    <3>1. At(Failure, 2)'
      BY <2>2, <2>3, AtLater DEF InFailure
    <3>2. InFailure(2)'
      BY <2>1, <2>2, <3>1 DEF InFailure, Holding, listVars
    <3>3. LoopBlocks'
      BY <2>1, <2>2, LoopKept DEF LoopBlocks
    <3> QED BY <2>1, <2>2, <2>3, <3>2, <3>3, Continues DEF Place, FreedOnce
  <2>4. CASE exit_code' = "killed" /\ UNCHANGED todo
    BY <2>1, <2>4, Killed
  <2> QED BY <2>1, <2>3, <2>4
<1>9. ASSUME NEW code \in {"success", "failure"}, exit(code)
      PROVE  SInv'
  BY <1>9, ExitStep
<1> QED BY <1>1, <1>2, <1>3, <1>4, <1>5, <1>6, <1>7, <1>8, <1>9, <1>10 DEF CleaningUp

-----------------------------------------------------------------------------

\* At the start nothing is allocated.
LEMMA InitSInv == Init => SInv
<1> SUFFICES ASSUME Init PROVE SInv
  OBVIOUS
<1>1. /\ todo = <<"getopt">> /\ exit_code = "none" /\ ~curses /\ windows = <<>>
      /\ live = {} /\ wild = {} /\ used = 0 /\ departed = {}
      /\ client_list = <<>> /\ message_queue = <<>> /\ history = [c \in 1 .. MaxBlocks |-> {}]
  BY DEF Init
<1>2. screen \in Screen
  BY StartupAssumption DEF Init
<1>3. InGetopt
  BY <1>1 DEF InGetopt, Holding
<1>4. LoopBlocks
  <2>1. Len(client_list) = 0 /\ Len(message_queue) = 0 /\ ToSet(client_list) = {}
    BY <1>1 DEF ToSet
  <2>2. used \in 0 .. MaxBlocks /\ client_list \in Seq(1 .. used)
    BY <1>1, StartupAssumption
  <2>3. message_queue \in Seq([id : 1 .. used, client : Nat])
    BY <1>1
  <2> QED BY <1>1, <2>1, <2>2, <2>3 DEF LoopBlocks
<1> QED BY <1>1, <1>2, <1>3, <1>4 DEF SInv, Place, FreedOnce, TerminalRestored, LeftBehind

\* SInv is inductive.
LEMMA StepSInv == SInv /\ [Next]_vars => SInv'
<1> SUFFICES ASSUME SInv, [Next]_vars PROVE SInv'
  OBVIOUS
<1>1. CASE SettingUp
  BY <1>1, GetoptStep, WindowArrayStep, CursesStep, MallocArgsStep, PfdArrayStep, ServerStep
     DEF SettingUp
<1>2. CASE Looping
  BY <1>2, LoopingStep
<1>3. CASE CleaningUp
  BY <1>3, CleaningUpStep
<1>4. CASE UNCHANGED vars
  <2>1. /\ UNCHANGED <<screen, exit_code, windows, todo, curses, wild, failed, live, listVars>>
        /\ UNCHANGED <<client_list, message_queue, history, departed, used>>
    BY <1>4 DEF vars, startVars, ttyVars, heapVars, listVars
  <2>2. Alive => Place' /\ LoopBlocks'
    BY <2>1, Idle DEF SInv
  <2> QED BY <2>1, <2>2
      DEF SInv, Alive, FreedOnce, TerminalRestored, LeftBehind, Packets
<1> QED BY <1>1, <1>2, <1>3, <1>4 DEF Next, Terminated

\* SInv holds in every state of every run.
LEMMA AlwaysSInv == Spec => []SInv
<1>1. SInv /\ [Next]_vars => SInv'
  BY StepSInv
<1> QED BY InitSInv, <1>1, PTL DEF Spec

-----------------------------------------------------------------------------
(* Numbers read and printed.                                               *)

\* Ten characters have the values of the digits.
LEMMA DigitValues ==
  /\ \A d \in 0 .. 9 : DigitValue(DigitChars[d + 1]) = d
  /\ \A c : isdigit(c) => DigitValue(c) \in 0 .. 9 /\ DigitChars[DigitValue(c) + 1] = c
<1>1. DOMAIN DigitChars = 1 .. 10
  BY DEF DigitChars
<1>2. ASSUME NEW c, isdigit(c)
      PROVE  DigitValue(c) \in 0 .. 9 /\ DigitChars[DigitValue(c) + 1] = c
  <2>1. PICK k \in 1 .. 10 : DigitChars[k] = c
    BY <1>1, <1>2 DEF isdigit, ToSet
  <2>2. k - 1 \in 0 .. 9 /\ (k - 1) + 1 = k
    OBVIOUS
  <2>3. \E d \in 0 .. 9 : DigitChars[d + 1] = c
    BY <2>1, <2>2
  <2> QED BY <2>3 DEF DigitValue
<1>3. ASSUME NEW d \in 0 .. 9
      PROVE  DigitValue(DigitChars[d + 1]) = d
  <2>1. isdigit(DigitChars[d + 1])
    BY DigitsAre
  <2> QED BY <1>2, <2>1, DigitsAre
<1> QED BY <1>2, <1>3

\* A blank is no digit.
LEMMA SpaceNoDigit == ~isdigit(Space)
<1>1. DOMAIN DigitChars = 1 .. 10
  BY DEF DigitChars
<1>2. \A k \in 1 .. 10 : DigitChars[k] \in {"0", "1", "2", "3", "4", "5", "6", "7", "8", "9"}
  BY DEF DigitChars
<1>3. Space \notin {"0", "1", "2", "3", "4", "5", "6", "7", "8", "9"}
  BY Zenon DEF Space
<1> QED BY <1>1, <1>2, <1>3 DEF isdigit, ToSet

\* v holds what was read of s after each of its n digits.
ReadAs(s, n, v) ==
    /\ v[0] = 0 /\ ValueOf(s) = v[n]
    /\ \A k \in 1 .. n : v[k] = 10 * v[k - 1] + DigitValue(s[k])

\* Reading up to five digits from the left.
LEMMA ReadFromLeft ==
  ASSUME NEW n \in 0 .. 5, NEW s, Len(s) = n,
         \A k \in 1 .. n : DigitValue(s[k]) \in 0 .. 9
  PROVE  \E v : ReadAs(s, n, v)
<1> DEFINE D(k) == DigitValue(s[k])
           P(v) == v = [k \in 0 .. n |-> IF k = 0 THEN 0 ELSE 10 * v[k - 1] + D(k)]
           a1 == D(1)
           a2 == 10 * a1 + D(2)
           a3 == 10 * a2 + D(3)
           a4 == 10 * a3 + D(4)
           a5 == 10 * a4 + D(5)
           f == [k \in 0 .. n |-> IF k = 0 THEN 0 ELSE IF k = 1 THEN a1 ELSE IF k = 2 THEN a2
                                  ELSE IF k = 3 THEN a3 ELSE IF k = 4 THEN a4 ELSE a5]
           g == CHOOSE v : P(v)
<1>1. ValueOf(s) = g[n]
  BY DEF ValueOf
<1>2. P(f)
  <2>0. 0 \in 0 .. n /\ f[0] = 0
    OBVIOUS
  <2>1. ASSUME NEW k \in 0 .. n, k # 0 PROVE f[k] = 10 * f[k - 1] + D(k)
    <3>1. k \in 1 .. n /\ k - 1 \in 0 .. n /\ D(k) \in Int
      BY <2>1
    <3> HIDE DEF D, P, g
    <3>2. CASE k = 1
      BY <3>1, <3>2
    <3>3. CASE k = 2
      BY <3>1, <3>3
    <3>4. CASE k = 3
      BY <3>1, <3>4
    <3>5. CASE k = 4
      BY <3>1, <3>5
    <3>6. CASE k = 5
      BY <3>1, <3>6
    <3> QED BY <2>1, <3>2, <3>3, <3>4, <3>5, <3>6
  <2> DEFINE h == [k \in 0 .. n |-> IF k = 0 THEN 0 ELSE 10 * f[k - 1] + D(k)]
  <2>2. \A k \in 0 .. n : f[k] = h[k]
    <3> HIDE DEF D, f
    <3> QED BY <2>0, <2>1
  <2>3. f = h
    <3>1. DOMAIN f = 0 .. n /\ f = [k \in 0 .. n |-> f[k]] /\ h = [k \in 0 .. n |-> h[k]]
      OBVIOUS
    <3> HIDE DEF f, h
    <3> QED BY <2>2, <3>1
  <2> QED BY <2>3
<1> HIDE DEF f
<1>3. P(g)
  <2> HIDE DEF P
  <2> QED BY <1>2
<1> HIDE DEF g
<1>4. g[0] = 0
  BY <1>3
<1>5. ASSUME NEW k \in 1 .. n PROVE g[k] = 10 * g[k - 1] + D(k)
  <2>1. k \in 0 .. n /\ k # 0
    OBVIOUS
  <2> QED BY <1>3, <2>1
<1>6. ReadAs(s, n, g)
  BY <1>1, <1>4, <1>5 DEF ReadAs
<1> QED BY <1>6

\* Another digit at the end leaves the others one place further left.
LEMMA OneMoreDigit ==
  ASSUME NEW x \in Nat, NEW y \in Nat, NEW e \in 0 .. 9, x = 10 * y + e
  PROVE  /\ x \div 1 = x /\ x % 10 = e
         /\ x \div 10 = y \div 1 /\ x \div 100 = y \div 10
         /\ x \div 1000 = y \div 100 /\ x \div 10000 = y \div 1000
<1>1. x \div 1 = x /\ x % 10 = e /\ x \div 10 = y \div 1
  OBVIOUS
<1>2. x \div 100 = y \div 10
  OBVIOUS
<1>3. x \div 1000 = y \div 100
  OBVIOUS
<1>4. x \div 10000 = y \div 1000
  OBVIOUS
<1> QED BY <1>1, <1>2, <1>3, <1>4

\* v[k] is what the first k of the n digits d say.
Reading(n, v, d) ==
    v[0] = 0 /\ \A k \in 1 .. n : d[k] \in 0 .. 9 /\ v[k] = 10 * v[k - 1] + d[k]

\* x has the n digits d.
Written(n, x, d) ==
    /\ x \in Nat /\ x < Powers[n + 1]
    /\ \A k \in 1 .. n : (x \div Powers[n - k + 1]) % 10 = d[k]

\* Up to five digits are the decimal digits of what they say.
LEMMA FiveSay ==
  ASSUME NEW n \in 1 .. 5, NEW v, NEW d, Reading(n, v, d)
  PROVE  Written(n, v[n], d)
<1>0. v[0] = 0 /\ \A k \in 1 .. n : d[k] \in 0 .. 9 /\ v[k] = 10 * v[k - 1] + d[k]
  BY DEF Reading
<1> DEFINE EndsIn(x, y, e) ==
             /\ x \div 1 = x /\ x % 10 = e
             /\ x \div 10 = y \div 1 /\ x \div 100 = y \div 10
             /\ x \div 1000 = y \div 100 /\ x \div 10000 = y \div 1000
           Digit(k) == EndsIn(v[k], v[k - 1], d[k])
<1>1. ASSUME NEW k \in 1 .. n, v[k - 1] \in Nat
      PROVE  v[k] \in Nat /\ v[k] <= 10 * v[k - 1] + 9 /\ Digit(k)
  <2>1. v[k] = 10 * v[k - 1] + d[k] /\ d[k] \in 0 .. 9
    BY <1>0
  <2>2. v[k] \in Nat /\ v[k] <= 10 * v[k - 1] + 9
    BY <1>1, <2>1
  <2>3. PICK x \in Nat, y \in Nat, e \in 0 .. 9 : x = v[k] /\ y = v[k - 1] /\ e = d[k]
    BY <1>1, <2>1, <2>2
  <2>4. x = 10 * y + e
    BY <2>1, <2>3
  <2>5. EndsIn(x, y, e)
    BY <2>4, OneMoreDigit
  <2> HIDE DEF Ends
  <2>6. Digit(k)
    BY <2>3, <2>5
  <2> QED BY <2>2, <2>6
<1>2. v[1] \in Nat /\ v[1] <= 9 /\ Digit(1)
  <2>1. 1 \in 1 .. n /\ 1 - 1 = 0 /\ v[1 - 1] \in Nat /\ v[1 - 1] = 0
    BY <1>0
  <2>2. v[1] \in Nat /\ v[1] <= 10 * v[1 - 1] + 9 /\ Digit(1)
    BY <1>1, <2>1
  <2> HIDE DEF Digit
  <2> QED BY <2>1, <2>2
<1>3. ASSUME NEW j \in 1 .. 4, NEW k, k = j + 1, n >= k, v[j] \in Nat
      PROVE  v[k] \in Nat /\ v[k] <= 10 * v[j] + 9 /\ Digit(k) /\ k - 1 = j
  <2>1. k \in 1 .. n /\ k - 1 = j
    BY <1>3
  <2> QED BY <1>1, <1>3, <2>1
<1>4. n >= 2 => v[2] \in Nat /\ v[2] <= 99 /\ Digit(2)
  <2> HIDE DEF Digit
  <2> QED BY <1>2, <1>3
<1>5. n >= 3 => v[3] \in Nat /\ v[3] <= 999 /\ Digit(3)
  <2> HIDE DEF Digit
  <2> QED BY <1>3, <1>4
<1>6. n >= 4 => v[4] \in Nat /\ v[4] <= 9999 /\ Digit(4)
  <2> HIDE DEF Digit
  <2> QED BY <1>3, <1>5
<1>7. n >= 5 => v[5] \in Nat /\ v[5] <= 99999 /\ Digit(5)
  <2> HIDE DEF Digit
  <2> QED BY <1>3, <1>6
<1>8. /\ Powers[1] = 1 /\ Powers[2] = 10 /\ Powers[3] = 100 /\ Powers[4] = 1000
      /\ Powers[5] = 10000 /\ Powers[6] = 100000
  BY DEF Powers
<1>9. CASE n = 1
  <2>1. v[n] \in Nat /\ v[n] < Powers[n + 1]
    <3> HIDE DEF Digit
    <3> QED BY <1>2, <1>8, <1>9
  <2>2. (v[1] \div Powers[1]) % 10 = d[1]
    BY <1>2, <1>8
  <2>3. ASSUME NEW k \in 1 .. 1 PROVE (v[1] \div Powers[1 - k + 1]) % 10 = d[k]
    BY <2>2
  <2> QED BY <1>9, <2>1, <2>3 DEF Written
<1>10. CASE n = 2
  <2>1. v[n] \in Nat /\ v[n] < Powers[n + 1]
    <3> HIDE DEF Digit
    <3> QED BY <1>4, <1>8, <1>10
  <2>2. (v[2] \div Powers[2]) % 10 = d[1] /\ (v[2] \div Powers[1]) % 10 = d[2]
    BY <1>2, <1>4, <1>8, <1>10
  <2>3. ASSUME NEW k \in 1 .. 2 PROVE (v[2] \div Powers[2 - k + 1]) % 10 = d[k]
    BY <2>2
  <2> QED BY <1>10, <2>1, <2>3 DEF Written
<1>11. CASE n = 3
  <2>1. v[n] \in Nat /\ v[n] < Powers[n + 1]
    <3> HIDE DEF Digit
    <3> QED BY <1>5, <1>8, <1>11
  <2>2. /\ (v[3] \div Powers[3]) % 10 = d[1] /\ (v[3] \div Powers[2]) % 10 = d[2]
        /\ (v[3] \div Powers[1]) % 10 = d[3]
    BY <1>2, <1>4, <1>5, <1>8, <1>11
  <2>3. ASSUME NEW k \in 1 .. 3 PROVE (v[3] \div Powers[3 - k + 1]) % 10 = d[k]
    BY <2>2
  <2> QED BY <1>11, <2>1, <2>3 DEF Written
<1>12. CASE n = 4
  <2>1. v[n] \in Nat /\ v[n] < Powers[n + 1]
    <3> HIDE DEF Digit
    <3> QED BY <1>6, <1>8, <1>12
  <2>2. /\ (v[4] \div Powers[4]) % 10 = d[1] /\ (v[4] \div Powers[3]) % 10 = d[2]
        /\ (v[4] \div Powers[2]) % 10 = d[3] /\ (v[4] \div Powers[1]) % 10 = d[4]
    BY <1>2, <1>4, <1>5, <1>6, <1>8, <1>12
  <2>3. ASSUME NEW k \in 1 .. 4 PROVE (v[4] \div Powers[4 - k + 1]) % 10 = d[k]
    BY <2>2
  <2> QED BY <1>12, <2>1, <2>3 DEF Written
<1>13. CASE n = 5
  <2>1. v[n] \in Nat /\ v[n] < Powers[n + 1]
    <3> HIDE DEF Digit
    <3> QED BY <1>7, <1>8, <1>13
  <2>2. /\ (v[5] \div Powers[5]) % 10 = d[1] /\ (v[5] \div Powers[4]) % 10 = d[2]
        /\ (v[5] \div Powers[3]) % 10 = d[3] /\ (v[5] \div Powers[2]) % 10 = d[4]
        /\ (v[5] \div Powers[1]) % 10 = d[5]
    BY <1>2, <1>4, <1>5, <1>6, <1>7, <1>8, <1>13
  <2>3. ASSUME NEW k \in 1 .. 5 PROVE (v[5] \div Powers[5 - k + 1]) % 10 = d[k]
    BY <2>2
  <2> QED BY <1>13, <2>1, <2>3 DEF Written
<1>14. n = 1 \/ n = 2 \/ n = 3 \/ n = 4 \/ n = 5
  OBVIOUS
<1> QED BY <1>9, <1>10, <1>11, <1>12, <1>13, <1>14

\* A number below 100000 has five digits.
LEMMA FiveDigits ==
  ASSUME NEW n \in Nat, n < 100000
  PROVE  n = (n % 10) + 10 * ((n \div 10) % 10) + 100 * ((n \div 100) % 10)
                 + 1000 * ((n \div 1000) % 10) + 10000 * ((n \div 10000) % 10)
<1>1. PICK a \in Int, b \in Int, c \in Int, e \in Int :
           a = n \div 10 /\ b = n \div 100 /\ c = n \div 1000 /\ e = n \div 10000
  OBVIOUS
<1>2. /\ 10 * a <= n /\ n < 10 * a + 10 /\ 100 * b <= n /\ n < 100 * b + 100
      /\ 1000 * c <= n /\ n < 1000 * c + 1000 /\ 10000 * e <= n /\ n < 10000 * e + 10000
  BY <1>1
<1>3. /\ n % 10 = n - 10 * a /\ a % 10 = a - 10 * b /\ b % 10 = b - 10 * c
      /\ c % 10 = c - 10 * e /\ e % 10 = e
  BY <1>2
<1> QED BY <1>1, <1>3

\* Numbers with the same last digits, and no others, are the same.
LEMMA SameDigits ==
  ASSUME NEW size \in 1 .. 5, NEW m \in Nat, NEW n \in Nat,
         m < Powers[size + 1], n < Powers[size + 1],
         \A p \in 1 .. size : (m \div Powers[p]) % 10 = (n \div Powers[p]) % 10
  PROVE  m = n
<1>1. /\ Powers[1] = 1 /\ Powers[2] = 10 /\ Powers[3] = 100 /\ Powers[4] = 1000
      /\ Powers[5] = 10000 /\ Powers[6] = 100000
  BY DEF Powers
<1>2. m < 100000 /\ n < 100000
  BY <1>1
<1>3. ASSUME NEW x \in Nat
      PROVE  /\ x \div 1 = x
             /\ x < 10 => x \div 10 = 0 /\ x \div 100 = 0 /\ x \div 1000 = 0 /\ x \div 10000 = 0
             /\ x < 100 => x \div 100 = 0 /\ x \div 1000 = 0 /\ x \div 10000 = 0
             /\ x < 1000 => x \div 1000 = 0 /\ x \div 10000 = 0
             /\ x < 10000 => x \div 10000 = 0
  <2>1. x \div 1 = x
    OBVIOUS
  <2>2. x < 10 => x \div 10 = 0
    OBVIOUS
  <2>3. x < 100 => x \div 100 = 0
    OBVIOUS
  <2>4. x < 1000 => x \div 1000 = 0
    OBVIOUS
  <2>5. x < 10000 => x \div 10000 = 0
    OBVIOUS
  <2> QED BY <2>1, <2>2, <2>3, <2>4, <2>5
<1>4. m % 10 = n % 10
  <2>1. (m \div 1) % 10 = (n \div 1) % 10
    BY <1>1
  <2> QED BY <1>3, <2>1
<1>5. (m \div 10) % 10 = (n \div 10) % 10
  <2>1. CASE size >= 2
    BY <1>1, <2>1
  <2>2. CASE size < 2
    <3>1. m < 10 /\ n < 10
      BY <1>1, <2>2
    <3>2. m \div 10 = 0 /\ n \div 10 = 0
      BY <1>3, <3>1
    <3> QED BY <3>2
  <2> QED BY <2>1, <2>2
<1>6. (m \div 100) % 10 = (n \div 100) % 10
  <2>1. CASE size >= 3
    BY <1>1, <2>1
  <2>2. CASE size < 3
    <3>1. m < 100 /\ n < 100
      BY <1>1, <2>2
    <3>2. m \div 100 = 0 /\ n \div 100 = 0
      BY <1>3, <3>1
    <3> QED BY <3>2
  <2> QED BY <2>1, <2>2
<1>7. (m \div 1000) % 10 = (n \div 1000) % 10
  <2>1. CASE size >= 4
    BY <1>1, <2>1
  <2>2. CASE size < 4
    <3>1. m < 1000 /\ n < 1000
      BY <1>1, <2>2
    <3>2. m \div 1000 = 0 /\ n \div 1000 = 0
      BY <1>3, <3>1
    <3> QED BY <3>2
  <2> QED BY <2>1, <2>2
<1>8. (m \div 10000) % 10 = (n \div 10000) % 10
  <2>1. CASE size >= 5
    BY <1>1, <2>1
  <2>2. CASE size < 5
    <3>1. m < 10000 /\ n < 10000
      BY <1>1, <2>2
    <3>2. m \div 10000 = 0 /\ n \div 10000 = 0
      BY <1>3, <3>1
    <3> QED BY <3>2
  <2> QED BY <2>1, <2>2
<1>9. /\ m = (m % 10) + 10 * ((m \div 10) % 10) + 100 * ((m \div 100) % 10)
               + 1000 * ((m \div 1000) % 10) + 10000 * ((m \div 10000) % 10)
      /\ n = (n % 10) + 10 * ((n \div 10) % 10) + 100 * ((n \div 100) % 10)
               + 1000 * ((n \div 1000) % 10) + 10000 * ((n \div 10000) % 10)
  BY <1>2, FiveDigits
<1> QED BY <1>4, <1>5, <1>6, <1>7, <1>8, <1>9

\* Up to five digits say a number, in decimal.
LEMMA DigitsSay ==
  ASSUME NEW s, NEW n \in 0 .. 5, Len(s) = n, \A k \in 1 .. n : isdigit(s[k])
  PROVE  /\ ValueOf(s) \in Nat
         /\ n >= 1 /\ DOMAIN s = 1 .. n => Says(s, ValueOf(s))
<1> DEFINE d == [k \in 1 .. n |-> DigitValue(s[k])]
<1>1. \A k \in 1 .. n : d[k] \in 0 .. 9 /\ DigitChars[d[k] + 1] = s[k] /\ d[k] = DigitValue(s[k])
  BY DigitValues
<1> HIDE DEF d
<1>0. PICK v : ReadAs(s, n, v)
  <2>1. \A k \in 1 .. n : DigitValue(s[k]) \in 0 .. 9
    BY <1>1
  <2> QED BY <2>1, ReadFromLeft
<1>2. /\ v[0] = 0 /\ ValueOf(s) = v[n]
      /\ \A k \in 1 .. n : v[k] = 10 * v[k - 1] + DigitValue(s[k])
  BY <1>0 DEF ReadAs
<1>3. CASE n = 0
  BY <1>2, <1>3
<1>4. CASE n >= 1
  <2>1. /\ v[n] \in Nat /\ v[n] < Powers[n + 1]
        /\ \A k \in 1 .. n : (v[n] \div Powers[n - k + 1]) % 10 = d[k]
    <3>1. n \in 1 .. 5 /\ v[0] = 0
      BY <1>2, <1>4
    <3>2. Reading(n, v, d)
      BY <1>1, <1>2 DEF Reading
    <3>3. Written(n, v[n], d)
      BY <3>1, <3>2, FiveSay
    <3> QED BY <3>3 DEF Written
  <2>2. \A k \in 1 .. n : s[k] = DigitOf(v[n], n - k + 1)
    BY <1>1, <2>1 DEF DigitOf
  <2> QED BY <1>2, <1>4, <2>1, <2>2 DEF Says
<1> QED BY <1>3, <1>4

\* Of a line of up to five characters strtol reads a number; of digits, all of them.
LEMMA StrtolReads ==
  ASSUME NEW s \in Seq(STRING), Len(s) \in 1 .. 5
  PROVE  /\ strtol(s) \in Nat
         /\ Numeral(s) => strtol(s) = ValueOf(s) /\ Says(s, ValueOf(s))
<1> DEFINE I == {i \in 1 .. Len(s) : s[i] # Space}
           from == IF I # {} THEN Min(I) ELSE 0
           rest == IF from = 0 THEN <<>> ELSE SubSeq(s, from, Len(s))
           J == {i \in 1 .. Len(rest) : ~isdigit(rest[i])}
           stop == IF J # {} THEN Min(J) ELSE 0
           run == IF stop = 0 THEN rest ELSE SubSeq(rest, 1, stop - 1)
<1>1. strtol(s) = ValueOf(run)
  BY DEF strtol, SelectInSeq
<1> HIDE DEF run
<1>2. (stop = 0 => run = rest) /\ (stop # 0 => run = SubSeq(rest, 1, stop - 1))
  BY DEF run
<1> HIDE DEF stop
<1>3. (J = {} => stop = 0) /\ (J # {} => stop = Min(J))
  BY DEF stop
<1> HIDE DEF rest
<1>4. (from = 0 => rest = <<>>) /\ (from # 0 => rest = SubSeq(s, from, Len(s)))
  BY DEF rest
<1> HIDE DEF from
<1>5. (I = {} => from = 0) /\ (I # {} => from = Min(I))
  BY DEF from
<1>6. from \in 0 .. Len(s) /\ Len(s) \in Nat /\ DOMAIN s = 1 .. Len(s)
  <2>1. I \subseteq Nat /\ (I # {} => Min(I) \in I)
    <3>1. I \subseteq Nat
      OBVIOUS
    <3> HIDE DEF I
    <3> QED BY <3>1, MinInSet
  <2> QED BY <1>5, <2>1
<1>7. rest \in Seq(STRING) /\ Len(rest) \in 0 .. 5
  <2>1. CASE from = 0
    BY <1>4, <2>1
  <2>2. CASE from # 0
    <3>1. from \in Int /\ Len(s) \in Int /\ \A i \in from .. Len(s) : s[i] \in STRING
      BY <1>6, <2>2
    <3>2. /\ SubSeq(s, from, Len(s)) \in Seq(STRING)
          /\ Len(SubSeq(s, from, Len(s))) = IF from <= Len(s) THEN Len(s) - from + 1 ELSE 0
      BY <3>1, SubSeqProperties
    <3>3. from <= Len(s) /\ rest = SubSeq(s, from, Len(s))
      BY <1>4, <1>6, <2>2
    <3>4. \A n \in 1 .. 5 : \A k \in 0 .. n : k # 0 => n - k + 1 \in 0 .. 5
      OBVIOUS
    <3>5. Len(s) - from + 1 \in 0 .. 5
      BY <1>6, <2>2, <3>4
    <3>6. Len(rest) = Len(s) - from + 1
      BY <3>2, <3>3
    <3> QED BY <3>2, <3>3, <3>5, <3>6
  <2> QED BY <2>1, <2>2
<1>8. /\ stop = 0 => \A i \in 1 .. Len(rest) : isdigit(rest[i])
      /\ stop # 0 => stop \in 1 .. Len(rest) /\ \A i \in 1 .. stop - 1 : isdigit(rest[i])
  <2>1. J \subseteq 1 .. Len(rest) /\ 1 .. Len(rest) \subseteq Nat /\ Len(rest) \in Nat
    BY <1>7
  <2>2. \A i \in 1 .. Len(rest) : isdigit(rest[i]) \/ i \in J
    OBVIOUS
  <2>3. \A j \in J : ~isdigit(rest[j])
    OBVIOUS
  <2> HIDE DEF J
  <2>4. CASE J = {}
    <3>1. \A i \in 1 .. Len(rest) : isdigit(rest[i])
      BY <2>2, <2>4
    <3>2. stop = 0
      BY <1>3, <2>4
    <3> QED BY <3>1, <3>2
  <2>5. CASE J # {}
    <3>1. Min(J) \in J /\ \A j \in J : Min(J) <= j
      <4>1. \E x \in J : \A y \in J : x <= y
        BY <2>1, <2>5, NatMin
      <4> QED BY <4>1 DEF Min
    <3>2. stop = Min(J) /\ stop \in 1 .. Len(rest)
      BY <1>3, <2>1, <2>5, <3>1
    <3>3. ASSUME NEW i \in 1 .. stop - 1 PROVE isdigit(rest[i])
      <4>1. i \in 1 .. Len(rest) /\ ~(stop <= i)
        BY <2>1, <3>2
      <4> QED BY <2>2, <3>1, <3>2, <4>1
    <3> QED BY <2>1, <3>2, <3>3
  <2> QED BY <2>4, <2>5
<1> HIDE DEF I, J
<1>9. \E n \in 0 .. 5 : Len(run) = n /\ \A k \in 1 .. n : isdigit(run[k])
  <2>1. CASE stop = 0
    BY <1>2, <1>7, <1>8, <2>1
  <2>2. CASE stop # 0
    <3>1. stop \in 1 .. Len(rest) /\ Len(rest) \in 0 .. 5
      BY <1>7, <1>8, <2>2
    <3>2. PICK last \in 0 .. 5 : last = stop - 1 /\ last < Len(rest)
      <4>1. \A n \in 0 .. 5 : \A k \in 1 .. n : k - 1 \in 0 .. 5 /\ k - 1 < n
        OBVIOUS
      <4>2. stop - 1 \in 0 .. 5 /\ stop - 1 < Len(rest)
        BY <3>1, <4>1
      <4> QED BY <4>2
    <3>3. 1 \in Int /\ last \in Int /\ \A i \in 1 .. last : rest[i] \in STRING
      BY <1>7, <3>1, <3>2
    <3>4. /\ Len(SubSeq(rest, 1, last)) = IF 1 <= last THEN last - 1 + 1 ELSE 0
          /\ \A i \in 1 .. last - 1 + 1 : SubSeq(rest, 1, last)[i] = rest[1 + i - 1]
      BY <3>3, SubSeqProperties
    <3>5. run = SubSeq(rest, 1, last) /\ \A i \in 1 .. last : isdigit(rest[i])
      BY <1>2, <1>8, <2>2, <3>2
    <3>6. Len(run) = last
      BY <3>2, <3>4, <3>5
    <3>7. ASSUME NEW k \in 1 .. last PROVE isdigit(run[k])
      <4>1. k \in 1 .. last - 1 + 1 /\ 1 + k - 1 = k
        BY <3>2
      <4>2. run[k] = rest[k]
        BY <3>4, <3>5, <4>1
      <4> QED BY <3>5, <4>2
    <3> QED BY <3>2, <3>6, <3>7
  <2> QED BY <2>1, <2>2
<1>10. strtol(s) \in Nat
  BY <1>1, <1>9, DigitsSay
<1>11. ASSUME Numeral(s) PROVE strtol(s) = ValueOf(s) /\ Says(s, ValueOf(s))
  <2>1. \A k \in 1 .. Len(s) : isdigit(s[k])
    BY <1>6, <1>11 DEF Numeral
  <2>2. 1 \in I
    <3>1. isdigit(s[1]) /\ 1 \in 1 .. Len(s)
      BY <2>1
    <3>2. s[1] # Space
      BY <3>1, SpaceNoDigit
    <3> QED BY <3>1, <3>2 DEF I
  <2>3. from = 1
    <3>1. I \subseteq Nat /\ I # {} /\ 0 \notin I
      BY <2>2 DEF I
    <3>2. \E x \in I : \A y \in I : x <= y
      BY <3>1, NatMin
    <3>3. Min(I) \in I /\ Min(I) <= 1
      BY <2>2, <3>2 DEF Min
    <3>4. Min(I) = 1
      <4>1. \A k \in Nat : k # 0 /\ k <= 1 => k = 1
        OBVIOUS
      <4>2. Min(I) \in Nat /\ Min(I) # 0
        BY <3>1, <3>3
      <4> QED BY <3>3, <4>1, <4>2
    <3> QED BY <1>5, <3>1, <3>4
  <2>4. rest = s
    <3>1. rest = SubSeq(s, 1, Len(s))
      BY <1>4, <2>3
    <3> QED BY <3>1, SubSeqFull
  <2>5. stop = 0
    <3>1. stop # 0 => stop \in J
      <4>1. J \subseteq Nat
        BY <1>7 DEF J
      <4> QED BY <1>3, <4>1, MinInSet
    <3> QED BY <2>1, <2>4, <3>1 DEF J
  <2>6. run = s
    BY <1>2, <2>4, <2>5
  <2>7. PICK n \in 0 .. 5 : n = Len(s) /\ n >= 1
    OBVIOUS
  <2>8. Says(s, ValueOf(s))
    BY <1>6, <2>1, <2>7, DigitsSay
  <2> QED BY <1>1, <2>6, <2>8
<1> QED BY <1>10, <1>11

\* The first digit of a number is not zero.
LEMMA FirstDigit ==
  ASSUME NEW n \in Nat
  PROVE  /\ 10 <= n /\ n < 100 => (n \div 10) % 10 \in 1 .. 9
         /\ 100 <= n /\ n < 1000 => (n \div 100) % 10 \in 1 .. 9
         /\ 1000 <= n /\ n < 10000 => (n \div 1000) % 10 \in 1 .. 9
         /\ 10000 <= n /\ n < 100000 => (n \div 10000) % 10 \in 1 .. 9
<1>1. 10 <= n /\ n < 100 => n \div 10 \in 1 .. 9
  OBVIOUS
<1>2. 100 <= n /\ n < 1000 => n \div 100 \in 1 .. 9
  OBVIOUS
<1>3. 1000 <= n /\ n < 10000 => n \div 1000 \in 1 .. 9
  OBVIOUS
<1>4. 10000 <= n /\ n < 100000 => n \div 10000 \in 1 .. 9
  OBVIOUS
<1>5. \A q \in 1 .. 9 : q % 10 = q
  OBVIOUS
<1> QED BY <1>1, <1>2, <1>3, <1>4, <1>5

\* A plain number up to 65535 is a valid port, and read as that number.
LEMMA PlainPort ==
  ASSUME NEW n \in Nat, n <= 65535, NEW s \in Seq(STRING), s = Decimal(n)
  PROVE  valid_port(s) /\ strtol(s) = n
<1>1. PICK size \in 1 .. 10 :
         /\ size = 1 \/ n >= Powers[size]
         /\ size = 10 \/ n < Powers[size + 1]
         /\ s = [k \in 1 .. size |-> DigitOf(n, size - k + 1)]
  BY DecimalDigits
<1>2. /\ Powers[1] = 1 /\ Powers[2] = 10 /\ Powers[3] = 100 /\ Powers[4] = 1000
      /\ Powers[5] = 10000 /\ Powers[6] = 100000
      /\ Powers[7] = 1000000 /\ Powers[8] = 10000000 /\ Powers[9] = 100000000
      /\ Powers[10] = 1000000000
  BY DEF Powers
<1>3. size \in 1 .. 5 /\ n < Powers[size + 1]
  <2>1. size # 6 /\ size # 7 /\ size # 8 /\ size # 9 /\ size # 10
    <3>1. size = 1 \/ n >= Powers[size]
      BY <1>1
    <3>2. ~(n >= Powers[6]) /\ ~(n >= Powers[7]) /\ ~(n >= Powers[8]) /\ ~(n >= Powers[9])
          /\ ~(n >= Powers[10])
      BY <1>2
    <3> QED BY <3>1, <3>2
  <2>2. size \in 1 .. 5
    BY <2>1
  <2> QED BY <1>1, <2>2
<1>4. Len(s) = size /\ DOMAIN s = 1 .. size
  <2>1. DOMAIN s = 1 .. size
    BY <1>1
  <2> QED BY <2>1, LenProperties
<1>5. \A k \in 1 .. size : s[k] = DigitOf(n, size - k + 1) /\ size - k + 1 \in 1 .. 5
  BY <1>1, <1>3
<1>6. ASSUME NEW k \in 1 .. size PROVE isdigit(s[k])
  <2>1. (n \div Powers[size - k + 1]) % 10 \in 0 .. 9
    <3>1. size - k + 1 \in 1 .. 10
      BY <1>5
    <3> QED BY <3>1, DigitIn
  <2>2. s[k] = DigitChars[((n \div Powers[size - k + 1]) % 10) + 1]
    BY <1>5 DEF DigitOf
  <2> QED BY <2>1, <2>2, DigitsAre
<1>7. Numeral(s)
  BY <1>3, <1>4, <1>6 DEF Numeral
<1>8. strtol(s) \in Nat /\ Says(s, strtol(s))
  <2>1. Len(s) \in 1 .. 5
    BY <1>3, <1>4
  <2>2. strtol(s) \in Nat /\ strtol(s) = ValueOf(s) /\ Says(s, ValueOf(s))
    BY <1>7, <2>1, StrtolReads
  <2> QED BY <2>2
<1>9. strtol(s) = n
  <2>1. PICK m \in Nat : m = strtol(s)
    BY <1>8
  <2>2. m < Powers[size + 1] /\ \A k \in 1 .. size : s[k] = DigitOf(m, size - k + 1)
    BY <1>4, <1>8, <2>1 DEF Says
  <2>3. ASSUME NEW p \in 1 .. size
        PROVE  (m \div Powers[p]) % 10 = (n \div Powers[p]) % 10
    <3> DEFINE Digit(f) == (f \div Powers[p]) % 10
    <3>1. PICK k \in 1 .. size : size - k + 1 = p /\ p \in 1 .. 10
      <4>1. size - p + 1 \in 1 .. size /\ size - (size - p + 1) + 1 = p /\ p \in 1 .. 10
        BY <1>3
      <4> QED BY <4>1
    <3>2. DigitOf(m, p) = DigitOf(n, p)
      <4>1. s[k] = DigitOf(m, size - k + 1)
        BY <2>2
      <4>2. s[k] = DigitOf(n, size - k + 1)
        BY <1>5
      <4> QED BY <3>1, <4>1, <4>2
    <3>3. \A f \in Nat : Digit(f) \in 0 .. 9
      BY <3>1, DigitIn
    <3>4. DigitChars[Digit(m) + 1] = DigitChars[Digit(n) + 1]
      BY <3>2 DEF DigitOf
    <3> HIDE DEF Digit
    <3>5. Digit(m) \in 0 .. 9 /\ Digit(n) \in 0 .. 9
      BY <3>3
    <3>6. Digit(m) = Digit(n)
      BY <3>4, <3>5, DigitsAre
    <3> QED BY <3>6 DEF Digit
  <2>4. n = m
    BY <1>3, <2>2, <2>3, SameDigits
  <2> QED BY <2>1, <2>4
<1>10. Len(s) = 1 \/ \E k \in DOMAIN s : s[k] \notin {"0", Space}
  <2> SUFFICES ASSUME size # 1 PROVE s[1] \notin {"0", Space}
    BY <1>3, <1>4
  <2>1. (n \div Powers[size]) % 10 \in 1 .. 9
    <3>1. n >= Powers[size] /\ n < Powers[size + 1] /\ size \in 2 .. 5
      BY <1>1, <1>3
    <3>2. CASE size = 2
      <4>1. Powers[size] = 10 /\ 10 <= n /\ n < 100
        BY <1>2, <3>1, <3>2
      <4>2. (n \div 10) % 10 \in 1 .. 9
        BY <4>1, FirstDigit
      <4> QED BY <4>1, <4>2
    <3>3. CASE size = 3
      <4>1. Powers[size] = 100 /\ 100 <= n /\ n < 1000
        BY <1>2, <3>1, <3>3
      <4>2. (n \div 100) % 10 \in 1 .. 9
        BY <4>1, FirstDigit
      <4> QED BY <4>1, <4>2
    <3>4. CASE size = 4
      <4>1. Powers[size] = 1000 /\ 1000 <= n /\ n < 10000
        BY <1>2, <3>1, <3>4
      <4>2. (n \div 1000) % 10 \in 1 .. 9
        BY <4>1, FirstDigit
      <4> QED BY <4>1, <4>2
    <3>5. CASE size = 5
      <4>1. Powers[size] = 10000 /\ 10000 <= n /\ n < 100000
        BY <1>2, <3>1, <3>5
      <4>2. (n \div 10000) % 10 \in 1 .. 9
        BY <4>1, FirstDigit
      <4> QED BY <4>1, <4>2
    <3> QED BY <3>1, <3>2, <3>3, <3>4, <3>5
  <2>2. s[1] = DigitOf(n, size)
    <3>1. 1 \in 1 .. size /\ size - 1 + 1 = size
      BY <1>3
    <3> QED BY <1>5, <3>1
  <2>3. isdigit(s[1])
    BY <1>3, <1>6
  <2>4. s[1] # "0"
    <3>1. "0" = DigitChars[0 + 1]
      BY DEF DigitChars
    <3> QED BY <2>1, <2>2, <3>1, DigitsAre DEF DigitOf
  <2> QED BY <2>3, <2>4, SpaceNoDigit
<1> QED BY <1>3, <1>4, <1>6, <1>9, <1>10 DEF valid_port

-----------------------------------------------------------------------------
(* The port.                                                               *)

\* The port is that of the last -p read so far; the loop is reached with all of them
\* read; a -p at which the process ends was refused.
PortInv ==
    /\ argv \in Seq([opt : STRING, arg : Seq(STRING), words : Nat])
    /\ [argv |-> argv, screen |-> screen] \in Starts
    /\ optind \in 0 .. Len(argv) /\ port \in 0 .. MaxPort
    /\ Alive /\ todo # <<"getopt">> => optind = Len(argv)
    /\ (\A k \in PortOptions : k > optind) => port = 0
    /\ \A k \in PortOptions :
           k <= optind /\ (\A j \in PortOptions : j <= optind => j <= k) =>
               valid_port(argv[k].arg) /\ port = strtol(argv[k].arg)
    /\ listening # -1 => optind = Len(argv) /\ listening = port
    /\ exit_code # "none" /\ optind + 1 \in PortOptions => ~valid_port(argv[optind + 1].arg)

\* The numbers of 16 bits.
LEMMA PortNumbers == MaxPort \in Nat /\ \A n : n \in 0 .. MaxPort <=> n \in Nat /\ n <= 65535
<1>1. MaxPort \in Nat /\ \A n \in Nat : n <= MaxPort <=> n <= 65535
  BY DEF MaxPort
<1> QED BY <1>1

\* A port that passes is a number of 16 bits.
LEMMA ValidPort ==
  ASSUME NEW s \in Seq(STRING), valid_port(s)
  PROVE  strtol(s) \in 0 .. MaxPort /\ Len(s) \in 1 .. 5
<1>1. Len(s) \in 1 .. 5 /\ strtol(s) <= 65535
  BY DEF valid_port
<1>2. strtol(s) \in Nat
  BY <1>1, StrtolReads
<1> QED BY <1>1, <1>2, PortNumbers

\* The options are where they are in argv.
LEMMA OptionPlaces ==
  ASSUME argv \in Seq([opt : STRING, arg : Seq(STRING), words : Nat])
  PROVE  /\ PortOptions \subseteq 1 .. Len(argv) /\ Len(argv) \in Nat
         /\ \A k \in 1 .. Len(argv) :
                /\ argv[k].arg \in Seq(STRING)
                /\ k \in PortOptions <=> argv[k].opt = "p"
<1>1. DOMAIN argv = 1 .. Len(argv) /\ Len(argv) \in Nat
  BY LenProperties
<1>2. \A k \in 1 .. Len(argv) : argv[k] \in [opt : STRING, arg : Seq(STRING), words : Nat]
  BY ElementOfSeq
<1> QED BY <1>1, <1>2 DEF PortOptions

\* Once the loop is reached, the calls do not touch what was read.
LEMMA PortKept ==
  ASSUME PortInv, UNCHANGED <<argv, screen, optind, port>>, optind = Len(argv),
         listening' \in {listening, -1, port}
  PROVE  PortInv'
<1>1. UNCHANGED PortOptions
  BY DEF PortOptions
<1>2. optind + 1 \notin PortOptions
  BY OptionPlaces DEF PortInv
<1> QED BY <1>1, <1>2 DEF PortInv

\* A word of the command line is read.
LEMMA PortGetopt == PortInv /\ getopt => PortInv'
<1> SUFFICES ASSUME PortInv, getopt PROVE PortInv'
  OBVIOUS
<1>1. /\ Alive /\ optind < Len(argv) /\ UNCHANGED <<argv, screen, listening>>
      /\ UNCHANGED PortOptions /\ listening = -1
      /\ optind \in 0 .. Len(argv) /\ Len(argv) \in Nat /\ optind + 1 \in 1 .. Len(argv)
      /\ \A k \in PortOptions : k \in Nat /\ (k <= optind + 1 <=> k <= optind \/ k = optind + 1)
  <2>1. PortOptions \subseteq Nat /\ Len(argv) \in Nat
    BY OptionPlaces DEF PortInv
  <2>2. Alive /\ optind < Len(argv) /\ UNCHANGED <<argv, screen, listening>> /\ optind \in 0 .. Len(argv)
    BY DEF getopt, Call, startVars, PortInv
  <2>3. UNCHANGED PortOptions
    BY <2>2 DEF PortOptions
  <2>4. listening = -1
    BY <2>1, <2>2 DEF PortInv
  <2> QED BY <2>1, <2>2, <2>3, <2>4
<1>2. CASE Next_opt.opt = "p" /\ valid_port(Next_opt.arg)
  <2>1. /\ port' = strtol(argv[optind + 1].arg) /\ optind' = optind + 1
        /\ UNCHANGED <<todo, exit_code>>
    BY <1>2 DEF getopt, Next_opt
  <2>2. /\ valid_port(argv[optind + 1].arg) /\ optind + 1 \in PortOptions
        /\ strtol(argv[optind + 1].arg) \in 0 .. MaxPort
    BY <1>1, <1>2, OptionPlaces, ValidPort DEF Next_opt, PortInv
  <2>3. todo = <<"getopt">>
    BY <1>1 DEF PortInv
  <2>4. ASSUME NEW k \in PortOptions, k <= optind + 1,
               \A j \in PortOptions : j <= optind + 1 => j <= k
        PROVE  k = optind + 1
    <3>1. optind + 1 <= k
      BY <1>1, <2>2, <2>4
    <3> QED BY <1>1, <2>4, <3>1
  <2>5. exit_code = "none"
    BY <1>1 DEF Alive
  <2>6. optind + 1 \in 0 .. Len(argv) /\ ~(\A k \in PortOptions : k > optind + 1)
    BY <1>1, <2>2
  <2> QED BY <1>1, <2>1, <2>2, <2>3, <2>4, <2>5, <2>6 DEF PortInv, Alive
<1>3. CASE Next_opt.opt = "p" /\ ~valid_port(Next_opt.arg)
  <2>1. UNCHANGED <<port, optind, todo>> /\ exit_code' = "failure"
    BY <1>3 DEF getopt, Next_opt, Ends
  <2> QED BY <1>1, <1>3, <2>1 DEF PortInv, Alive, Next_opt
<1>4. CASE Next_opt.opt \in {"h", "v", "?", ":"}
  <2>1. UNCHANGED <<port, optind, todo>>
    BY <1>4 DEF getopt, Ends
  <2>2. optind + 1 \notin PortOptions
    BY <1>4 DEF PortOptions, Next_opt
  <2>3. exit_code' # "none"
    BY <1>4 DEF getopt, Ends
  <2> QED BY <1>1, <2>1, <2>2, <2>3 DEF PortInv, Alive
<1>5. CASE Next_opt.opt = "word"
  <2>1. optind' = optind + 1 /\ UNCHANGED <<port, todo, exit_code>>
    BY <1>5 DEF getopt
  <2>2. optind + 1 \notin PortOptions
    BY <1>5 DEF PortOptions, Next_opt
  <2>3. todo = <<"getopt">> /\ exit_code = "none"
    BY <1>1 DEF PortInv, Alive
  <2>4. \A k \in PortOptions : (k <= optind + 1 <=> k <= optind) /\ (k > optind + 1 <=> k > optind)
    BY <1>1, <2>2
  <2>5. optind + 1 \in 0 .. Len(argv)
    BY <1>1
  <2> QED BY <1>1, <2>1, <2>3, <2>4, <2>5 DEF PortInv, Alive
<1> QED BY <1>2, <1>3, <1>4, <1>5 DEF getopt

\* Every step keeps PortInv.
LEMMA StepPortInv == PortInv /\ [Next]_vars => PortInv'
<1> SUFFICES ASSUME PortInv, [Next]_vars PROVE PortInv'
  OBVIOUS
<1>1. CASE getopt
  BY <1>1, PortGetopt
<1>2. CASE GetoptEnds
  <2>1. UNCHANGED <<argv, screen, optind, port, listening>> /\ optind = Len(argv)
    BY <1>2 DEF GetoptEnds, startVars, ttyVars
  <2> QED BY <2>1, PortKept
<1>3. ASSUME Alive, Head(todo) # "getopt" PROVE optind = Len(argv)
  <2>1. todo # <<"getopt">>
    BY <1>3
  <2> QED BY <1>3, <2>1 DEF PortInv
<1>4. CASE \E call \in {"socket", "setsockopt", "bind", "listen"} : server_init(call)
  <2>1. PICK call \in {"socket", "setsockopt", "bind", "listen"} : server_init(call)
    BY <1>4
  <2>2. UNCHANGED <<argv, screen, optind, port>> /\ Alive /\ Head(todo) # "getopt"
    BY <2>1 DEF server_init, Call, startVars
  <2>3. listening' \in {listening, htons(port)}
    BY <2>1 DEF server_init
  <2>4. htons(port) = port
    <3>1. port \in Nat /\ port <= 65535
      <4>1. port \in 0 .. MaxPort
        BY DEF PortInv
      <4> QED BY <4>1, PortNumbers
    <3>2. \A n \in Nat : n <= 65535 => n % 65536 = n
      OBVIOUS
    <3> QED BY <3>1, <3>2 DEF htons
  <2> QED BY <1>3, <2>2, <2>3, <2>4, PortKept
<1>5. ASSUME Alive, Head(todo) # "getopt", UNCHANGED <<startVars, optind, port>>,
             listening' \in {listening, -1}
      PROVE  PortInv'
  <2>1. UNCHANGED <<argv, screen, optind, port>>
    BY <1>5 DEF startVars
  <2> QED BY <1>3, <1>5, <2>1, PortKept
<1>6. CASE window_create_array \/ init_curses \/ malloc_args \/ pfd_create_array
  BY <1>5, <1>6 DEF window_create_array, init_curses, malloc_args, pfd_create_array, Call, ttyVars
<1>7. CASE Looping
  <2>1. Alive /\ Head(todo) = "loop" /\ UNCHANGED <<startVars, optind, port, listening>>
    BY <1>7 DEF Looping, client_create, packet_receive, message_create, packet_transmit,
       client_disconnect, ReceiveEnd, LoopEnds, InLoop, LoopOnly, Call
  <2> QED BY <1>5, <2>1
<1>8. CASE CleaningUp
  <2>1. /\ Alive /\ Head(todo) # "getopt" /\ UNCHANGED <<startVars, optind, port>>
        /\ listening' \in {listening, -1}
    BY <1>8 DEF CleaningUp, fopen, free_pfds, client_free, message_free, window_free, free_args,
       endwin, close, exit, Call, ttyVars
  <2> QED BY <1>5, <2>1
<1>9. CASE UNCHANGED vars
  <2>1. UNCHANGED <<argv, screen, optind, port, listening, todo, exit_code>>
    BY <1>9 DEF vars, startVars
  <2>2. UNCHANGED PortOptions
    BY <2>1 DEF PortOptions
  <2> QED BY <2>1, <2>2 DEF PortInv, Alive
<1> QED BY <1>1, <1>2, <1>4, <1>6, <1>7, <1>8, <1>9 DEF Next, SettingUp, Terminated

\* No option is read at the start.
LEMMA InitPortInv == Init => PortInv
<1> SUFFICES ASSUME Init PROVE PortInv
  OBVIOUS
<1>1. PICK start \in Starts : argv = start.argv /\ screen = start.screen
  BY DEF Init
<1>2. /\ start \in [argv : Seq([opt : STRING, arg : Seq(STRING), words : Nat]), screen : Screen]
      /\ start = [argv |-> argv, screen |-> screen]
  BY <1>1, StartupAssumption
<1>3. argv \in Seq([opt : STRING, arg : Seq(STRING), words : Nat])
  BY <1>1, <1>2
<1>4. PortOptions \subseteq 1 .. Len(argv) /\ Len(argv) \in Nat
  BY <1>3, OptionPlaces
<1>5. optind = 0 /\ port = 0 /\ todo = <<"getopt">> /\ exit_code = "none" /\ listening = -1
  BY DEF Init
<1>6. \A k \in PortOptions : ~(k <= 0)
  BY <1>4
<1>7. optind \in 0 .. Len(argv) /\ port \in 0 .. MaxPort
  BY <1>4, <1>5, PortNumbers
<1> QED BY <1>2, <1>3, <1>5, <1>6, <1>7 DEF PortInv, Alive

\* PortInv holds in every state of every run.
LEMMA AlwaysPortInv == Spec => []PortInv
<1> QED BY InitPortInv, StepPortInv, PTL DEF Spec

-----------------------------------------------------------------------------
(* Types.                                                                  *)

\* The types of the calls that are left and of how the process goes.
CallTypes ==
    /\ todo \in Seq(Names) /\ exit_code \in {"none", "success", "failure", "killed"}
    /\ failed \in {"none"} \cup Early /\ curses \in BOOLEAN

\* The types of the heap and of what points to it.
HeapTypes ==
    /\ live \subseteq BlockType /\ wild \subseteq BlockType
    /\ client_list \in Seq(Ids) /\ history \in [Ids -> SUBSET Ids]
    /\ message_queue \in Seq([id : Ids, client : Ids])
    /\ used \in 0 .. MaxBlocks /\ departed \subseteq Ids

\* While the process lives there is a call left.
LEMMA Pending == SInv /\ Alive => todo # <<>>
<1> SUFFICES ASSUME Place PROVE todo # <<>>
  BY DEF SInv
<1>1. ASSUME NEW list, Len(list) \in Nat, NEW k \in 1 .. Len(list), At(list, k)
      PROVE  todo # <<>>
  <2>1. Len(todo) >= 1
    BY <1>1, AtHead
  <2> QED BY <2>1
<1>2. ASSUME NEW k \in 1 .. 9, InSetUp(k) PROVE todo # <<>>
  <2>1. At(SetUp, k)
    BY <1>2 DEF InSetUp
  <2>2. Len(SetUp) \in Nat /\ k \in 1 .. Len(SetUp)
    BY Lists
  <2> QED BY <1>1, <2>1, <2>2
<1>3. ASSUME NEW k \in 1 .. 8, InEnd(k) PROVE todo # <<>>
  <2>1. At(End, k)
    BY <1>3 DEF InEnd
  <2>2. Len(End) \in Nat /\ k \in 1 .. Len(End)
    BY Lists
  <2> QED BY <1>1, <2>1, <2>2
<1>4. ASSUME NEW k \in 1 .. 8, InFailure(k) PROVE todo # <<>>
  <2>1. At(Failure, k)
    BY <1>4 DEF InFailure
  <2>2. Len(Failure) \in Nat /\ k \in 1 .. Len(Failure)
    BY Lists
  <2> QED BY <1>1, <2>1, <2>2
<1>5. InGetopt => todo # <<>>
  BY DEF InGetopt
<1> QED BY <1>2, <1>3, <1>4, <1>5 DEF Place

\* The blocks there may be.
LEMMA BlocksTyped ==
  ASSUME NEW kind \in {"windows", "window", "dim", "args", "pfds", "client", "history",
                       "packet", "message"}
  PROVE  /\ Block(kind) \in BlockType
         /\ \A n \in Ids \cup (1 .. N_WINDOWS) : <<kind, n>> \in BlockType
         /\ \A numbers : numbers \subseteq Ids \/ numbers \subseteq 1 .. N_WINDOWS =>
                Blocks(kind, numbers) \subseteq BlockType
<1>1. /\ 0 \in 0 .. MaxBlocks + N_WINDOWS
      /\ \A n \in Ids \cup (1 .. N_WINDOWS) : n \in 0 .. MaxBlocks + N_WINDOWS
  BY StartupAssumption DEF Ids, N_WINDOWS
<1>2. \A n \in 0 .. MaxBlocks + N_WINDOWS : <<kind, n>> \in BlockType
  BY DEF BlockType
<1> QED BY <1>1, <1>2 DEF Block, Blocks

\* What malloc and free do to the types.
LEMMA MallocTyped ==
  ASSUME HeapTypes, UNCHANGED listVars, NEW blocks \in SUBSET BlockType,
         Malloc(blocks) \/ Free(blocks) \/ UNCHANGED heapVars
  PROVE  HeapTypes'
BY DEF HeapTypes, Malloc, Free, heapVars, listVars

\* Every step keeps the types of the calls.
LEMMA StepCallTypes == CallTypes /\ SInv /\ [Next]_vars => CallTypes'
<1> SUFFICES ASSUME CallTypes, SInv, [Next]_vars PROVE CallTypes'
  OBVIOUS
<1> USE DEF Call, Done, Ends, startVars, ttyVars
<1>1. ASSUME Alive, UNCHANGED <<exit_code, failed>>, todo' = Tail(todo), curses' \in BOOLEAN
      PROVE  CallTypes'
  <2>1. Tail(todo) \in Seq(Names)
    BY <1>1, Pending, HeadTailProperties DEF CallTypes
  <2> QED BY <1>1, <2>1 DEF CallTypes
<1>2. ASSUME UNCHANGED <<todo, failed, curses>>, exit_code' \in {"success", "failure", "killed"}
      PROVE  CallTypes'
  BY <1>2 DEF CallTypes
<1>3. ASSUME UNCHANGED <<exit_code, curses>>, todo' = Failure, failed' \in Early
      PROVE  CallTypes'
  BY <1>3, Lists DEF CallTypes
<1>4. ASSUME UNCHANGED <<exit_code, curses, failed, todo>>
      PROVE  CallTypes'
  BY <1>4 DEF CallTypes
<1>5. CASE getopt
  BY <1>5, <1>2, <1>4 DEF getopt
<1>6. CASE GetoptEnds
  <2>1. CASE argc < 3
    BY <1>6, <1>2, <2>1 DEF GetoptEnds
  <2>2. CASE ~(argc < 3)
    BY <1>6, <2>2, Lists DEF GetoptEnds, CallTypes
  <2> QED BY <2>1, <2>2
<1>7. CASE window_create_array \/ malloc_args
  BY <1>1, <1>7 DEF window_create_array, malloc_args, CallTypes
<1>8. CASE init_curses
  <2>1. \/ todo' = Tail(todo) /\ UNCHANGED <<exit_code, failed>>
        \/ exit_code' = "failure" /\ UNCHANGED <<todo, failed>>
    BY <1>8 DEF init_curses
  <2>2. Alive /\ curses' = TRUE
    BY <1>8 DEF init_curses
  <2> QED BY <1>1, <2>1, <2>2 DEF CallTypes
<1>9. CASE pfd_create_array
  <2>1. Alive /\ UNCHANGED <<curses, exit_code>>
        /\ \/ todo' = Tail(todo) /\ UNCHANGED failed
           \/ todo' = Failure /\ failed' = "pfd_create_array"
    BY <1>9 DEF pfd_create_array, handle_error
  <2> QED BY <1>1, <1>3, <2>1 DEF CallTypes, Early
<1>10. CASE \E call \in {"socket", "setsockopt", "bind", "listen"} : server_init(call)
  <2>1. PICK call \in {"socket", "setsockopt", "bind", "listen"} : server_init(call)
    BY <1>10
  <2>2. Alive /\ UNCHANGED <<curses, exit_code>>
        /\ \/ todo' = Tail(todo) /\ UNCHANGED failed
           \/ todo' = Failure /\ failed' = call
    BY <2>1 DEF server_init, handle_error
  <2> QED BY <1>1, <1>3, <2>2 DEF CallTypes, Early
<1>11. CASE Looping
  <2>1. CASE LoopEnds
    <3>1. UNCHANGED curses
          /\ \/ todo' = End /\ UNCHANGED <<failed, exit_code>>
             \/ todo' = Failure /\ failed' = "loop" /\ UNCHANGED exit_code
             \/ exit_code' = "killed" /\ UNCHANGED <<todo, failed>>
      BY <2>1 DEF LoopEnds, handle_error
    <3> QED BY <1>2, <1>3, <3>1, Lists DEF CallTypes, Early
  <2>2. CASE LoopOnly
    BY <1>4, <2>2 DEF LoopOnly
  <2> QED BY <1>11, <2>1, <2>2
      DEF Looping, client_create, packet_receive, message_create, packet_transmit,
          client_disconnect, ReceiveEnd
<1>12. CASE fopen
  BY <1>1, <1>2, <1>12 DEF fopen, CallTypes
<1>13. CASE free_pfds \/ client_free \/ message_free \/ window_free \/ free_args \/ endwin \/ close
  BY <1>1, <1>2, <1>13 DEF free_pfds, client_free, message_free, window_free, free_args, endwin, close,
     CallTypes
<1>14. CASE exit("success") \/ exit("failure")
  BY <1>2, <1>14 DEF exit
<1>15. CASE UNCHANGED vars
  BY <1>4, <1>15 DEF vars
<1> QED BY <1>5, <1>6, <1>7, <1>8, <1>9, <1>10, <1>11, <1>12, <1>13, <1>14, <1>15
        DEF Next, SettingUp, CleaningUp, Terminated

\* The loop keeps the types of the heap.
LEMMA LoopHeapTypes == HeapTypes /\ Looping => HeapTypes'
<1> SUFFICES ASSUME HeapTypes, Looping PROVE HeapTypes'
  OBVIOUS
<1> DEFINE new == used + 1
<1>1. ASSUME used < MaxBlocks
      PROVE  new \in Ids /\ new \in 0 .. MaxBlocks
  BY <1>1, StartupAssumption DEF HeapTypes, Ids
<1>2. ASSUME NEW kind \in {"client", "history", "packet", "message"}, NEW n \in Ids
      PROVE  <<kind, n>> \in BlockType
  BY <1>2, BlocksTyped
<1>3. /\ DOMAIN client_list = 1 .. Len(client_list)
      /\ \A k \in DOMAIN client_list :
             client_list[k] \in Ids /\ RemoveAt(client_list, k) \in Seq(Ids)
  BY LenProperties, ElementOfSeq, RemoveAtProperties DEF HeapTypes
<1>4. /\ DOMAIN message_queue = 1 .. Len(message_queue)
      /\ \A k \in DOMAIN message_queue :
             /\ message_queue[k] \in [id : Ids, client : Ids]
             /\ RemoveAt(message_queue, k) \in Seq([id : Ids, client : Ids])
  BY LenProperties, ElementOfSeq, RemoveAtProperties DEF HeapTypes
<1>5. ASSUME NEW c \in Ids, new \in Ids
      PROVE  [history EXCEPT ![c] = @ \cup {new}] \in [Ids -> SUBSET Ids]
  BY <1>5 DEF HeapTypes
<1>6. CASE client_create
  <2>1. used < MaxBlocks /\ used' = new /\ client_list' = Append(client_list, new)
        /\ live' = live \cup {<<"client", new>>}
        /\ UNCHANGED <<wild, history, message_queue, departed>>
    BY <1>6 DEF client_create, InLoop, Malloc
  <2>2. client_list' \in Seq(Ids)
    BY <1>1, <2>1, AppendProperties DEF HeapTypes
  <2> HIDE DEF new
  <2> QED BY <1>1, <1>2, <2>1, <2>2 DEF HeapTypes
<1>7. ASSUME NEW k \in DOMAIN client_list, packet_receive(k)
      PROVE  HeapTypes'
  <2>1. used < MaxBlocks /\ used' = new
        /\ live' = live \cup {<<"packet", new>>, <<"history", new>>}
        /\ history' = [history EXCEPT ![client_list[k]] = @ \cup {new}]
        /\ UNCHANGED <<wild, client_list, message_queue, departed>>
    BY <1>7 DEF packet_receive, InLoop, Malloc
  <2> HIDE DEF new
  <2>2. history' \in [Ids -> SUBSET Ids]
    BY <1>1, <1>3, <1>5, <2>1
  <2> QED BY <1>1, <1>2, <2>1, <2>2 DEF HeapTypes
<1>8. ASSUME NEW k \in DOMAIN client_list, message_create(k)
      PROVE  HeapTypes'
  <2>1. used < MaxBlocks /\ used' = new
        /\ live' = live \cup {<<"packet", new>>, <<"message", new>>}
        /\ message_queue' = Append(message_queue, [id |-> new, client |-> client_list[k]])
        /\ UNCHANGED <<wild, client_list, history, departed>>
    BY <1>8 DEF message_create, InLoop, Malloc
  <2> HIDE DEF new
  <2>2. [id |-> new, client |-> client_list[k]] \in [id : Ids, client : Ids]
    BY <1>1, <1>3, <2>1
  <2>3. message_queue' \in Seq([id : Ids, client : Ids])
    BY <2>1, <2>2, AppendProperties DEF HeapTypes
  <2> QED BY <1>1, <1>2, <2>1, <2>3 DEF HeapTypes
<1>9. ASSUME NEW k \in DOMAIN message_queue, packet_transmit(k)
      PROVE  HeapTypes'
  <2>1. PICK same \in 1 .. k :
            /\ live' = (live \cup {<<"packet", used'>>, <<"history", used'>>})
                          \ {<<"message", message_queue[same].id>>}
            /\ wild' = wild \cup ({<<"message", message_queue[same].id>>} \ live)
            /\ message_queue' = RemoveAt(message_queue, same)
    BY <1>9 DEF packet_transmit
  <2>2. used < MaxBlocks /\ used' = new
        /\ history' = [history EXCEPT ![message_queue[k].client] = @ \cup {new}]
        /\ UNCHANGED <<client_list, departed>>
    BY <1>9 DEF packet_transmit, InLoop
  <2>3. same \in DOMAIN message_queue
    BY <1>4, LenProperties DEF HeapTypes
  <2>4. message_queue[same].id \in Ids /\ message_queue[k].client \in Ids
    BY <1>4, <2>3
  <2> HIDE DEF new
  <2>5. history' \in [Ids -> SUBSET Ids]
    BY <1>1, <1>5, <2>2, <2>4
  <2>6. <<"packet", new>> \in BlockType /\ <<"history", new>> \in BlockType
        /\ <<"message", message_queue[same].id>> \in BlockType
    BY <1>1, <1>2, <2>2, <2>4
  <2> QED BY <1>1, <1>4, <2>1, <2>2, <2>3, <2>5, <2>6 DEF HeapTypes
<1>10. ASSUME NEW k \in DOMAIN client_list, client_disconnect(k)
       PROVE  HeapTypes'
  <2>1. <<"client", client_list[k]>> \in BlockType
    BY <1>2, <1>3
  <2> QED BY <1>3, <1>10, <2>1 DEF client_disconnect, Free, HeapTypes
<1>11. ASSUME NEW k \in DOMAIN client_list, ReceiveEnd(k)
       PROVE  HeapTypes'
  <2>1. used < MaxBlocks /\ used' = new
        /\ live' = (live \cup {<<"packet", new>>}) \ {<<"client", client_list[k]>>}
        /\ wild' = wild \cup ({<<"client", client_list[k]>>} \ live)
        /\ client_list' = RemoveAt(client_list, k)
        /\ departed' = departed \cup {client_list[k]}
        /\ UNCHANGED <<history, message_queue>>
    BY <1>11 DEF ReceiveEnd, InLoop
  <2> HIDE DEF new
  <2>2. <<"client", client_list[k]>> \in BlockType /\ <<"packet", new>> \in BlockType
    BY <1>1, <1>2, <1>3, <2>1
  <2> QED BY <1>1, <1>3, <2>1, <2>2 DEF HeapTypes
<1>12. CASE LoopEnds
  BY <1>12 DEF LoopEnds, heapVars, listVars, HeapTypes
<1> QED BY <1>6, <1>7, <1>8, <1>9, <1>10, <1>11, <1>12 DEF Looping

\* Every step keeps the types of the heap.
LEMMA StepHeapTypes == HeapTypes /\ [Next]_vars => HeapTypes'
<1> SUFFICES ASSUME HeapTypes, [Next]_vars PROVE HeapTypes'
  OBVIOUS
<1>1. CASE Looping
  BY <1>1, LoopHeapTypes
<1>2. CASE UNCHANGED <<heapVars, listVars>>
  BY <1>2 DEF HeapTypes, heapVars, listVars
<1>3. CASE getopt \/ GetoptEnds \/ fopen \/ endwin \/ close \/ exit("success") \/ exit("failure")
           \/ \E call \in {"socket", "setsockopt", "bind", "listen"} : server_init(call)
  BY <1>2, <1>3 DEF getopt, GetoptEnds, fopen, endwin, close, exit, server_init
<1>4. CASE window_create_array \/ malloc_args \/ free_args \/ pfd_create_array \/ free_pfds
  <2>1. /\ {Block("windows")} \in SUBSET BlockType /\ {Block("args")} \in SUBSET BlockType
        /\ {Block("pfds")} \in SUBSET BlockType
    BY BlocksTyped
  <2>2. UNCHANGED listVars
        /\ \E blocks \in SUBSET BlockType : Malloc(blocks) \/ Free(blocks) \/ UNCHANGED heapVars
    BY <1>4, <2>1 DEF window_create_array, malloc_args, free_args, pfd_create_array, free_pfds
  <2> QED BY <2>2, MallocTyped
<1>5. CASE window_free
  <2>1. Blocks("window", 1 .. N_WINDOWS) \subseteq BlockType
    BY BlocksTyped
  <2> QED BY <1>5, <2>1, MallocTyped DEF window_free
<1>6. CASE init_curses
  <2> DEFINE n == Cardinality(Creatable)
  <2>1. n \in 0 .. N_WINDOWS
    BY HowManyCreatable
  <2> HIDE DEF n
  <2>2. n + 1 \in Nat /\ 1 .. n \subseteq 1 .. N_WINDOWS /\ n + 1 .. N_WINDOWS \subseteq 1 .. N_WINDOWS
    BY <2>1 DEF N_WINDOWS
  <2>3. /\ Blocks("window", 1 .. n) \subseteq BlockType
        /\ Blocks("dim", n + 1 .. N_WINDOWS) \subseteq BlockType
        /\ Blocks("window", 1 .. N_WINDOWS) \subseteq BlockType
    BY <2>2, BlocksTyped
  <2>4. /\ UNCHANGED <<wild, listVars>>
        /\ \/ live' = live \cup Blocks("window", 1 .. N_WINDOWS)
           \/ live' = (live \cup Blocks("window", 1 .. n)
                            \cup Blocks("dim", n + 1 .. N_WINDOWS)) \ {Block("windows")}
    BY <1>6 DEF init_curses, Malloc, n
  <2> QED BY <2>3, <2>4 DEF HeapTypes, listVars
<1>7. CASE client_free
  <2> DEFINE blocks == Blocks("client", ToSet(client_list))
                         \cup Blocks("history", UNION {history[c] : c \in ToSet(client_list)})
  <2>1. ToSet(client_list) \subseteq Ids
    BY LenProperties, ElementOfSeq DEF HeapTypes, ToSet
  <2>2. UNION {history[c] : c \in ToSet(client_list)} \subseteq Ids
    BY <2>1 DEF HeapTypes
  <2>3. blocks \subseteq BlockType
    BY <2>1, <2>2, BlocksTyped
  <2>4. /\ live' = live \ blocks /\ wild' = wild \cup (blocks \ live) /\ client_list' = <<>>
        /\ UNCHANGED <<history, message_queue, used, departed>>
    BY <1>7 DEF client_free, Free
  <2> HIDE DEF blocks
  <2> QED BY <2>3, <2>4 DEF HeapTypes
<1>8. CASE message_free
  <2> DEFINE ids == {message_queue[k].id : k \in DOMAIN message_queue}
             blocks == Blocks("message", ids)
  <2>1. ids \subseteq Ids
    <3>1. DOMAIN message_queue = 1 .. Len(message_queue)
      BY LenProperties DEF HeapTypes
    <3>2. \A k \in 1 .. Len(message_queue) : message_queue[k] \in [id : Ids, client : Ids]
      BY ElementOfSeq DEF HeapTypes
    <3> QED BY <3>1, <3>2
  <2>2. blocks \subseteq BlockType
    BY <2>1, BlocksTyped
  <2>3. /\ live' = live \ blocks /\ wild' = wild \cup (blocks \ live) /\ message_queue' = <<>>
        /\ UNCHANGED <<history, client_list, used, departed>>
    BY <1>8 DEF message_free, Free
  <2> HIDE DEF blocks
  <2> QED BY <2>2, <2>3 DEF HeapTypes
<1>9. CASE UNCHANGED vars
  BY <1>2, <1>9 DEF vars
<1> QED BY <1>1, <1>3, <1>4, <1>5, <1>6, <1>7, <1>8, <1>9 DEF Next, SettingUp, CleaningUp, Terminated

\* The types hold at the start.
LEMMA InitTypes == Init => CallTypes /\ HeapTypes
<1> SUFFICES ASSUME Init PROVE CallTypes /\ HeapTypes
  OBVIOUS
<1>1. CallTypes
  <2>1. "getopt" \in Names
    BY DEF Names
  <2>2. <<"getopt">> \in Seq(Names)
    BY <2>1
  <2> QED BY <2>2 DEF Init, CallTypes
<1>2. HeapTypes
  BY StartupAssumption DEF Init, HeapTypes, Ids
<1> QED BY <1>1, <1>2

-----------------------------------------------------------------------------
(* What Startup is to be relied on for.                                    *)

\* However the process is started, and whatever fails, every variable keeps its type.
THEOREM TypeCorrect == Spec => []TypeOK
<1>1. SInv /\ CallTypes /\ [Next]_vars => CallTypes'
  BY StepCallTypes
<1>2. Spec => [](CallTypes /\ HeapTypes)
  BY InitTypes, <1>1, StepHeapTypes, AlwaysSInv, PTL DEF Spec
<1>3. SInv /\ PortInv /\ CallTypes /\ HeapTypes => TypeOK
  <2> SUFFICES ASSUME SInv, PortInv, CallTypes, HeapTypes PROVE TypeOK
    OBVIOUS
  <2> DEFINE calls == {"getopt"} \cup ToSet(SetUp) \cup ToSet(End) \cup ToSet(Failure)
  <2>1. \A k \in 1 .. 9 : SetUp[k] \in ToSet(SetUp)
    BY Lists, LenProperties DEF ToSet
  <2>2. \A k \in 1 .. 8 : End[k] \in ToSet(End) /\ Failure[k] \in ToSet(Failure)
    BY Lists, LenProperties DEF ToSet
  <2>3. Early \subseteq ToSet(SetUp)
    BY <2>1 DEF SetUp, Early
  <2>4. Late \cup {"close", "success"} \subseteq ToSet(End)
    BY <2>2 DEF End, Late
  <2>5. {"fopen", "failure"} \subseteq ToSet(Failure)
    BY <2>2 DEF Failure
  <2>6. Names \subseteq calls
    BY <2>3, <2>4, <2>5 DEF Names
  <2>7. \A k \in DOMAIN todo : todo[k] \in calls
    BY <2>6, LenProperties, ElementOfSeq DEF CallTypes
  <2>8. failed \in {"none"} \cup ToSet(SetUp)
    BY <2>3 DEF CallTypes
  <2>9. Len(windows) <= N_WINDOWS
    <3>1. CASE windows = <<>>
      BY <3>1 DEF N_WINDOWS
    <3>2. ASSUME NEW n \in 0 .. N_WINDOWS, windows = [k \in 1 .. n |-> Opened(screen, Dims(screen)[k])]
          PROVE  Len(windows) <= N_WINDOWS
      BY <3>2 DEF N_WINDOWS
    <3> QED BY <3>1, <3>2 DEF SInv
  <2>10. listening \in -1 .. MaxPort
    BY PortNumbers DEF PortInv
  <2> QED BY <2>7, <2>8, <2>9, <2>10 DEF TypeOK, PortInv, CallTypes, HeapTypes
<1> QED BY <1>2, <1>3, AlwaysSInv, AlwaysPortInv, PTL

\* Whatever options the process is started with, it listens on the port of the last -p,
\* and refuses no plain number.
THEOREM PortCorrect == Spec => []PortServed
<1>1. PortInv => PortServed
  <2> SUFFICES ASSUME PortInv PROVE PortServed
    OBVIOUS
  <2>1. /\ PortOptions \subseteq 1 .. Len(argv) /\ Len(argv) \in Nat
        /\ \A k \in PortOptions : argv[k].arg \in Seq(STRING)
    BY OptionPlaces DEF PortInv
  <2>2. ASSUME listening # -1
        PROVE  IF PortOptions = {} THEN listening = 0
               ELSE LET s == argv[Max(PortOptions)].arg
                    IN  Numeral(s) => Says(s, listening)
    <3>1. optind = Len(argv) /\ listening = port
      BY <2>2 DEF PortInv
    <3>2. CASE PortOptions = {}
      BY <3>1, <3>2 DEF PortInv
    <3>3. CASE PortOptions # {}
      <4>1. PICK k \in PortOptions : k = Max(PortOptions) /\ \A j \in PortOptions : j <= k
        BY <2>1, <3>3, MaxInSet
      <4>2. valid_port(argv[k].arg) /\ port = strtol(argv[k].arg) /\ argv[k].arg \in Seq(STRING)
        BY <2>1, <3>1, <4>1 DEF PortInv
      <4>3. Len(argv[k].arg) \in 1 .. 5
        BY <4>2, ValidPort
      <4>4. Numeral(argv[k].arg) => Says(argv[k].arg, listening)
        BY <3>1, <4>2, <4>3, StrtolReads
      <4> QED BY <3>3, <4>1, <4>4
    <3> QED BY <3>2, <3>3
  <2>3. ASSUME exit_code = "failure", todo = <<"getopt">>, optind + 1 \in PortOptions,
               NEW n \in 0 .. MaxPort
        PROVE  argv[optind + 1].arg # Decimal(n)
    <3>1. ~valid_port(argv[optind + 1].arg) /\ argv[optind + 1].arg \in Seq(STRING)
      BY <2>1, <2>3 DEF PortInv
    <3>2. n \in Nat /\ n <= 65535
      BY PortNumbers
    <3> QED BY <3>1, <3>2, PlainPort
  <2> QED BY <2>2, <2>3 DEF PortServed
<1> QED BY AlwaysPortInv, <1>1, PTL

\* On any screen of 9 rows and 21 columns or more the windows of init_ui tile it, INPUT
\* within its border.
THEOREM WindowsCorrect == Spec => []WindowsTile
<1>1. SInv => WindowsTile
  <2> SUFFICES ASSUME SInv, Len(windows) = N_WINDOWS, screen.LINES >= 9, screen.COLS >= 21
               PROVE  Tiles(screen, windows)
    BY DEF WindowsTile
  <2>1. screen \in Screen /\ windows # <<>>
    BY DEF SInv, N_WINDOWS
  <2>2. PICK n \in 0 .. N_WINDOWS : windows = [k \in 1 .. n |-> Opened(screen, Dims(screen)[k])]
    BY <2>1 DEF SInv
  <2>3. n = N_WINDOWS
    <3>1. n \in Nat
      BY DEF N_WINDOWS
    <3> QED BY <2>2, <3>1
  <2> QED BY <2>1, <2>2, <2>3, DimsTile
<1> QED BY AlwaysSInv, <1>1, PTL

\* Whatever call fails, the terminal is given back before the process ends, but on a
\* screen too small for the windows and by the signals that TerminalRestored names.
THEOREM TerminalCorrect == Spec => []TerminalRestored
<1>1. SInv => TerminalRestored
  BY DEF SInv
<1> QED BY AlwaysSInv, <1>1, PTL

\* Whatever call fails, and whatever the loop made, neither way out frees a block twice.
THEOREM FreedCorrect == Spec => []FreedOnce
<1>1. SInv => FreedOnce
  BY DEF SInv
<1> QED BY AlwaysSInv, <1>1, PTL

\* What either way out may leave on the heap: packets, an array, histories of the departed.
THEOREM LeftCorrect == Spec => []LeftBehind
<1>1. SInv => LeftBehind
  BY DEF SInv
<1> QED BY AlwaysSInv, <1>1, PTL

=============================================================================
