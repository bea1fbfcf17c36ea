---------------------------- MODULE StartupProps -----------------------------
(***************************************************************************)
(* What Startup is to be relied on for: the port that is served, the       *)
(* windows, the terminal and the heap after either way out.                *)
(***************************************************************************)
EXTENDS Startup

BlockType == {"windows", "window", "dim", "args", "pfds", "client", "history", "packet", "message"}
                 \X (0 .. MaxBlocks + N_WINDOWS)

Ids == 1 .. MaxBlocks

MaxPort == 65535

\* Every variable stays in its type.
TypeOK ==
    /\ [argv |-> argv, screen |-> screen] \in Starts
    /\ optind \in 0 .. Len(argv) /\ port \in 0 .. MaxPort /\ listening \in -1 .. MaxPort
    /\ \A k \in DOMAIN todo : todo[k] \in {"getopt"} \cup ToSet(SetUp) \cup ToSet(End) \cup ToSet(Failure)
    /\ exit_code \in {"none", "success", "failure", "killed"}
    /\ failed \in {"none"} \cup ToSet(SetUp)
    /\ curses \in BOOLEAN /\ Len(windows) <= N_WINDOWS
    /\ live \subseteq BlockType /\ wild \subseteq BlockType
    /\ client_list \in Seq(Ids) /\ history \in [Ids -> SUBSET Ids]
    /\ message_queue \in Seq([id : Ids, client : Ids])
    /\ used \in 0 .. MaxBlocks /\ departed \subseteq Ids

-----------------------------------------------------------------------------

Numeral(s) == s # <<>> /\ \A k \in DOMAIN s : isdigit(s[k])

\* s is n in decimal, with or without zeros in front.
Says(s, n) ==
    /\ Len(s) \in 1 .. 9 /\ n < Powers[Len(s) + 1]
    /\ \A k \in DOMAIN s : s[k] = DigitOf(n, Len(s) - k + 1)

PortOptions == {k \in DOMAIN argv : argv[k].opt = "p"}

\* The port that is served is the one of the last -p, to the last digit, and any port if
\* there is none; and a -p with a plain number up to MaxPort is never refused.
PortServed ==
    /\ listening # -1 =>
           IF PortOptions = {} THEN listening = 0
           ELSE LET s == argv[Max(PortOptions)].arg
                IN  Numeral(s) => Says(s, listening)
    /\ exit_code = "failure" /\ todo = <<"getopt">> /\ optind + 1 \in PortOptions =>
           \A n \in 0 .. MaxPort : argv[optind + 1].arg # Decimal(n)

\* On a screen of 9 rows and 21 columns or more every window has its own place.
WindowsTile ==
    Len(windows) = N_WINDOWS /\ screen.LINES >= 9 /\ screen.COLS >= 21 => Tiles(screen, windows)

\* An end by exit never leaves the terminal in curses mode, whatever failed before,
\* unless the screen is too small for the windows (window_create then leaves at once).
\* A signal does leave it so; one ends the process in the loop (SIGPIPE), in
\* handle_error when the log cannot be opened, and when args->pfds is freed that
\* was never set: nowhere else.
TerminalRestored ==
    exit_code # "none" /\ curses =>
        \/ exit_code = "killed" /\ Head(todo) \in {"loop", "fopen"}
        \/ exit_code = "killed" /\ Head(todo) = "free_pfds" /\ failed = "pfd_create_array"
        \/ screen.LINES < 8 \/ screen.COLS < 20

\* Whatever fails, nothing is freed twice, by neither way out.  It exempts the one
\* wild free there is, of args->pfds when the array could not be allocated.
FreedOnce == wild \subseteq (IF failed = "pfd_create_array" THEN {Block("pfds")} ELSE {})

Packets == {b \in live : b[1] = "packet"}

\* Both ways out free every client and message, the histories of the clients still
\* connected, every window, args and the array of descriptors.  At most packets and
\* the histories of clients that had left remain, and the array of windows, which
\* the README lists as freed: window_free frees NULL in its place.
LeftBehind ==
    exit_code # "none" /\ todo = <<exit_code>> =>
        live \ Packets \subseteq
            {Block("windows")} \cup Blocks("history", UNION {history[c] : c \in departed})

=============================================================================
