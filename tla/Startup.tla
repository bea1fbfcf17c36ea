------------------------------- MODULE Startup -------------------------------
(***************************************************************************)
(* The life of the process around the loop: getopt, the set-up calls of    *)
(* main with the failures of each, what the loop leaves on the heap, and   *)
(* the two ways out, the end of main and handle_error; and the signals     *)
(* that end it at once.  The calls that are still to be made are a list,   *)
(* todo; each step makes the first.                                        *)
(***************************************************************************)
EXTENDS Layout, Lines, FiniteSetsExt

CONSTANTS
    Starts,     \* pairs [argv, screen] the program may be started with
    MaxBlocks   \* bound: clients, messages and history entries made by the loop

ASSUME StartupAssumption ==
    /\ MaxBlocks \in Nat
    /\ Starts \subseteq [argv : Seq([opt : STRING, arg : Seq(STRING), words : Nat]), screen : Screen]

\* A word of the command line, or an option with its argument, in words words:
\* opt is what getopt returns for it, "word" for one that is no option.
Option(opt, arg, words) == [opt |-> opt, arg |-> arg, words |-> words]

VARIABLES
    argv, screen,   \* as the process was started
    optind,         \* options read so far
    port,           \* options.port, then args->port
    todo,           \* the calls still to be made
    exit_code,      \* "none", then "success", "failure" or "killed" (by a signal)
    failed,         \* the call for which handle_error was called
    curses,         \* the terminal is in curses mode
    listening,      \* the port the server socket listens on, or -1
    windows,        \* the windows created, in order
    live,           \* heap blocks in use, as <<kind, number>>
    wild,           \* heap blocks freed that were not in use
    client_list, history, message_queue,    \* what points to them
    used,           \* blocks the loop has made
    departed        \* history: clients that left

startVars == <<argv, screen>>
listVars  == <<client_list, history, message_queue, used, departed>>
heapVars  == <<live, wild>>
ttyVars   == <<curses, windows>>
vars == <<startVars, optind, port, todo, exit_code, failed, ttyVars, listening, heapVars, listVars>>

Block(kind) == <<kind, 0>>
Blocks(kind, numbers) == {<<kind, n>> : n \in numbers}

SetUp == <<"window_create_array", "init_curses", "malloc_args", "pfd_create_array",
           "socket", "setsockopt", "bind", "listen", "loop">>

\* Mutant of End: the curses mode is left on.
NoEndwin == <<"free_pfds", "client_free", "message_free", "window_free", "free_args",
              "close", "success">>

\* The end of main, after the loop; exit_screen, which leaves nothing behind, is left out.
End == <<"free_pfds", "client_free", "message_free", "window_free", "free_args",
         "endwin", "close", "success">>

\* Mutant of Failure: the caller frees the array again.
FreeTwice == <<"fopen", "free_pfds", "client_free", "message_free", "window_free",
               "free_pfds", "free_args", "endwin", "failure">>

\* handle_error, and exit in its caller.
Failure == <<"fopen", "free_pfds", "client_free", "message_free", "window_free",
             "free_args", "endwin", "failure">>

Init ==
    /\ \E start \in Starts : argv = start.argv /\ screen = start.screen
    /\ optind = 0 /\ port = 0 /\ todo = <<"getopt">> /\ exit_code = "none" /\ failed = "none"
    /\ curses = FALSE /\ windows = <<>> /\ listening = -1
    /\ live = {} /\ wild = {}
    /\ client_list = <<>> /\ message_queue = <<>> /\ used = 0 /\ departed = {}
    /\ history = [c \in 1 .. MaxBlocks |-> {}]

-----------------------------------------------------------------------------

Alive == exit_code = "none"

\* The first call of todo is made, and the rest stays to be made.
Call(name) == Alive /\ Head(todo) = name
Done == todo' = Tail(todo) /\ UNCHANGED <<exit_code, failed>>

Ends(code) == exit_code' = code /\ UNCHANGED <<todo, failed>>

handle_error(name) == todo' = Failure /\ failed' = name /\ UNCHANGED exit_code

\* malloc and free of sets of blocks.
Malloc(blocks) == live' = live \cup blocks /\ UNCHANGED wild
Free(blocks) == live' = live \ blocks /\ wild' = wild \cup (blocks \ live)

-----------------------------------------------------------------------------
(* The command line.                                                       *)

argc ==
    LET words[k \in 0 .. Len(argv)] == IF k = 0 THEN 1 ELSE words[k - 1] + argv[k].words
    IN  words[Len(argv)]

Next_opt == argv[optind + 1]

getopt ==
    /\ Call("getopt") /\ optind < Len(argv)
    /\ \/ /\ Next_opt.opt = "p" /\ valid_port(Next_opt.arg)
          /\ port' = strtol(Next_opt.arg) /\ optind' = optind + 1
          /\ UNCHANGED <<todo, exit_code, failed>>
       \/ /\ Next_opt.opt = "p" /\ ~valid_port(Next_opt.arg)
          /\ Ends("failure") /\ UNCHANGED <<port, optind>>
       \/ /\ Next_opt.opt \in {"h", "v"}
          /\ Ends("success") /\ UNCHANGED <<port, optind>>
       \/ /\ Next_opt.opt \in {"?", ":"}
          /\ Ends("failure") /\ UNCHANGED <<port, optind>>
       \/ /\ Next_opt.opt = "word"
          /\ optind' = optind + 1 /\ UNCHANGED <<port, todo, exit_code, failed>>
    /\ UNCHANGED <<startVars, ttyVars, listening, heapVars, listVars>>

\* if (argc < 3): usage.
GetoptEnds ==
    /\ Call("getopt") /\ optind = Len(argv)
    /\ IF argc < 3 THEN Ends("failure")
       ELSE todo' = SetUp /\ UNCHANGED <<exit_code, failed>>
    /\ UNCHANGED <<startVars, optind, port, ttyVars, listening, heapVars, listVars>>

-----------------------------------------------------------------------------
(* Setting up.                                                             *)

window_create_array ==
    /\ Call("window_create_array")
    /\ Malloc({Block("windows")})
    /\ Done
    /\ UNCHANGED <<startVars, optind, port, ttyVars, listening, listVars>>

\* The windows of init_ui before the first that cannot be created.
Creatable ==
    {k \in 1 .. N_WINDOWS : \A j \in 1 .. k : newwin(screen, Dims(screen)[j])}

\* initscr, welcome_screen (which leaves nothing behind), init_ui, print_usage.
init_curses ==
    /\ Call("init_curses")
    /\ curses' = TRUE
    /\ LET n == Cardinality(Creatable)
       IN  /\ windows' = [k \in 1 .. n |-> Opened(screen, Dims(screen)[k])]
           /\ IF n = N_WINDOWS
              THEN Malloc(Blocks("window", 1 .. N_WINDOWS)) /\ Done
              ELSE /\ live' = (live \cup Blocks("window", 1 .. n)
                                    \cup Blocks("dim", n + 1 .. N_WINDOWS)) \ {Block("windows")}
                   /\ UNCHANGED wild
                   /\ Ends("failure")
    /\ UNCHANGED <<startVars, optind, port, listening, listVars>>

\* args->pfds is not set yet.
malloc_args ==
    /\ Call("malloc_args")
    /\ Malloc({Block("args")})
    /\ Done
    /\ UNCHANGED <<startVars, optind, port, ttyVars, listening, listVars>>

pfd_create_array ==
    /\ Call("pfd_create_array")
    /\ \/ Malloc({Block("pfds")}) /\ Done
       \/ handle_error("pfd_create_array") /\ UNCHANGED heapVars
    /\ UNCHANGED <<startVars, optind, port, ttyVars, listening, listVars>>

\* htons takes the low 16 bits of the port.
htons(p) == p % 65536

server_init(call) ==
    /\ Call(call)
    /\ \/ Done /\ listening' = IF call = "listen" THEN htons(port) ELSE listening
       \/ handle_error(call) /\ UNCHANGED listening
    /\ UNCHANGED <<startVars, optind, port, ttyVars, heapVars, listVars>>

-----------------------------------------------------------------------------
(* What the loop makes and frees.                                          *)

InLoop == Call("loop") /\ used < MaxBlocks

LoopOnly == UNCHANGED <<startVars, optind, port, todo, exit_code, failed, ttyVars, listening>>

client_create ==
    /\ InLoop /\ used' = used + 1
    /\ Malloc({<<"client", used'>>})
    /\ client_list' = Append(client_list, used')
    /\ UNCHANGED <<history, message_queue, departed>> /\ LoopOnly

packet_receive(k) ==
    /\ InLoop /\ used' = used + 1
    /\ Malloc({<<"packet", used'>>, <<"history", used'>>})
    /\ history' = [history EXCEPT ![client_list[k]] = @ \cup {used'}]
    /\ UNCHANGED <<client_list, message_queue, departed>> /\ LoopOnly

message_create(k) ==
    /\ InLoop /\ used' = used + 1
    /\ Malloc({<<"packet", used'>>, <<"message", used'>>})
    /\ message_queue' = Append(message_queue, [id |-> used', client |-> client_list[k]])
    /\ UNCHANGED <<client_list, history, departed>> /\ LoopOnly

\* A copy of the packet is made and forgotten; the history gets the message's own.
\* The message freed is the first with the text of the one sent.
packet_transmit(k) ==
    /\ InLoop /\ used' = used + 1
    /\ message_queue[k].client \in ToSet(client_list)
    /\ history' = [history EXCEPT ![message_queue[k].client] = @ \cup {used'}]
    /\ \E same \in 1 .. k :
           /\ live' = (live \cup {<<"packet", used'>>, <<"history", used'>>})
                          \ {<<"message", message_queue[same].id>>}
           /\ wild' = wild \cup ({<<"message", message_queue[same].id>>} \ live)
           /\ message_queue' = RemoveAt(message_queue, same)
    /\ UNCHANGED <<client_list, departed>> /\ LoopOnly

\* client_destroy frees the client and not its history.
client_disconnect(k) ==
    /\ Call("loop")
    /\ Free({<<"client", client_list[k]>>})
    /\ client_list' = RemoveAt(client_list, k)
    /\ departed' = departed \cup {client_list[k]}
    /\ UNCHANGED <<history, message_queue, used>> /\ LoopOnly

\* recv returns 0: the packet made for it is not freed.
ReceiveEnd(k) ==
    /\ InLoop /\ used' = used + 1
    /\ live' = (live \cup {<<"packet", used'>>}) \ {<<"client", client_list[k]>>}
    /\ wild' = wild \cup ({<<"client", client_list[k]>>} \ live)
    /\ client_list' = RemoveAt(client_list, k)
    /\ departed' = departed \cup {client_list[k]}
    /\ UNCHANGED <<history, message_queue>> /\ LoopOnly

\* /quit, a failure in any call of the loop, or a signal: SIGPIPE at a send on a
\* connection that is down, or what follows a line that overran a field.
LoopEnds ==
    /\ Call("loop")
    /\ \/ todo' = End /\ UNCHANGED <<exit_code, failed>>
       \/ handle_error("loop")
       \/ Ends("killed")
    /\ UNCHANGED <<startVars, optind, port, ttyVars, listening, heapVars, listVars>>

-----------------------------------------------------------------------------
(* Clean-up.                                                               *)

\* handle_error writes its log first, through a pointer that fopen may give as NULL.
fopen ==
    /\ Call("fopen")
    /\ Done \/ Ends("killed")
    /\ UNCHANGED <<startVars, optind, port, ttyVars, listening, heapVars, listVars>>

\* When the array could not be allocated args->pfds still holds what malloc left in
\* args: free may take that for NULL or for a block, or abort.
free_pfds ==
    /\ Call("free_pfds")
    /\ \/ Free({Block("pfds")}) /\ Done
       \/ failed = "pfd_create_array" /\ Ends("killed") /\ UNCHANGED heapVars
    /\ UNCHANGED <<startVars, optind, port, ttyVars, listening, listVars>>

\* Mutant of client_free: clients only.
ClientsOnly ==
    /\ Call("client_free")
    /\ Free(Blocks("client", ToSet(client_list)))
    /\ client_list' = <<>>
    /\ Done
    /\ UNCHANGED <<startVars, optind, port, ttyVars, listening, history, message_queue, used, departed>>

\* Every client of the list after its history (client_history_free).
client_free ==
    /\ Call("client_free")
    /\ Free(Blocks("client", ToSet(client_list))
            \cup Blocks("history", UNION {history[c] : c \in ToSet(client_list)}))
    /\ client_list' = <<>>
    /\ Done
    /\ UNCHANGED <<startVars, optind, port, ttyVars, listening, history, message_queue, used, departed>>

message_free ==
    /\ Call("message_free")
    /\ Free(Blocks("message", {message_queue[k].id : k \in DOMAIN message_queue}))
    /\ message_queue' = <<>>
    /\ Done
    /\ UNCHANGED <<startVars, optind, port, ttyVars, listening, client_list, history, used, departed>>

\* The windows, and then free(*window), which is free(NULL) by now.
window_free ==
    /\ Call("window_free")
    /\ Free(Blocks("window", 1 .. N_WINDOWS))
    /\ windows' = <<>>
    /\ Done
    /\ UNCHANGED <<startVars, optind, port, curses, listening, listVars>>

free_args ==
    /\ Call("free_args")
    /\ Free({Block("args")})
    /\ Done
    /\ UNCHANGED <<startVars, optind, port, ttyVars, listening, listVars>>

endwin ==
    /\ Call("endwin")
    /\ curses' = FALSE
    /\ Done
    /\ UNCHANGED <<startVars, optind, port, windows, listening, heapVars, listVars>>

close ==
    /\ Call("close")
    /\ listening' = -1
    /\ Done
    /\ UNCHANGED <<startVars, optind, port, ttyVars, heapVars, listVars>>

exit(code) ==
    /\ Call(code)
    /\ Ends(code)
    /\ UNCHANGED <<startVars, optind, port, ttyVars, listening, heapVars, listVars>>

-----------------------------------------------------------------------------

SettingUp ==
    \/ getopt \/ GetoptEnds
    \/ window_create_array \/ init_curses \/ malloc_args \/ pfd_create_array
    \/ \E call \in {"socket", "setsockopt", "bind", "listen"} : server_init(call)

Looping ==
    \/ client_create \/ LoopEnds
    \/ \E k \in DOMAIN client_list :
           packet_receive(k) \/ message_create(k) \/ client_disconnect(k) \/ ReceiveEnd(k)
    \/ \E k \in DOMAIN message_queue : packet_transmit(k)

CleaningUp ==
    \/ fopen \/ free_pfds \/ client_free \/ message_free \/ window_free \/ free_args
    \/ endwin \/ close \/ exit("success") \/ exit("failure")

Terminated == ~Alive /\ UNCHANGED vars

Next == SettingUp \/ Looping \/ CleaningUp \/ Terminated

Spec == Init /\ [][Next]_vars

=============================================================================
