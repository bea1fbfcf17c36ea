------------------------------- MODULE Console -------------------------------
(***************************************************************************)
(* What the user types and sees: the lines of get_input and handle_input,  *)
(* the client list and the histories they change, and the windows CLIENTS  *)
(* and HISTORY, with every redrawing call in the place where the code has  *)
(* it.  Functions of the code that get args and windows are operators from *)
(* one value of args to the next.  The network is the environment: clients *)
(* arrive, packets arrive, queued messages go out and clients leave in any *)
(* order (module EventLoop says which orders there are).                   *)
(***************************************************************************)
EXTENDS HistoryView, Lines, FiniteSetsExt

CONSTANTS
    Fds,        \* descriptors that may be free; a client is named by its own
    NoClient,   \* the NULL client_t pointer
    Wild,       \* a client_t pointer that was overwritten or whose client was freed
    Typable,    \* the lines the user may type
    Received,   \* the packets peers may send: [username, body]
    WIDTH,      \* columns of the window HISTORY
    MaxTyped,   \* bound: lines typed
    MaxEntries  \* bound: messages in all histories

\* A default name, which is the characters user and three digits, fits in a username
\* and passes for one.
ASSUME ConsoleAssumption ==
    /\ Fds \subseteq Nat /\ NoClient \notin Fds /\ Wild \notin Fds \cup {NoClient}
    /\ MaxTyped \in Nat /\ WIDTH \in Nat \ {0} /\ USERNAME_LEN \in Nat /\ USERNAME_LEN >= 4
    /\ Letters \cup ToSet(DigitChars) \cup {"0.0.0.0"} \subseteq STRING /\ "user" \in Letters
    /\ Typable \subseteq Seq(STRING)
    /\ Received \subseteq [username : Seq(STRING), body : Seq(STRING)]

VARIABLES
    args,       \* the args_t and the windows, see ArgsType
    status,     \* "running", "exited" (/quit), "failed" (handle_error), "undefined"
    typed,      \* lines typed so far
    renamed,    \* history: a client was renamed
    shared      \* history: two clients have had the same name

vars == <<args, status, typed, renamed, shared>>

Running == status = "running"

Clients(a) == ToSet(a.client_list)

\* Nothing but the border in the HISTORY window.
Erased == [of |-> NoClient, rows |-> [r \in TextRows |-> <<>>]]

Nobody == [username |-> <<>>, unread_msg |-> 0, history |-> <<>>]

Init ==
    /\ args = [quit |-> 1, host_username |-> <<"0.0.0.0">>, active_client |-> NoClient,
               client_list |-> <<>>, client |-> [f \in Fds |-> Nobody],
               message_queue |-> <<>>, CLIENTS |-> <<>>, HISTORY |-> Erased]
    /\ status = "running" /\ typed = 0
    /\ renamed = FALSE /\ shared = FALSE

-----------------------------------------------------------------------------
(* The windows.                                                            *)

client_print(a) ==
    [a EXCEPT !.CLIENTS = [k \in DOMAIN a.client_list |->
        LET f == a.client_list[k]
        IN  [username |-> a.client[f].username,
             mark |-> IF f = a.active_client THEN "standout"
                      ELSE IF a.client[f].unread_msg = 1 THEN "*" ELSE " "]]]

\* "%s: %s\n" from the second column on; the newline clears the rest of its row.
Height(packet) == (1 + Len(packet.username) + 2 + Len(packet.body)) \div WIDTH + 1

\* From the newest to the oldest, each printed over what is there: a message at a
\* negative row is not printed, one that needs several rows goes on over those of the
\* next newer ones, and the border is drawn over rows 0 and HISTORY_OFFSET + 2.
Drawn(h) ==
    [r \in TextRows |->
        LET over == {k \in DOMAIN h : /\ RowOf(k, Len(h)) >= 0
                                      /\ r \in RowOf(k, Len(h)) .. RowOf(k, Len(h)) + Height(h[k]) - 1}
        IN  IF over = {} THEN <<>>
            ELSE <<h[Max(over)], r - RowOf(Max(over), Len(h)) + 1>>]

\* Mutant of history_print: the list is drawn before the mark is taken back.
PrintThenRead(a, f) ==
    IF a.client[f].history = <<>> THEN a
    ELSE [client_print(a) EXCEPT
              !.client[f].unread_msg = 0,
              !.HISTORY = [of |-> f, rows |-> Drawn(a.client[f].history)]]

\* A client without a history leaves the window as it is.
history_print(a, f) ==
    IF a.client[f].history = <<>> THEN a
    ELSE [client_print([a EXCEPT !.client[f].unread_msg = 0]) EXCEPT
              !.HISTORY = [of |-> f, rows |-> Drawn(a.client[f].history)]]

\* Mutant of history_insert: the mark counts.
CountUnread(a, f, packet) ==
    LET new == [a EXCEPT !.client[f].history = <<packet>> \o @,
                         !.active_client = IF @ = NoClient THEN f ELSE @]
    IN  IF new.client[f].username = new.client[new.active_client].username
        THEN history_print(new, f)
        ELSE client_print([new EXCEPT !.client[f].unread_msg = @ + 1])

history_insert(a, f, packet) ==
    LET new == [a EXCEPT !.client[f].history = <<packet>> \o @,
                         !.active_client = IF @ = NoClient THEN f ELSE @]
    IN  IF new.client[f].username = new.client[new.active_client].username
        THEN history_print(new, f)
        ELSE client_print([new EXCEPT !.client[f].unread_msg = 1])

-----------------------------------------------------------------------------
(* The client list.                                                        *)

\* Mutant of set_active_client: the history is not drawn.
SelectOnly(a, input) ==
    LET username == remove_newline(remove_first_char(input))
        k == SelectInSeq(a.client_list, LAMBDA f : a.client[f].username = username)
    IN  IF ~valid_username(username) \/ k = 0 THEN a
        ELSE client_print([a EXCEPT !.active_client = a.client_list[k]])

set_active_client(a, input) ==
    LET username == remove_newline(remove_first_char(input))
        k == SelectInSeq(a.client_list, LAMBDA f : a.client[f].username = username)
        f == a.client_list[k]
    IN  IF ~valid_username(username) \/ k = 0 THEN a
        ELSE history_print(client_print([a EXCEPT !.active_client = f]), f)

client_create(a, f) ==
    client_print([a EXCEPT !.client_list = Append(@, f),
                           !.client[f] = [Nobody EXCEPT !.username = DefaultName(f)]])

\* The common end of accept_connection and client_connect.
AddClient(a, f) ==
    LET new == client_create(a, f)
    IN  IF a.active_client = NoClient THEN set_active_client(new, DefaultName(f)) ELSE new

\* The messages for a client that is freed keep their pointer to it.
Orphaned(queue, f) ==
    [k \in DOMAIN queue |->
        [client |-> IF queue[k].client = f THEN Wild ELSE queue[k].client,
         packet |-> queue[k].packet]]

client_disconnect(a, f) ==
    client_print([a EXCEPT !.active_client = IF @ = f THEN NoClient ELSE @,
                           !.HISTORY = Erased,
                           !.message_queue = Orphaned(@, f),
                           !.client_list = RemoveAt(@, SelectInSeq(@, LAMBDA g : g = f)),
                           !.client[f] = Nobody])

set_client_username(a, input) ==
    LET username == remove_newline(remove_first_char(input))
    IN  IF a.active_client = NoClient \/ ~valid_username(username) THEN a
        ELSE client_print([a EXCEPT !.client[a.active_client].username = username])

-----------------------------------------------------------------------------
(* The queue of outgoing messages.                                         *)

\* No name is refused: isalnum is asked about the result of a comparison.
set_host_username(a, input) ==
    [a EXCEPT !.host_username = remove_newline(remove_first_char(input))]

\* strcpy of the body, then of the username in front of it: a name that fills its
\* field writes its end and its NUL over the beginning of the body.
Packet(host, body) ==
    IF Len(host) < USERNAME_LEN THEN [username |-> host, body |-> body]
    ELSE [username |-> host, body |-> SubSeq(host, USERNAME_LEN + 1, Len(host))]

message_create(a, input) ==
    IF a.active_client = NoClient THEN a
    ELSE [a EXCEPT !.message_queue = Append(@,
             [client |-> a.active_client,
              packet |-> Packet(a.host_username, remove_newline(input))])]

\* The first queued message with the text of m.
message_destroy(a, m) ==
    LET same == SelectInSeq(a.message_queue, LAMBDA q : q.packet.body = m.packet.body)
    IN  [a EXCEPT !.message_queue = RemoveAt(@, same)]

\* To client f, where the pointer of m leads.
packet_transmit(a, m, f) == message_destroy(history_insert(a, f, m.packet), m)

-----------------------------------------------------------------------------
(* The user.                                                               *)

First(line) == IF line = <<>> THEN "" ELSE Head(line)

\* All of handle_input but client_connect.
handle_input(a, line) ==
    CASE line = <<"/quit">>  -> [a EXCEPT !.quit = 0]
      [] First(line) = "@"   -> set_active_client(a, line)
      [] First(line) = "$"   -> set_host_username(a, line)
      [] First(line) = "#"   -> set_client_username(a, line)
      [] OTHER               -> message_create(a, line)

Reads(line) == Running /\ args.quit = 1 /\ typed < MaxTyped /\ line \in Typable

SharesName(a) ==
    \E f, g \in Clients(a) : f # g /\ a.client[f].username = a.client[g].username

\* The next value of args, and what the history variables make of it.
Becomes(a) ==
    /\ args' = a
    /\ shared' = (shared \/ SharesName(a))

\* From host_username to active_client in args_t: the field and two bytes of padding.
HOST_ROOM == USERNAME_LEN + 2

Name(line) == remove_newline(remove_first_char(line))

\* strcpy of a host's name writes into the pointer active_client.
Overruns(line) == First(line) = "$" /\ Len(Name(line)) > HOST_ROOM

\* The terminating NUL alone does, and may find a zero there; or that of a client's
\* name passes the end of prev_uname, and may hit nothing.
MayOverrun(line) ==
    \/ First(line) = "$" /\ Len(Name(line)) = HOST_ROOM /\ args.active_client # NoClient
    \/ /\ First(line) = "#" /\ args.active_client # NoClient /\ valid_username(Name(line))
       /\ Len(args.client[args.active_client].username) = USERNAME_LEN

\* What the program does after a write past the end of a field is not defined.
Overrun(line) ==
    /\ Reads(line)
    /\ Overruns(line) \/ MayOverrun(line)
    /\ LET a == handle_input(args, line)
       IN  Becomes(IF First(line) = "$" THEN [a EXCEPT !.active_client = Wild] ELSE a)
    /\ typed' = typed + 1
    /\ renamed' = (renamed \/ First(line) = "#")
    /\ status' = "undefined"

get_input(line) ==
    /\ Reads(line) /\ First(line) # "!" /\ ~Overruns(line)
    /\ Becomes(handle_input(args, line))
    /\ typed' = typed + 1
    /\ renamed' = (renamed \/ First(line) = "#")
    /\ UNCHANGED status

FreeFds == Fds \ Clients(args)
NewFd == CHOOSE f \in FreeFds : \A g \in FreeFds : f <= g

\* What is left of the two strings in the freed copy of the line.
Survives(s) == {s, Clobbered}

\* '!': the line is refused, or the peer is connected to, or connect fails.
Refused(line) ==
    \/ Blank(line) = 0
    \/ \E p \in Survives(port_of(line)), host \in Survives(ip_of(line)) :
           ~valid_port(p) \/ ~inet_pton(host)

Accepted(line) ==
    /\ Blank(line) # 0
    /\ \E p \in Survives(port_of(line)), host \in Survives(ip_of(line)) :
           valid_port(p) /\ inet_pton(host)

client_connect(line) ==
    /\ Reads(line) /\ First(line) = "!"
    /\ typed' = typed + 1
    /\ LET input == remove_newline(remove_first_char(line))
       IN  \/ Refused(input) /\ Becomes(args) /\ UNCHANGED status
           \/ /\ Accepted(input) /\ FreeFds # {}
              /\ Becomes(AddClient(args, NewFd)) /\ UNCHANGED status
           \/ Accepted(input) /\ Becomes(args) /\ status' = "failed"
    /\ UNCHANGED renamed

-----------------------------------------------------------------------------
(* The network, and the end of the loop.                                   *)

Entries == MapThenSumSet(LAMBDA f : Len(args.client[f].history), Fds)

Accept ==
    /\ Running /\ FreeFds # {}
    /\ Becomes(client_print(AddClient(args, NewFd)))
    /\ UNCHANGED <<status, typed, renamed>>

Receive(f, packet) ==
    /\ Running /\ f \in Clients(args) /\ Entries < MaxEntries
    /\ Becomes(history_insert(args, f, packet))
    /\ UNCHANGED <<status, typed, renamed>>

\* A message whose client is gone goes to any client that has its memory now.
Transmit(k, f) ==
    /\ Running /\ f \in Clients(args) /\ Entries < MaxEntries
    /\ args.message_queue[k].client \in {f, Wild}
    /\ Becomes(packet_transmit(args, args.message_queue[k], f))
    /\ UNCHANGED <<status, typed, renamed>>

Disconnect(f) ==
    /\ Running /\ f \in Clients(args)
    /\ Becomes(client_disconnect(args, f))
    /\ UNCHANGED <<status, typed, renamed>>

Exit ==
    /\ Running /\ args.quit = 0
    /\ status' = "exited"
    /\ UNCHANGED <<args, typed, renamed, shared>>

Terminated == ~Running /\ UNCHANGED vars

Next ==
    \/ \E line \in Typable : get_input(line) \/ Overrun(line) \/ client_connect(line)
    \/ Accept \/ Exit \/ Terminated
    \/ \E f \in Fds : Disconnect(f) \/ \E p \in Received : Receive(f, p)
    \/ \E k \in DOMAIN args.message_queue, f \in Fds : Transmit(k, f)

Spec == Init /\ [][Next]_vars

=============================================================================
