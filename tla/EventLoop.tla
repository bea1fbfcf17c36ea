------------------------------ MODULE EventLoop ------------------------------
(***************************************************************************)
(* The single thread of chatr: the poll loop of main.c with everything its *)
(* body calls (get_input, accept_connection, client_connect,               *)
(* packet_receive, packet_transmit, client_disconnect, history_insert,     *)
(* message_create, message_destroy), the list of clients and the queue of  *)
(* outgoing messages, composed with the peers and the kernel, whose steps  *)
(* fall between any two system calls.                                      *)
(*                                                                         *)
(* One pass of the loop is: poll, standard input, the listening socket,    *)
(* then for each slot i of pfds its input ("client") and its output        *)
(* ("out").  What poll reported is a snapshot: it may be stale when used.  *)
(***************************************************************************)
EXTENDS Pollfds, Sequences, SequencesExt

CONSTANTS
    Conns,        \* TCP connections, each of one peer, each used once
    Fds,          \* descriptors the process may still open
    Cells,        \* heap cells malloc may return for a client_t
    Names,        \* valid usernames
    DefaultName,  \* DefaultName[f]: "user" followed by the number f
    Bodies,       \* texts the user may type
    NoClient,     \* the NULL client_t pointer
    Wild,         \* a client_t pointer made of bytes the user typed
    NoConn,       \* what a closed descriptor refers to
    MaxLines,     \* bound: lines the user types
    MaxPackets,   \* bound: packets a peer sends
    Room          \* packets that fit in an empty send buffer

STDIN_FILENO == 0
server_socket == 3

\* What the socket field of a freed client_t reads as: free overwrites it with
\* the allocator's bookkeeping, which is no descriptor number.
Garbage == -2

ASSUME EventLoopAssumption ==
    /\ \A f \in Fds : f \in Nat /\ f > server_socket
    /\ Names # {} /\ DefaultName \in [Fds -> Names]
    /\ NoClient \notin Cells /\ Wild \notin Cells \cup {NoClient}
    /\ NoConn \notin Conns
    /\ MaxLines \in Nat /\ MaxPackets \in Nat /\ Room \in Nat \ {0}

VARIABLES
    status,         \* "running", "exited" (/quit), "failed" (handle_error),
                    \* "killed" (SIGPIPE), "undefined" (a line overran a field)
    error,          \* the failed call and its errno, as logfile.txt has them
    quit,           \* args->quit: 1 until /quit is typed
    pc, i, msg,     \* where the pass is: stage, slot, position in the queue
    pfds, nfds, fd_count,
    client_list,    \* the client_t cells in list order
    client,         \* contents of every cell, in the list or free
    active_client,
    shown,          \* whose history the HISTORY window shows
    message_queue,  \* queued messages: [id, client (a cell), body]
    conn,           \* the kernel's and the peer's side of each connection
    file,           \* file[f]: the connection descriptor f refers to
    typed,          \* lines typed so far
    made,           \* history: for each message id, its text and addressee
    wire            \* history: ids of the messages sent on each connection

loopVars   == <<quit, pc, i, msg>>
exitVars   == <<status, error>>
pollVars   == <<pfds, nfds, fd_count>>
clientVars == <<client_list, client, active_client, shown>>
queueVars  == <<message_queue, made, wire>>
netVars    == <<conn, file>>

vars == <<exitVars, loopVars, pollVars, clientVars, queueVars, netVars, typed>>

-----------------------------------------------------------------------------
(* Reading the state.                                                      *)

Running == status = "running"

ClientSet == ToSet(client_list)

SocketOf(c) == client[c].socket

\* The walk from the head of the list to the client that owns descriptor f.
Position(f) == SelectInSeq(client_list, LAMBDA c : SocketOf(c) = f)
ClientOf(f) == client_list[Position(f)]

\* set_active_client and its strcmp: the first client of list with name n.
FirstNamed(list, cl, n) ==
    LET k == SelectInSeq(list, LAMBDA c : cl[c].username = n)
    IN  IF k = 0 THEN NoClient ELSE list[k]

\* A connection that sends nothing any more: "hup" is down in both directions,
\* "reset" was reset while it was open, "broken" after its peer had closed it.
Down == {"hup", "reset", "broken"}

FreeFds == {f \in Fds : file[f] = NoConn}

\* The kernel hands out the lowest free descriptor.
NewFd == CHOOSE f \in FreeFds : \A g \in FreeFds : f <= g

FreedClient ==
    [socket |-> Garbage, unread_msg |-> 0, username |-> CHOOSE n \in Names : TRUE,
     history |-> <<>>, printed |-> 0]

\* The state of a connection that this process or its peer has given up.
Gone == [peer |-> "gone", inbox |-> 0, sent |-> 0, room |-> 0]

Init ==
    /\ status = "running" /\ error = <<>>
    /\ quit = 1 /\ pc = "poll" /\ i = 0 /\ msg = 0
    /\ nfds = N_PFDS /\ fd_count = 2
    /\ pfds = pfd_insert(pfd_insert(pfd_create_array(N_PFDS), N_PFDS, 0, STDIN_FILENO),
                         N_PFDS, 1, server_socket)
    /\ client_list = <<>> /\ client = [c \in Cells |-> FreedClient]
    /\ active_client = NoClient /\ shown = NoClient
    /\ message_queue = <<>> /\ made = <<>> /\ wire = [c \in Conns |-> <<>>]
    /\ conn = [c \in Conns |-> [peer |-> "idle", inbox |-> 0, sent |-> 0, room |-> Room]]
    /\ file = [f \in Fds |-> NoConn]
    /\ typed = 0

-----------------------------------------------------------------------------
(* Pieces that several handlers call.                                      *)

\* Only the place in the pass changes.
OnlyControl ==
    UNCHANGED <<exitVars, pollVars, clientVars, queueVars, netVars, typed>>

Goto(stage) == pc' = stage /\ UNCHANGED <<quit, i, msg>>

NextSlot(k) == pc' = "client" /\ i' = k /\ msg' = 0 /\ UNCHANGED quit

\* handle_error followed by exit(EXIT_FAILURE).
handle_error(func, errno) ==
    /\ status' = "failed" /\ error' = <<func, errno>>
    /\ UNCHANGED <<loopVars, pollVars, clientVars, queueVars, netVars, typed>>

\* Mutant of history_print: the mark stays.
KeepMark(r) == [r EXCEPT !.printed = Len(r.history)]

\* The client record after history_print: nothing happens without a history.
history_print(r) ==
    IF r.history = <<>> THEN r
    ELSE [r EXCEPT !.unread_msg = 0, !.printed = Len(r.history)]

\* Mutant of Prepended: the earlier entries are not linked behind the new one.
OnlyNewest(h, entry) == <<entry>>

Prepended(h, entry) == <<entry>> \o h

\* A new entry at the head; the window is redrawn if the client's name is the
\* active client's name, and otherwise the client is marked as unread.
history_insert(c, entry) ==
    LET r     == [client[c] EXCEPT !.history = Prepended(@, entry)]
        act   == IF active_client = NoClient THEN c ELSE active_client
        print == r.username = client[act].username
    IN  /\ active_client' = act
        /\ client' = [client EXCEPT ![c] = IF print THEN history_print(r)
                                           ELSE [r EXCEPT !.unread_msg = 1]]
        /\ shown' = IF print THEN c ELSE shown
        /\ UNCHANGED client_list

\* Mutant of message_destroy: every message with the text goes.
DestroyAll(k) ==
    message_queue' = SelectSeq(message_queue, LAMBDA m : m.body # message_queue[k].body)

\* The first queued message with the text of the one at position k goes.
message_destroy(k) ==
    LET same == SelectInSeq(message_queue, LAMBDA m : m.body = message_queue[k].body)
    IN  message_queue' = RemoveAt(message_queue, same)

\* client_create, pfd_insert and, without an active client, set_active_client:
\* the common end of accept_connection and client_connect.  malloc may return
\* any cell that is not in use, one that held an earlier client included.
AddClient(c) ==
    LET f == NewFd
    IN  \E cell \in Cells \ ClientSet :
          LET cl   == [client EXCEPT ![cell] = [FreedClient EXCEPT
                         !.socket = f, !.username = DefaultName[f]]]
              list == Append(client_list, cell)
              who  == FirstNamed(list, cl, DefaultName[f])
          IN  /\ client_list' = list
              /\ file' = [file EXCEPT ![f] = c]
              /\ pfds' = pfd_insert(pfds, nfds, fd_count, f)
              /\ nfds' = Grown(nfds, fd_count)
              /\ fd_count' = fd_count + 1
              /\ IF active_client = NoClient
                 THEN /\ active_client' = who
                      /\ client' = [cl EXCEPT ![who] = history_print(@)]
                      /\ shown' = IF cl[who].history = <<>> THEN shown ELSE who
                 ELSE client' = cl /\ UNCHANGED <<active_client, shown>>

\* Mutant of UnsetActive: the pointer to the freed client stays.
KeepActive(c) == active_client

\* if (client == args->active_client) args->active_client = NULL
UnsetActive(c) == IF c = active_client THEN NoClient ELSE active_client

\* The client of slot k leaves: window, active client, descriptor, list and
\* array.  Messages queued for it stay in the queue and keep their pointer.
client_disconnect(k) ==
    LET f == pfds[k].fd
        c == ClientOf(f)
    IN  /\ active_client' = UnsetActive(c)
        /\ shown' = NoClient
        /\ client_list' = RemoveAt(client_list, Position(f))
        /\ client' = [client EXCEPT ![c] = FreedClient]
        /\ pfds' = pfd_destroy(pfds, fd_count, k)
        /\ fd_count' = fd_count - 1
        /\ conn' = [conn EXCEPT ![file[f]] = Gone]
        /\ file' = [file EXCEPT ![f] = NoConn]
        /\ UNCHANGED nfds

-----------------------------------------------------------------------------
(* poll, and the end of the loop.                                          *)

\* What poll reports for the descriptor of a connection in state s: one that is
\* down counts as readable and as writable, the calls return at once.
Readiness(s) ==
    (IF s.inbox > 0 \/ s.peer \in {"shut"} \cup Down THEN {"POLLIN"} ELSE {})
    \cup (IF s.room > 0 \/ s.peer \in Down THEN {"POLLOUT"} ELSE {})
    \cup (IF s.peer \in Down THEN {"POLLHUP"} ELSE {})
    \cup (IF s.peer \in {"reset", "broken"} THEN {"POLLERR"} ELSE {})

\* Mutant of Ready: the server socket is watched only while no client is active.
ReadyForOne(fd, line) ==
    IF fd = STDIN_FILENO THEN IF line THEN {"POLLIN"} ELSE {}
    ELSE IF fd = server_socket
    THEN IF active_client = NoClient /\ \E c \in Conns : conn[c].peer = "knocking"
         THEN {"POLLIN"} ELSE {}
    ELSE Readiness(conn[file[fd]])

\* stdin is readable when a whole line is typed, the server socket when a peer
\* is in the backlog.
Ready(fd, line) ==
    IF fd = STDIN_FILENO THEN IF line THEN {"POLLIN"} ELSE {}
    ELSE IF fd = server_socket
    THEN IF \E c \in Conns : conn[c].peer = "knocking" THEN {"POLLIN"} ELSE {}
    ELSE Readiness(conn[file[fd]])

\* Mutant of Refreshed: what the last poll reported is not cleared.
Accumulated(p, line) == [p EXCEPT !.revents = @ \cup Ready(p.fd, line)]

Refreshed(p, line) == [p EXCEPT !.revents = Ready(p.fd, line)]

\* Mutant of KeepGoing: the loop sends what is queued before it ends.
DrainFirst == quit = 1 \/ message_queue # <<>>

\* while (args->quit)
KeepGoing == quit = 1

Poll ==
    /\ Running /\ pc = "poll" /\ KeepGoing
    /\ \E line \in {FALSE} \cup {typed < MaxLines} :
         pfds' = [j \in DOMAIN pfds |->
                    IF j < fd_count THEN Refreshed(pfds[j], line) ELSE pfds[j]]
    /\ Goto("stdin")
    /\ UNCHANGED <<exitVars, nfds, fd_count, clientVars, queueVars, netVars, typed>>

\* while (args->quit) ends: the descriptors and lists are freed, exit(0).
Exit ==
    /\ Running /\ pc = "poll" /\ ~KeepGoing
    /\ status' = "exited"
    /\ UNCHANGED <<error, loopVars, pollVars, clientVars, queueVars, netVars, typed>>

-----------------------------------------------------------------------------
(* Standard input: get_input and handle_input.                             *)

AtStdin == Running /\ pc = "stdin"
HasLine == AtStdin /\ "POLLIN" \in pfds[0].revents

NoInput ==
    /\ AtStdin /\ "POLLIN" \notin pfds[0].revents
    /\ Goto("server")
    /\ OnlyControl

TypeQuit ==
    /\ HasLine
    /\ quit' = 0 /\ pc' = "server" /\ typed' = typed + 1
    /\ UNCHANGED <<exitVars, i, msg, pollVars, clientVars, queueVars, netVars>>

\* '@name': set_active_client.  A name no client has changes nothing.
TypeSelect(n) ==
    /\ HasLine
    /\ LET who == FirstNamed(client_list, client, n)
       IN  IF who = NoClient THEN UNCHANGED clientVars
           ELSE /\ active_client' = who
                /\ client' = [client EXCEPT ![who] = history_print(@)]
                /\ shown' = IF client[who].history = <<>> THEN shown ELSE who
                /\ UNCHANGED client_list
    /\ Goto("server") /\ typed' = typed + 1
    /\ UNCHANGED <<exitVars, pollVars, queueVars, netVars>>

\* '#name': set_client_username renames the active client; the name need not be new.
TypeRename(n) ==
    /\ HasLine
    /\ IF active_client = NoClient THEN UNCHANGED client
       ELSE client' = [client EXCEPT ![active_client].username = n]
    /\ Goto("server") /\ typed' = typed + 1
    /\ UNCHANGED <<exitVars, pollVars, client_list, active_client, shown, queueVars, netVars>>

\* Any other text: message_create appends it for the active client.
TypeText(b) ==
    /\ HasLine
    /\ IF active_client = NoClient THEN UNCHANGED queueVars
       ELSE /\ message_queue' = Append(message_queue,
                  [id |-> Len(made) + 1, client |-> active_client, body |-> b])
            /\ made' = Append(made, [body |-> b, to |-> file[SocketOf(active_client)]])
            /\ UNCHANGED wire
    /\ Goto("server") /\ typed' = typed + 1
    /\ UNCHANGED <<exitVars, pollVars, clientVars, netVars>>

\* '!IP PORT': client_connect.  socket() fails without a free descriptor, connect()
\* when the host refuses; both end the program.
TypeConnect(c) ==
    /\ HasLine /\ FreeFds # {}
    /\ conn[c].peer = "idle"
    /\ conn' = [conn EXCEPT ![c].peer = "up"]
    /\ AddClient(c)
    /\ Goto("server") /\ typed' = typed + 1
    /\ UNCHANGED <<exitVars, queueVars>>

ConnectFails ==
    /\ HasLine
    /\ handle_error("connect", IF FreeFds = {} THEN "EMFILE" ELSE "ECONNREFUSED")

\* A line that changes none of this state: '$host' with a name that fits, a name
\* or an address that is refused.
TypeOther ==
    /\ HasLine
    /\ Goto("server") /\ typed' = typed + 1
    /\ UNCHANGED <<exitVars, pollVars, clientVars, queueVars, netVars>>

\* A line that is written past the end of a field, none of which the code measures:
\* '$' and 32 characters or more run over args->active_client (and on into
\* args->pfds), '#' for a client whose name has 30 characters over prev_uname, and
\* 256 characters over input_buffer.  What the program does from here on is
\* undefined: the model stops.
TypeOverrun ==
    /\ HasLine
    /\ status' = "undefined" /\ active_client' \in {active_client, Wild}
    /\ Goto("server") /\ typed' = typed + 1
    /\ UNCHANGED <<error, pollVars, client_list, client, shown, queueVars, netVars>>

-----------------------------------------------------------------------------
(* The listening socket: accept_connection.                                *)

AtServer == Running /\ pc = "server"
HasPeer  == AtServer /\ "POLLIN" \in pfds[1].revents
Backlog  == {c \in Conns : conn[c].peer = "knocking"}

NoPeer ==
    /\ AtServer /\ "POLLIN" \notin pfds[1].revents
    /\ NextSlot(MIN_CLIENT_SOCK)
    /\ OnlyControl

accept_connection(c) ==
    /\ HasPeer /\ FreeFds # {}
    /\ c \in Backlog
    /\ conn' = [conn EXCEPT ![c].peer = "up"]
    /\ AddClient(c)
    /\ NextSlot(MIN_CLIENT_SOCK)
    /\ UNCHANGED <<exitVars, queueVars, typed>>

\* accept returns -1: the peer has given up since the poll, or no descriptor is free.
AcceptFails ==
    /\ HasPeer
    /\ Backlog = {} \/ FreeFds = {}
    /\ handle_error("accept", IF FreeFds = {} THEN "EMFILE" ELSE "EAGAIN")

-----------------------------------------------------------------------------
(* Slot i: error, hangup, packet_receive.                                  *)

AtSlot == Running /\ pc = "client" /\ i < fd_count /\ pfds[i].fd >= 0

Reports(e) == e \in pfds[i].revents

\* The connection behind slot i, as the kernel sees it now.
Here == conn[file[pfds[i].fd]]

EndPass ==
    /\ Running /\ pc = "client" /\ i >= fd_count
    /\ pc' = "poll" /\ i' = 0 /\ msg' = 0
    /\ UNCHANGED <<quit, exitVars, pollVars, clientVars, queueVars, netVars, typed>>

SlotError ==
    /\ AtSlot /\ Reports("POLLERR")
    /\ handle_error("revents", "SO_ERROR")

\* i++ and continue, and the i++ of the for: the slot that just received the
\* last descriptor and the slot after it wait for the next pass.
SlotHangup ==
    /\ AtSlot /\ ~Reports("POLLERR") /\ Reports("POLLHUP")
    /\ client_disconnect(i)
    /\ NextSlot(i + 2)
    /\ UNCHANGED <<exitVars, queueVars, typed>>

AtInput == AtSlot /\ ~Reports("POLLERR") /\ ~Reports("POLLHUP")

StartOutput == pc' = "out" /\ msg' = 1 /\ UNCHANGED <<quit, i>>

SlotIdle ==
    /\ AtInput /\ ~Reports("POLLIN")
    /\ StartOutput
    /\ OnlyControl

packet_receive ==
    /\ AtInput /\ Reports("POLLIN")
    /\ Here.inbox > 0
    /\ LET c == file[pfds[i].fd]
       IN  /\ conn' = [conn EXCEPT ![c].inbox = @ - 1]
           /\ history_insert(ClientOf(pfds[i].fd), [conn |-> c, id |-> 0])
    /\ StartOutput
    /\ UNCHANGED <<exitVars, pollVars, queueVars, file, typed>>

\* Mutant of SlotEof: end of file is taken for an empty packet.
IgnoreEof ==
    /\ AtInput /\ Reports("POLLIN")
    /\ Here.inbox = 0 /\ Here.peer \in {"shut", "hup", "broken"}
    /\ StartOutput
    /\ OnlyControl

\* Mutant of SlotEof: a closed connection is dropped before it is read to the end.
EofAtOnce ==
    /\ AtInput /\ Reports("POLLIN")
    /\ Here.peer \in {"shut", "hup", "broken"}
    /\ client_disconnect(i)
    /\ StartOutput
    /\ UNCHANGED <<exitVars, queueVars, typed>>

\* recv returns 0: the output test that follows looks at whatever the removal
\* left in slot i.
SlotEof ==
    /\ AtInput /\ Reports("POLLIN")
    /\ Here.inbox = 0 /\ Here.peer \in {"shut", "hup", "broken"}
    /\ client_disconnect(i)
    /\ StartOutput
    /\ UNCHANGED <<exitVars, queueVars, typed>>

\* recv returns -1: the peer has reset the connection, or (the socket is
\* non-blocking) there is nothing to read.  Of one reset after its end of file
\* systems report the end or the error.
ReceiveFails ==
    /\ AtInput /\ Reports("POLLIN")
    /\ Here.inbox = 0 /\ Here.peer \in {"up", "reset", "broken"}
    /\ handle_error("recv", IF Here.peer = "up" THEN "EAGAIN" ELSE "ECONNRESET")

-----------------------------------------------------------------------------
(* Slot i: the walk along the message queue, packet_transmit.              *)

AtOutput == Running /\ pc = "out"

\* Mutant of Due: messages for any client that is connected.
DueToAnyone == {k \in msg .. Len(message_queue) :
                    SocketOf(message_queue[k].client) # Garbage}

\* Mutant of Due: the walk starts behind the head.
DueAfterHead == {k \in msg + 1 .. Len(message_queue) :
                     SocketOf(message_queue[k].client) = pfds[i].fd}

\* The messages from position msg on whose client owns the descriptor of slot i.
Due == {k \in msg .. Len(message_queue) :
            SocketOf(message_queue[k].client) = pfds[i].fd}

HasDue == AtOutput /\ Reports("POLLOUT") /\ Due # {}

\* Mutant of NextDue: from the tail of the queue.
LastDue == CHOOSE k \in Due : \A j \in Due : k >= j

NextDue == CHOOSE k \in Due : \A j \in Due : k <= j

\* send, history_insert, message_destroy, then message->next.  The node sent is
\* either freed, and its next pointer survives free, or an earlier node was: in
\* both cases the next message is now at the position of the one sent.
packet_transmit ==
    /\ HasDue
    /\ Here.room > 0 /\ Here.peer \notin Down
    /\ LET k == NextDue
           m == message_queue[k]
           c == file[pfds[i].fd]
       IN  /\ conn' = [conn EXCEPT ![c].room = @ - 1]
           /\ wire' = [wire EXCEPT ![c] = Append(@, m.id)]
           /\ history_insert(m.client, [conn |-> made[m.id].to, id |-> m.id])
           /\ message_destroy(k)
           /\ msg' = k
    /\ UNCHANGED <<exitVars, quit, pc, i, pollVars, made, file, typed>>

TransmitFails ==
    /\ HasDue
    /\ Here.peer = "reset" \/ (Here.room = 0 /\ Here.peer \notin Down)
    /\ handle_error("send", IF Here.peer = "reset" THEN "ECONNRESET" ELSE "EAGAIN")

\* send on a connection that is down (EPIPE) raises SIGPIPE, which nothing ignores
\* or handles: the process is gone without handle_error.
TransmitKills ==
    /\ HasDue
    /\ Here.peer \in {"hup", "broken"}
    /\ status' = "killed"
    /\ UNCHANGED <<error, loopVars, pollVars, clientVars, queueVars, netVars, typed>>

EndOutput ==
    /\ AtOutput /\ ~HasDue
    /\ NextSlot(i + 1)
    /\ OnlyControl

-----------------------------------------------------------------------------
(* The peers, at any time while the program runs.                          *)

Peer(c, from, to) ==
    /\ Running /\ conn[c].peer \in from
    /\ conn' = [conn EXCEPT ![c].peer = to]
    /\ UNCHANGED <<exitVars, loopVars, pollVars, clientVars, queueVars, file, typed>>

PeerConnects(c) == Peer(c, {"idle"}, "knocking")
PeerGivesUp(c)  == Peer(c, {"knocking"}, "gone")
PeerCloses(c)   == Peer(c, {"up"}, "shut")            \* end of file, POLLIN only
PeerHangsUp(c)  == Peer(c, {"up", "shut"}, "hup")     \* POLLHUP
PeerResets(c)   == Peer(c, {"up"}, "reset") \/ Peer(c, {"shut"}, "broken")

PeerSends(c) ==
    /\ Running /\ conn[c].peer = "up" /\ conn[c].sent < MaxPackets
    /\ conn' = [conn EXCEPT ![c].inbox = @ + 1, ![c].sent = @ + 1]
    /\ UNCHANGED <<exitVars, loopVars, pollVars, clientVars, queueVars, file, typed>>

\* The peer reads a packet and the send buffer drains.
PeerReads(c) ==
    /\ Running /\ conn[c].peer \in {"up", "shut"} /\ conn[c].room < Room
    /\ conn' = [conn EXCEPT ![c].room = @ + 1]
    /\ UNCHANGED <<exitVars, loopVars, pollVars, clientVars, queueVars, file, typed>>

-----------------------------------------------------------------------------

HandleInput ==
    \/ TypeQuit \/ TypeOther \/ TypeOverrun \/ ConnectFails
    \/ \E n \in Names : TypeSelect(n) \/ TypeRename(n)
    \/ \E b \in Bodies : TypeText(b)
    \/ \E c \in Conns : TypeConnect(c)

Pass ==
    \/ Poll \/ Exit
    \/ NoInput \/ HandleInput
    \/ NoPeer \/ AcceptFails \/ \E c \in Conns : accept_connection(c)
    \/ EndPass \/ SlotError \/ SlotHangup \/ SlotIdle
    \/ packet_receive \/ SlotEof \/ ReceiveFails
    \/ packet_transmit \/ TransmitFails \/ TransmitKills \/ EndOutput

Peers ==
    \E c \in Conns :
        \/ PeerConnects(c) \/ PeerGivesUp(c) \/ PeerSends(c) \/ PeerReads(c)
        \/ PeerCloses(c) \/ PeerHangsUp(c) \/ PeerResets(c)

Terminated == ~Running /\ UNCHANGED vars

Next == Pass \/ Peers \/ Terminated

Spec == Init /\ [][Next]_vars

\* The loop never sleeps (poll has no timeout, the lines it reads are complete),
\* so it keeps taking steps; connected peers keep reading.
FairSpec == Spec /\ WF_vars(Pass) /\ \A c \in Conns : WF_vars(PeerReads(c))

=============================================================================
