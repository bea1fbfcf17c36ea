--------------------------- MODULE EventLoopProps ---------------------------
(***************************************************************************)
(* What EventLoop is for: its type invariant, its safety and liveness      *)
(* properties, and three statements of the code's comments that it breaks. *)
(***************************************************************************)
EXTENDS EventLoop

-----------------------------------------------------------------------------
(* Types.                                                                  *)

Entries == [conn : Conns, id : Nat]

ClientType == [socket : Fds \cup {Garbage}, unread_msg : {0, 1}, username : Names,
               history : Seq(Entries), printed : Nat]

ConnType == [peer : {"idle", "knocking", "up", "shut", "gone"} \cup Down,
             inbox : Nat, sent : Nat, room : Nat]

ErrorType == {<<>>} \cup {"connect", "accept", "revents", "recv", "send"}
                         \X {"EMFILE", "ECONNREFUSED", "EAGAIN", "SO_ERROR", "ECONNRESET"}

\* Every variable stays in its type.
TypeOK ==
    /\ status \in {"running", "exited", "failed", "killed", "undefined"}
    /\ error \in ErrorType
    /\ quit \in {0, 1} /\ pc \in {"poll", "stdin", "server", "client", "out"}
    /\ i \in Nat /\ msg \in Nat
    /\ nfds \in Nat \ {0} /\ fd_count \in 2 .. nfds /\ pfds \in [0 .. nfds - 1 -> Pfd]
    /\ client_list \in Seq(Cells) /\ client \in [Cells -> ClientType]
    /\ active_client \in Cells \cup {NoClient, Wild} /\ shown \in Cells \cup {NoClient}
    /\ message_queue \in Seq([id : Nat, client : Cells, body : Bodies])
    /\ made \in Seq([body : Bodies, to : Conns]) /\ wire \in [Conns -> Seq(Nat)]
    /\ conn \in [Conns -> ConnType] /\ file \in [Fds -> Conns \cup {NoConn}]
    /\ typed \in Nat

-----------------------------------------------------------------------------
(* The client list and the array of descriptors, kept in two places.       *)

ClientSlots == MIN_CLIENT_SOCK .. fd_count - 1

\* The list (in order of arrival) and the array (reordered by every removal)
\* describe the same clients: one slot for each client, one client for each
\* slot, one open connection behind both.  client_disconnect and packet_receive
\* rely on it: their walks along the list test for no end.
SocketsMatch ==
    /\ pfds[0].fd = STDIN_FILENO /\ pfds[1].fd = server_socket
    /\ \A j \in fd_count .. nfds - 1 : pfds[j] = NullPfd
    /\ \A j, k \in ClientSlots : pfds[j].fd = pfds[k].fd => j = k
    /\ \A j, k \in DOMAIN client_list :
           SocketOf(client_list[j]) = SocketOf(client_list[k]) => j = k
    /\ {pfds[j].fd : j \in ClientSlots} = {SocketOf(c) : c \in ClientSet}
    /\ {SocketOf(c) : c \in ClientSet} = Fds \ FreeFds
    /\ \A f, g \in Fds : file[f] = file[g] /\ file[f] # NoConn => f = g

\* active_client and the client of the HISTORY window are in the list: neither
\* outlives a client_disconnect, whichever client disconnects.  Only a line that
\* overruns a field (host_username lies before active_client) can break it.
PointersListed ==
    status # "undefined" => {active_client, shown} \subseteq ClientSet \cup {NoClient}

\* The mark next to a name is right: a client is marked exactly while part of
\* its history was never printed, and the active client never is.
NothingMissed ==
    \A c \in ClientSet :
        /\ client[c].unread_msg = 1 <=> client[c].printed < Len(client[c].history)
        /\ c = active_client => client[c].unread_msg = 0

-----------------------------------------------------------------------------
(* What the invariants above rest on.                                      *)

\* Only a client in the list owns a descriptor: what the socket field of a freed
\* cell reads as never matches the descriptor of a slot.
FreedHasNone == \A c \in Cells \ ClientSet : SocketOf(c) = Garbage

\* A descriptor refers to a connection that was made and not given up.
OpenIsLive ==
    \A f \in Fds : file[f] # NoConn => conn[file[f]].peer \in {"up", "shut"} \cup Down

\* Every queued message is one that was typed.
QueuedMade == \A k \in DOMAIN message_queue : message_queue[k].id \in DOMAIN made

\* The index of the pass stays inside the array and beyond stdin and the server,
\* also after the end of file of the last slot.
InSlots ==
    /\ pc \in {"client", "out"} => i >= MIN_CLIENT_SOCK
    /\ pc = "out" => i < nfds /\ msg > 0

\* The inductive invariant.
IInv ==
    TypeOK /\ SocketsMatch /\ PointersListed /\ FreedHasNone /\ OpenIsLive
    /\ QueuedMade /\ InSlots

-----------------------------------------------------------------------------
(* The snapshot of poll.                                                   *)

\* The slots whose report this pass may still use.
Pending ==
    CASE pc = "poll" -> {}
      [] pc \in {"stdin", "server"} -> ClientSlots
      [] pc = "client" -> i .. fd_count - 1
      [] pc = "out" -> i + 1 .. fd_count - 1

\* What poll reported for a slot is still true when the pass comes to it,
\* whatever the peers, the accepted clients and the slots moved by
\* disconnections have done since: something to read, room to write, a hangup, a
\* broken connection.  It does not say that send succeeds: a connection may go
\* down after the poll, and TransmitFails and TransmitKills are what follows.
ReportsStillTrue ==
    Running => \A j \in Pending :
        LET s == conn[file[pfds[j].fd]]
        IN  /\ "POLLIN" \in pfds[j].revents => s.inbox > 0 \/ s.peer \in {"shut"} \cup Down
            /\ "POLLOUT" \in pfds[j].revents => s.room > 0 \/ s.peer \in Down
            /\ "POLLHUP" \in pfds[j].revents => s.peer \in Down
            /\ "POLLERR" \in pfds[j].revents => s.peer \in {"reset", "broken"}

\* So recv on the non-blocking sockets never finds nothing to read, which would
\* end the program (connect.c takes every -1 for a failure).
NeverReadsEmpty == error # <<"recv", "EAGAIN">>

\* client_disconnect takes a client away only when its peer has left: one that
\* has closed is first read to the end, and only a hangup costs unread packets.
DroppedOnlyWhenGone ==
    [][\A c \in Conns :
          conn'[c].peer = "gone" =>
              \/ conn[c].peer \in {"gone", "knocking"} \cup Down
              \/ conn[c].peer = "shut" /\ conn[c].inbox = 0]_vars

\* A peer that left the backlog before it was accepted: its send buffer is empty.
LeftBacklog == {c \in Conns : conn[c].peer = "gone" /\ conn[c].room > 0}

\* The open connection of a client that a queued message is for is in state s.
WaitsFor(s) ==
    \E k \in DOMAIN message_queue, f \in Fds :
        SocketOf(message_queue[k].client) = f /\ conn[file[f]].peer \in s

\* handle_error and SIGPIPE end the program for everybody.  Behind each such end is
\* a peer that reset its connection, one that left the backlog, one whose send
\* buffer is full, a host that refused, a process without descriptors, or a message
\* for a peer whose connection is down.  A peer that only closes its side ends
\* nothing, and one that hangs up does only while a message for it waits.
FailureHasACause ==
    /\ status = "failed" =>
        CASE error[2] = "EMFILE" -> FreeFds = {}
          [] error[2] = "SO_ERROR" -> \E c \in Conns : conn[c].peer \in {"reset", "broken"}
          [] error[2] = "ECONNRESET" -> \E c \in Conns : conn[c].peer \in {"reset", "broken"}
          [] error = <<"accept", "EAGAIN">> -> LeftBacklog # {}
          [] error = <<"send", "EAGAIN">> ->
                \E c \in Conns : conn[c].room = 0 /\ wire[c] # <<>> /\ conn[c].peer # "gone"
          [] OTHER -> error = <<"connect", "ECONNREFUSED">>
    /\ status = "killed" => WaitsFor({"hup", "broken"})

-----------------------------------------------------------------------------
(* Messages.                                                               *)

Ids == DOMAIN made

Queued(id) == \E k \in DOMAIN message_queue : message_queue[k].id = id

\* The places of message id on the connections.
Sends(id) == {p \in Conns \X Ids : p[2] \in DOMAIN wire[p[1]] /\ wire[p[1]][p[2]] = id}

\* Another message with the text of id, for another connection.
HasTwin(id) == \E t \in Ids : made[t].body = made[id].body /\ made[t].to # made[id].to

\* The queue and the connections as Courier sees them: removal by text, the walk
\* along a queue that shrinks, clients that leave and freed cells never change how
\* many copies of a text wait or were sent.
Waiting(b) == {k \in DOMAIN message_queue : message_queue[k].body = b}
SentTo(c, b) == {k \in DOMAIN wire[c] : made[wire[c][k]].body = b}
SentAs(b) == UNION {{c} \X SentTo(c, b) : c \in Conns}

C == INSTANCE Courier WITH
        waiting <- [b \in Bodies |-> Cardinality(Waiting(b))],
        sent <- [b \in Bodies |-> Cardinality(SentAs(b))]

ImplementsCourier == C!Spec

\* A message leaves the queue when it is sent and is sent once, as long as the
\* same text was not typed for another client.
ExactlyOnceUnlessTwin ==
    \A id \in Ids :
        HasTwin(id) \/ Cardinality(Sends(id)) = (IF Queued(id) THEN 0 ELSE 1)

\* A message reaches another connection than the one it was typed for only
\* after that one has disconnected.
RightPeerUnlessGone ==
    \A c \in Conns : \A k \in DOMAIN wire[c] :
        made[wire[c][k]].to = c \/ conn[made[wire[c][k]].to].peer = "gone"

\* What reaches a peer is in the order it was typed, except for repeated texts.
InOrder ==
    \A c \in Conns : \A j, k \in DOMAIN wire[c] :
        j < k => wire[c][j] < wire[c][k] \/ HasTwin(wire[c][j]) \/ HasTwin(wire[c][k])

\* The entries of history h for messages; those up to position k, from the oldest on.
SentIn(h) == {k \in DOMAIN h : h[k].id > 0}
SentUpTo(h, k) == {j \in SentIn(h) : j >= k}

\* h, newest entry first, is the log of connection f on which the messages w were
\* sent and from which n packets were read: the nth message of w is the nth from
\* the end of those in h, under the connection it was typed for in m.
IsLog(h, w, m, n, f) ==
    /\ Cardinality(SentIn(h)) = Len(w)
    /\ \A k \in SentIn(h) :
           LET id == w[Cardinality(SentUpTo(h, k))]
           IN  h[k] = [conn |-> m[id].to, id |-> id]
    /\ Cardinality(DOMAIN h \ SentIn(h)) = n
    /\ \A k \in DOMAIN h \ SentIn(h) : h[k].conn = f

\* The history of a client is the log of its connection: the messages sent on it,
\* in order, and one entry for each packet read from it.
HistoryIsLog ==
    \A c \in ClientSet :
        LET f == file[client[c].socket]
        IN  IsLog(client[c].history, wire[f], made, conn[f].sent - conn[f].inbox, f)

-----------------------------------------------------------------------------
(* What comments of the code say and the code does not do.                 *)

\* connect.c: "add to history and remove message from queue".
SentLeavesQueue == \A id \in Ids : Queued(id) => Sends(id) = {}

\* main.c: "send any msg for that socket".
RightPeer == \A c \in Conns : \A k \in DOMAIN wire[c] : made[wire[c][k]].to = c

\* message.c: "refresh msg history if active client or indicate waiting message".
WaitingIndicated ==
    [][\A c \in ClientSet \cap ToSet(client_list') :
          client'[c].history # client[c].history /\ c # active_client'
              => client'[c].unread_msg = 1]_vars

-----------------------------------------------------------------------------
(* Liveness, under FairSpec.                                               *)

\* /quit ends the program.
QuitEnds == quit = 0 ~> ~Running

\* A peer in the backlog is accepted (or gives up, or the program ends), however
\* much the others send, however they come and go.
Accepted == \A c \in Conns : conn[c].peer = "knocking" ~> conn[c].peer # "knocking" \/ ~Running

\* What a peer sent is read to the end, although a disconnection makes the pass
\* skip slots: what goes with a client that is taken away does not count as read.
\* Only a connection that goes down, or the end of the program, may cost packets.
AllRead ==
    \A c \in Conns :
        conn[c].inbox > 0 /\ conn[c].peer \in {"up", "shut"}
            ~> (conn[c].inbox = 0 /\ conn[c].peer # "gone") \/ conn[c].peer \in Down \/ ~Running

\* A peer that has gone is noticed.
GoneNoticed ==
    \A c \in Conns :
        conn[c].peer \in {"shut"} \cup Down ~> conn[c].peer = "gone" \/ ~Running

\* A message waiting for a connected client is sent, unless the client goes or the
\* same text was typed for another one: message_destroy may then drop it unsent.
Delivered ==
    \A c \in Cells : \A id \in 1 .. MaxLines :
        (\E k \in DOMAIN message_queue : message_queue[k].id = id /\ message_queue[k].client = c)
            ~> (id \in Ids /\ (Sends(id) # {} \/ HasTwin(id))) \/ c \notin ClientSet \/ ~Running

=============================================================================
