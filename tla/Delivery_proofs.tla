--------------------------- MODULE Delivery_proofs ---------------------------
(***************************************************************************)
(* For any peers, cells, lines and packets: what poll reported for a slot  *)
(* is still true when the pass comes to it, so that recv never finds an    *)
(* empty buffer; the unread marks, where a message may end up, whom the    *)
(* program disconnects, and what makes it fail.                            *)
(***************************************************************************)
EXTENDS EventLoop_proofs

-----------------------------------------------------------------------------
(* The snapshot of poll.                                                   *)

Readable(s) == s.inbox > 0 \/ s.peer \in {"shut"} \cup Down
Writable(s) == s.room > 0 \/ s.peer \in Down
HungUp(s)   == s.peer \in Down
Broken(s)   == s.peer \in {"reset", "broken"}

\* The events e are true of a connection in state s.
TrueOf(e, s) ==
    /\ "POLLIN" \in e => Readable(s)
    /\ "POLLOUT" \in e => Writable(s)
    /\ "POLLHUP" \in e => HungUp(s)
    /\ "POLLERR" \in e => Broken(s)

\* What was true of s is true of t.
Keeps(s, t) ==
    /\ Readable(s) => Readable(t)
    /\ Writable(s) => Writable(t)
    /\ HungUp(s) => HungUp(t)
    /\ Broken(s) => Broken(t)

\* The snapshot, in these terms.
LEMMA StillTrueDef ==
  ReportsStillTrue <=>
    (Running => \A j \in Pending : TrueOf(pfds[j].revents, conn[file[pfds[j].fd]]))
BY DEF ReportsStillTrue, TrueOf, Readable, Writable, HungUp, Broken

\* A slot whose report the pass may still use is the slot of a client.
LEMMA PendingListed ==
  ASSUME IInv, NEW j \in Pending
  PROVE  j \in ClientSlots /\ pfds[j].fd \in Fds /\ file[pfds[j].fd] \in Conns
<1>1. /\ pc \in {"poll", "stdin", "server", "client", "out"} /\ i \in Nat
      /\ nfds \in Nat /\ fd_count \in 2 .. nfds
      /\ pc \in {"client", "out"} => i >= 2
  BY DEF IInv, TypeOK, InSlots, MIN_CLIENT_SOCK
<1>2. j \in ClientSlots
  BY <1>1 DEF Pending, ClientSlots, MIN_CLIENT_SOCK
<1> QED BY <1>2, SlotListed

\* Two slots have two connections.
LEMMA OtherSlot ==
  ASSUME IInv, NEW j \in ClientSlots, NEW k \in ClientSlots, j # k
  PROVE  file[pfds[j].fd] # file[pfds[k].fd] /\ pfds[j].fd # pfds[k].fd
<1>1. /\ pfds[j].fd \in Fds /\ file[pfds[j].fd] \in Conns
      /\ pfds[k].fd \in Fds /\ file[pfds[k].fd] \in Conns
  BY SlotListed
<1>2. pfds[j].fd # pfds[k].fd
  BY DEF IInv, SocketsMatch
<1> QED BY <1>1, <1>2, EventLoopAssumption DEF IInv, SocketsMatch

\* A step that leaves the pending slots and does not take away what they report
\* keeps the snapshot true.
LEMMA StillTrue ==
  ASSUME ReportsStillTrue, Running' => Running,
         \A j \in Pending' :
            \/ pfds'[j].revents = {}
            \/ /\ j \in Pending /\ pfds'[j] = pfds[j]
               /\ Keeps(conn[file[pfds[j].fd]], conn'[file'[pfds[j].fd]])
  PROVE  ReportsStillTrue'
<1>1. ASSUME Running', NEW j \in Pending'
      PROVE  TrueOf(pfds'[j].revents, conn'[file'[pfds'[j].fd]])
  <2>1. CASE pfds'[j].revents = {}
    BY <2>1 DEF TrueOf
  <2>2. CASE pfds'[j].revents # {}
    <3>1. /\ j \in Pending /\ pfds'[j] = pfds[j]
          /\ Keeps(conn[file[pfds[j].fd]], conn'[file'[pfds[j].fd]])
      BY <1>1, <2>2
    <3>2. TrueOf(pfds[j].revents, conn[file[pfds[j].fd]])
      BY <1>1, <3>1, StillTrueDef
    <3> QED BY <3>1, <3>2 DEF TrueOf, Keeps
  <2> QED BY <2>1, <2>2
<1> QED BY <1>1 DEF ReportsStillTrue, TrueOf, Readable, Writable, HungUp, Broken

\* Steps that leave slots and connections alone, and let no slot become pending.
LEMMA StillTrueQuiet ==
  ASSUME ReportsStillTrue, Running' => Running, Pending' \subseteq Pending,
         UNCHANGED <<pfds, conn, file>>
  PROVE  ReportsStillTrue'
BY StillTrue DEF Keeps

\* Steps that change one connection and no slot.
LEMMA StillTrueAfter ==
  ASSUME IInv, ReportsStillTrue, Running' => Running, Pending' \subseteq Pending,
         UNCHANGED <<pfds, file>>, NEW c \in Conns, NEW t, conn' = [conn EXCEPT ![c] = t],
         \/ \A j \in Pending' : file[pfds[j].fd] # c
         \/ Keeps(conn[c], t)
  PROVE  ReportsStillTrue'
<1>1. conn \in [Conns -> ConnType]
  BY DEF IInv, TypeOK
<1>2. ASSUME NEW j \in Pending'
      PROVE  Keeps(conn[file[pfds[j].fd]], conn'[file[pfds[j].fd]])
  <2>1. file[pfds[j].fd] \in Conns
    BY PendingListed
  <2>2. conn'[file[pfds[j].fd]] = IF file[pfds[j].fd] = c THEN t ELSE conn[file[pfds[j].fd]]
    BY <1>1, <2>1
  <2> QED BY <2>2 DEF Keeps
<1>3. pfds' = pfds /\ file' = file
  OBVIOUS
<1> QED BY <1>2, <1>3, StillTrue

-----------------------------------------------------------------------------
(* The handlers.                                                           *)

\* poll reports what is true.
LEMMA PollTrue == IInv /\ Poll => ReportsStillTrue'
<1> SUFFICES ASSUME IInv, Poll PROVE ReportsStillTrue'
  OBVIOUS
<1>1. PICK line \in {FALSE} \cup {typed < MaxLines} :
        pfds' = [j \in DOMAIN pfds |->
                   IF j < fd_count THEN Refreshed(pfds[j], line) ELSE pfds[j]]
  BY DEF Poll
<1>2. /\ nfds \in Nat \ {0} /\ fd_count \in 2 .. nfds /\ DOMAIN pfds = 0 .. nfds - 1
      /\ \A j \in 0 .. nfds - 1 : pfds[j] \in Pfd
  BY DEF IInv, TypeOK
<1>3. Pending' = ClientSlots /\ UNCHANGED <<conn, file>>
  BY DEF Poll, Goto, Pending, ClientSlots, netVars
<1>4. ASSUME NEW j \in ClientSlots
      PROVE  /\ pfds'[j].fd = pfds[j].fd
             /\ pfds'[j].revents = Readiness(conn[file[pfds[j].fd]])
  <2>1. j \in 0 .. nfds - 1 /\ j < fd_count /\ pfds[j] \in Pfd
    BY <1>2 DEF ClientSlots, MIN_CLIENT_SOCK
  <2>2. pfds[j].fd # STDIN_FILENO /\ pfds[j].fd # server_socket
    BY SlotListed, EventLoopAssumption DEF STDIN_FILENO, server_socket
  <2>3. pfds'[j] = [pfds[j] EXCEPT !.revents = Readiness(conn[file[pfds[j].fd]])]
    BY <1>1, <1>2, <2>1, <2>2 DEF Refreshed, Ready
  <2> QED BY <2>1, <2>3 DEF Pfd
<1>5. ASSUME NEW s PROVE TrueOf(Readiness(s), s)
  BY DEF TrueOf, Readiness, Readable, Writable, HungUp, Broken
<1>6. \A j \in Pending' : TrueOf(pfds'[j].revents, conn'[file'[pfds'[j].fd]])
  BY <1>3, <1>4, <1>5
<1> QED BY <1>6 DEF ReportsStillTrue, TrueOf, Readable, Writable, HungUp, Broken

\* A new client takes a slot with nothing reported and a connection of its own.
LEMMA AddTrue ==
  ASSUME IInv, ReportsStillTrue, NEW c \in Conns, conn[c].peer \in {"idle", "knocking"},
         FreeFds # {}, conn' = [conn EXCEPT ![c].peer = "up"], AddClient(c), Running,
         pc \in {"stdin", "server"}, pc' = "server" \/ (pc' = "client" /\ i' = 2)
  PROVE  ReportsStillTrue'
<1>1. NewFd \in Fds /\ file[NewFd] = NoConn
  BY NewFdFree DEF FreeFds
<1>2. /\ file' = [file EXCEPT ![NewFd] = c]
      /\ pfds' = [j \in 0 .. Grown(nfds, fd_count) - 1 |->
                    IF j = fd_count THEN [fd |-> NewFd, revents |-> {}]
                    ELSE IF j \in 0 .. nfds - 1 THEN pfds[j] ELSE NullPfd]
      /\ fd_count' = fd_count + 1
  BY DEF AddClient, pfd_insert
<1>3. /\ nfds \in Nat \ {0} /\ fd_count \in 2 .. nfds
      /\ conn \in [Conns -> ConnType] /\ file \in [Fds -> Conns \cup {NoConn}]
  BY DEF IInv, TypeOK
<1>4. pfds'[fd_count].revents = {}
  BY <1>2, <1>3 DEF Grown
<1>5. Pending' = ClientSlots \cup {fd_count} /\ Pending = ClientSlots
  <2>1. 2 .. fd_count' - 1 = (2 .. fd_count - 1) \cup {fd_count}
    BY <1>2, <1>3
  <2> QED BY <2>1 DEF Pending, ClientSlots, MIN_CLIENT_SOCK
<1>6. ASSUME NEW j \in ClientSlots
      PROVE  /\ pfds'[j] = pfds[j]
             /\ conn'[file'[pfds[j].fd]] = conn[file[pfds[j].fd]]
  <2>1. pfds'[j] = pfds[j]
    BY <1>2, <1>3 DEF ClientSlots, MIN_CLIENT_SOCK, Grown
  <2>2. pfds[j].fd \in Fds /\ file[pfds[j].fd] \in Conns /\ file[pfds[j].fd] # NoConn
    BY SlotListed, EventLoopAssumption
  <2>3. pfds[j].fd # NewFd /\ file'[pfds[j].fd] = file[pfds[j].fd]
    BY <1>1, <1>2, <1>3, <2>2
  <2>4. file[pfds[j].fd] # c
    BY <2>2 DEF IInv, OpenIsLive, Down
  <2> QED BY <1>3, <2>1, <2>2, <2>3, <2>4
<1> QED BY <1>4, <1>5, <1>6, StillTrue DEF Keeps

\* The slots before the one that a removal filled are not looked at again.
LEMMA LeaveTrue == IInv /\ ReportsStillTrue /\ (SlotHangup \/ SlotEof) => ReportsStillTrue'
<1> SUFFICES ASSUME IInv, ReportsStillTrue, SlotHangup \/ SlotEof PROVE ReportsStillTrue'
  OBVIOUS
<1> DEFINE f == pfds[i].fd
<1>1. /\ AtSlot /\ client_disconnect(i) /\ pc = "client" /\ Running
      /\ (pc' = "client" /\ i' = i + 2) \/ (pc' = "out" /\ i' = i)
  BY DEF SlotHangup, SlotEof, AtInput, AtSlot, NextSlot, StartOutput
<1>2. i \in ClientSlots
  BY <1>1, AtClient
<1>3. /\ pfds' = [pfds EXCEPT ![i] = pfds[fd_count - 1], ![fd_count - 1] = NullPfd]
      /\ fd_count' = fd_count - 1
      /\ conn' = [conn EXCEPT ![file[f]] = Gone]
      /\ file' = [file EXCEPT ![f] = NoConn]
  BY <1>1 DEF client_disconnect, pfd_destroy
<1>4. /\ nfds \in Nat \ {0} /\ fd_count \in 2 .. nfds /\ pfds \in [0 .. nfds - 1 -> Pfd]
      /\ conn \in [Conns -> ConnType] /\ file \in [Fds -> Conns \cup {NoConn}] /\ i \in Nat /\ i >= 2
  BY <1>2 DEF IInv, TypeOK, ClientSlots, MIN_CLIENT_SOCK
<1>5. Pending' \subseteq i + 1 .. fd_count - 2 /\ Pending = i .. fd_count - 1
  BY <1>1, <1>3, <1>4 DEF Pending
<1> HIDE DEF f
<1>6. ASSUME NEW j \in i + 1 .. fd_count - 2
      PROVE  /\ j \in i .. fd_count - 1 /\ pfds'[j] = pfds[j]
             /\ conn'[file'[pfds[j].fd]] = conn[file[pfds[j].fd]]
  <2>1. j \in ClientSlots /\ j \in i .. fd_count - 1 /\ j # i /\ j \in 0 .. nfds - 1 /\ j # fd_count - 1
    BY <1>4 DEF ClientSlots, MIN_CLIENT_SOCK
  <2>2. pfds'[j] = pfds[j]
    BY <1>3, <1>4, <2>1
  <2>3. /\ file[pfds[j].fd] # file[f] /\ pfds[j].fd # f
        /\ pfds[j].fd \in Fds /\ file[pfds[j].fd] \in Conns
    BY <1>2, <2>1, OtherSlot, SlotListed DEF f
  <2>4. file'[pfds[j].fd] = file[pfds[j].fd]
    BY <1>3, <1>4, <2>3
  <2> QED BY <1>3, <1>4, <2>1, <2>2, <2>3, <2>4
<1> QED BY <1>1, <1>5, <1>6, StillTrue DEF Keeps

\* recv and send take from the connection of the slot they look at.
LEMMA SlotTrue ==
  IInv /\ ReportsStillTrue /\ (packet_receive \/ packet_transmit) => ReportsStillTrue'
<1> SUFFICES ASSUME IInv, ReportsStillTrue, packet_receive \/ packet_transmit
             PROVE  ReportsStillTrue'
  OBVIOUS
<1> DEFINE c == file[pfds[i].fd]
<1>1. /\ i \in ClientSlots /\ Running /\ UNCHANGED <<status, i, pfds, fd_count, file>>
      /\ pc' = "out" /\ pc \in {"client", "out"}
  <2>1. CASE packet_receive
    BY <2>1, AtClient DEF packet_receive, AtInput, AtSlot, StartOutput, exitVars, pollVars
  <2>2. CASE packet_transmit
    BY <2>2, DueListed DEF packet_transmit, HasDue, AtOutput, exitVars, pollVars
  <2> QED BY <2>1, <2>2
<1>2. \/ conn' = [conn EXCEPT ![c] = [conn[c] EXCEPT !.inbox = conn[c].inbox - 1]]
      \/ conn' = [conn EXCEPT ![c] = [conn[c] EXCEPT !.room = conn[c].room - 1]]
  BY DEF packet_receive, packet_transmit
<1>3. fd_count \in Nat /\ i \in Nat /\ i >= 2
  BY <1>1 DEF IInv, TypeOK, ClientSlots, MIN_CLIENT_SOCK
<1>4. Pending' = i + 1 .. fd_count - 1 /\ Pending' \subseteq Pending
  BY <1>1, <1>3 DEF Pending
<1>5. ASSUME NEW j \in Pending' PROVE file[pfds[j].fd] # c
  <2>1. j \in ClientSlots /\ j # i
    BY <1>3, <1>4, <1>5 DEF ClientSlots, MIN_CLIENT_SOCK
  <2> QED BY <1>1, <2>1, OtherSlot
<1>6. c \in Conns
  BY <1>1, SlotListed
<1> HIDE DEF c
<1> QED BY <1>1, <1>2, <1>4, <1>5, <1>6, StillTrueAfter

\* The peers only add: packets, room, an end of the connection.
LEMMA PeersTrue == IInv /\ ReportsStillTrue /\ Peers => ReportsStillTrue'
<1> SUFFICES ASSUME IInv, ReportsStillTrue, NEW c \in Conns,
                    \/ PeerConnects(c) \/ PeerGivesUp(c) \/ PeerSends(c) \/ PeerReads(c)
                    \/ PeerCloses(c) \/ PeerHangsUp(c) \/ PeerResets(c)
             PROVE  ReportsStillTrue'
  BY DEF Peers
<1>1. /\ UNCHANGED <<status, pc, i, fd_count, pfds, file>>
  BY DEF PeerConnects, PeerGivesUp, PeerSends, PeerReads, PeerCloses, PeerHangsUp, PeerResets,
         Peer, exitVars, loopVars, pollVars
<1>2. Pending' = Pending /\ Running' = Running
  BY <1>1 DEF Pending, Running, ClientSlots
<1>3. conn[c] \in ConnType
  BY DEF IInv, TypeOK
<1>4. ASSUME NEW from, NEW to, Peer(c, from, to),
             \/ from \cap Live = {}
             \/ from \subseteq {"up", "shut"} /\ (to \in Down \/ (to = "shut" /\ from = {"up"}))
      PROVE  ReportsStillTrue'
  <2> DEFINE t == [conn[c] EXCEPT !.peer = to]
  <2>1. conn' = [conn EXCEPT ![c] = t] /\ conn[c].peer \in from
    BY <1>4 DEF Peer
  <2>2. t.peer = to /\ t.inbox = conn[c].inbox /\ t.room = conn[c].room
    BY <1>3 DEF ConnType
  <2> HIDE DEF t
  <2>3. CASE from \cap Live = {}
    <3>1. \A j \in Pending' : file[pfds[j].fd] # c
      <4>1. \A j \in Pending : pfds[j].fd \in Fds /\ file[pfds[j].fd] \in Conns
        BY PendingListed
      <4>2. \A j \in Pending : conn[file[pfds[j].fd]].peer \in Live
        BY <4>1, EventLoopAssumption DEF IInv, OpenIsLive, Live
      <4> QED BY <1>2, <2>1, <2>3, <4>2
    <3> QED BY <1>1, <1>2, <2>1, <3>1, StillTrueAfter
  <2>4. CASE from \subseteq {"up", "shut"} /\ (to \in Down \/ (to = "shut" /\ from = {"up"}))
    <3>1. Keeps(conn[c], t)
      BY <2>1, <2>2, <2>4 DEF Keeps, Readable, Writable, HungUp, Broken, Down
    <3> QED BY <1>1, <1>2, <2>1, <3>1, StillTrueAfter
  <2> QED BY <1>4, <2>3, <2>4
<1>5. CASE PeerSends(c) \/ PeerReads(c)
  <2>1. PICK t : /\ conn' = [conn EXCEPT ![c] = t] /\ t.peer = conn[c].peer
                 /\ t.inbox \in Nat /\ t.inbox >= conn[c].inbox
                 /\ t.room \in Nat /\ t.room >= conn[c].room
    <3>1. CASE PeerSends(c)
      <4> DEFINE t == [conn[c] EXCEPT !.inbox = @ + 1, !.sent = @ + 1]
      <4>1. conn' = [conn EXCEPT ![c] = t]
        BY <3>1 DEF PeerSends
      <4>2. /\ t.peer = conn[c].peer /\ t.inbox = conn[c].inbox + 1 /\ t.room = conn[c].room
            /\ conn[c].inbox \in Nat /\ conn[c].room \in Nat
        BY <1>3 DEF ConnType
      <4> HIDE DEF t
      <4>3. /\ t.peer = conn[c].peer
            /\ t.inbox \in Nat /\ t.inbox >= conn[c].inbox
            /\ t.room \in Nat /\ t.room >= conn[c].room
        BY <4>2
      <4> QED BY <4>1, <4>3
    <3>2. CASE PeerReads(c)
      <4> DEFINE t == [conn[c] EXCEPT !.room = @ + 1]
      <4>1. conn' = [conn EXCEPT ![c] = t]
        BY <3>2 DEF PeerReads
      <4>2. /\ t.peer = conn[c].peer /\ t.inbox = conn[c].inbox /\ t.room = conn[c].room + 1
            /\ conn[c].inbox \in Nat /\ conn[c].room \in Nat
        BY <1>3 DEF ConnType
      <4> HIDE DEF t
      <4>3. /\ t.peer = conn[c].peer
            /\ t.inbox \in Nat /\ t.inbox >= conn[c].inbox
            /\ t.room \in Nat /\ t.room >= conn[c].room
        BY <4>2
      <4> QED BY <4>1, <4>3
    <3> QED BY <1>5, <3>1, <3>2
  <2>2. conn[c].inbox \in Nat /\ conn[c].room \in Nat
    BY <1>3 DEF ConnType
  <2>3. Keeps(conn[c], t)
    BY <2>1, <2>2 DEF Keeps, Readable, Writable, HungUp, Broken
  <2> QED BY <1>1, <1>2, <2>1, <2>3, StillTrueAfter
<1>6. CASE PeerConnects(c) \/ PeerGivesUp(c)
  BY <1>4, <1>6 DEF PeerConnects, PeerGivesUp, Live, Down
<1>7. CASE PeerCloses(c) \/ PeerHangsUp(c) \/ PeerResets(c)
  BY <1>4, <1>7 DEF PeerCloses, PeerHangsUp, PeerResets, Down
<1> QED BY <1>5, <1>6, <1>7

\* The rest of the pass changes no slot and no connection.
LEMMA PassTrue ==
  IInv /\ ReportsStillTrue
    /\ (\/ NoInput \/ TypeQuit \/ TypeOther \/ NoPeer \/ EndPass \/ SlotIdle \/ EndOutput
        \/ \E n \in Names : TypeSelect(n) \/ TypeRename(n)
        \/ \E b \in Bodies : TypeText(b))
  => ReportsStillTrue'
<1> SUFFICES ASSUME IInv, ReportsStillTrue,
                    \/ NoInput \/ TypeQuit \/ TypeOther \/ NoPeer \/ EndPass \/ SlotIdle \/ EndOutput
                    \/ \E n \in Names : TypeSelect(n) \/ TypeRename(n)
                    \/ \E b \in Bodies : TypeText(b)
             PROVE  ReportsStillTrue'
  OBVIOUS
<1>1. i \in Nat /\ fd_count \in Nat
  BY DEF IInv, TypeOK
<1>2. Running /\ UNCHANGED <<pfds, conn, file, fd_count>>
  BY DEF NoInput, TypeQuit, TypeOther, NoPeer, EndPass, SlotIdle, EndOutput, TypeSelect,
         TypeRename, TypeText, OnlyControl, HasLine, AtStdin, AtServer, AtInput, AtSlot, AtOutput,
         pollVars, netVars
<1>3. \/ pc = "stdin" /\ pc' = "server"
      \/ pc = "server" /\ pc' = "client" /\ i' = 2
      \/ pc' = "poll"
      \/ pc = "client" /\ pc' = "out" /\ i' = i
      \/ pc = "out" /\ pc' = "client" /\ i' = i + 1
  BY DEF NoInput, TypeQuit, TypeOther, NoPeer, EndPass, SlotIdle, EndOutput, TypeSelect,
         TypeRename, TypeText, Goto, NextSlot, StartOutput, HasLine, AtStdin, AtServer, AtInput,
         AtSlot, AtOutput, MIN_CLIENT_SOCK
<1>4. Pending' \subseteq Pending
  BY <1>1, <1>2, <1>3 DEF Pending, ClientSlots, MIN_CLIENT_SOCK
<1> QED BY <1>2, <1>4, StillTrueQuiet

\* After the last step of a run nothing is looked at.
LEMMA EndTrue ==
  (\/ Exit \/ Terminated \/ TypeOverrun \/ TransmitKills
   \/ ConnectFails \/ AcceptFails \/ SlotError \/ ReceiveFails \/ TransmitFails)
  => ~Running'
BY DEF Exit, Terminated, TypeOverrun, TransmitKills, ConnectFails, AcceptFails, SlotError,
       ReceiveFails, TransmitFails, handle_error, Running, vars, exitVars

\* Every step keeps the snapshot true.
LEMMA SnapshotStep == IInv /\ ReportsStillTrue /\ [Next]_vars => ReportsStillTrue'
<1> SUFFICES ASSUME IInv, ReportsStillTrue, [Next]_vars PROVE ReportsStillTrue'
  OBVIOUS
<1>1. CASE UNCHANGED vars
  <2>1. UNCHANGED <<status, pc, i, fd_count, pfds, conn, file>>
    BY <1>1 DEF vars, exitVars, loopVars, pollVars, netVars
  <2>2. Pending' = Pending /\ Running' = Running
    BY <2>1 DEF Pending, ClientSlots, Running
  <2> QED BY <2>1, <2>2, StillTrueQuiet
<1>2. CASE \E c \in Conns : TypeConnect(c)
  BY <1>2, AddTrue DEF TypeConnect, HasLine, AtStdin, Goto
<1>3. CASE \E c \in Conns : accept_connection(c)
  BY <1>3, AddTrue DEF accept_connection, HasPeer, AtServer, Backlog, NextSlot, MIN_CLIENT_SOCK
<1>4. CASE \/ Exit \/ Terminated \/ TypeOverrun \/ TransmitKills
           \/ ConnectFails \/ AcceptFails \/ SlotError \/ ReceiveFails \/ TransmitFails
  BY <1>4, EndTrue DEF ReportsStillTrue
<1>5. CASE Peers
  BY <1>5, PeersTrue
<1>6. CASE Poll \/ SlotHangup \/ SlotEof \/ packet_receive \/ packet_transmit
  BY <1>6, PollTrue, LeaveTrue, SlotTrue
<1>7. CASE \/ NoInput \/ TypeQuit \/ TypeOther \/ NoPeer \/ EndPass \/ SlotIdle \/ EndOutput
           \/ \E n \in Names : TypeSelect(n) \/ TypeRename(n)
           \/ \E b \in Bodies : TypeText(b)
  BY <1>7, PassTrue
<1> QED BY <1>1, <1>2, <1>3, <1>4, <1>5, <1>6, <1>7 DEF Next, Pass, HandleInput

\* What poll reported stays true until it is used, whatever peers, new clients and
\* removals do in between.
THEOREM SnapshotTrue == Spec => []ReportsStillTrue
<1>1. Init => ReportsStillTrue
  BY DEF Init, ReportsStillTrue, Pending
<1> QED BY <1>1, SnapshotStep, AlwaysIInv, PTL DEF Spec

\* recv fails at a pending slot only, where the report is true.
LEMMA NeverEmptyStep ==
  IInv /\ ReportsStillTrue /\ NeverReadsEmpty /\ [Next]_vars => NeverReadsEmpty'
<1> SUFFICES ASSUME IInv, ReportsStillTrue, NeverReadsEmpty, [Next]_vars
             PROVE  NeverReadsEmpty'
  OBVIOUS
<1>1. CASE UNCHANGED error
  BY <1>1 DEF NeverReadsEmpty
<1>2. CASE ConnectFails \/ AcceptFails \/ SlotError \/ TransmitFails
  BY <1>2 DEF ConnectFails, AcceptFails, SlotError, TransmitFails, handle_error, NeverReadsEmpty
<1>3. CASE ReceiveFails
  <2>1. /\ AtSlot /\ Running /\ pc = "client" /\ "POLLIN" \in pfds[i].revents
        /\ Here.inbox = 0 /\ Here.peer \in {"up", "reset", "broken"}
    BY <1>3 DEF ReceiveFails, AtInput, AtSlot, Reports
  <2>2. i \in Pending
    BY <2>1 DEF AtSlot, Pending, IInv, TypeOK
  <2>3. Here.inbox > 0 \/ Here.peer \in {"shut"} \cup Down
    BY <2>1, <2>2 DEF ReportsStillTrue, Here
  <2>4. Here.peer # "up"
    BY <2>1, <2>3 DEF Down
  <2> QED BY <1>3, <2>4 DEF ReceiveFails, handle_error, NeverReadsEmpty
<1>4. UNCHANGED error \/ ConnectFails \/ AcceptFails \/ SlotError \/ TransmitFails \/ ReceiveFails
  BY Zenon DEF Next, Pass, HandleInput, Peers, Terminated, Poll, Exit, NoInput, TypeQuit, TypeOther,
         TypeOverrun, TransmitKills,
         TypeSelect, TypeRename, TypeText, TypeConnect, NoPeer, accept_connection, EndPass,
         SlotHangup, SlotIdle, packet_receive, SlotEof, packet_transmit, EndOutput, OnlyControl,
         PeerConnects, PeerGivesUp, PeerSends, PeerReads, PeerCloses, PeerHangsUp, PeerResets,
         Peer, vars, exitVars
<1> QED BY <1>1, <1>2, <1>3, <1>4

\* recv on a non-blocking socket never returns -1 for want of data, which
\* packet_receive would take for a failure and end the program.
THEOREM NeverEmpty == Spec => []NeverReadsEmpty
<1>1. Init => NeverReadsEmpty
  BY DEF Init, NeverReadsEmpty
<1> QED BY <1>1, NeverEmptyStep, SnapshotTrue, AlwaysIInv, PTL DEF Spec

-----------------------------------------------------------------------------
(* The unread marks.                                                       *)

\* The mark of one client; no more of its history was printed than there is.
Right(r) ==
    /\ r.unread_msg = 1 <=> r.printed < Len(r.history)
    /\ r.printed <= Len(r.history)

MarksInv ==
    \A c \in ClientSet : Right(client[c]) /\ (c = active_client => client[c].unread_msg = 0)

\* A client without a history is not marked, so history_print leaves none marked.
LEMMA PrintedRight ==
  ASSUME NEW r \in ClientType, Right(r)
  PROVE  Right(history_print(r)) /\ history_print(r).unread_msg = 0
<1>0. Len(r.history) \in Nat /\ r.printed \in Nat /\ r.unread_msg \in {0, 1}
  BY LenProperties DEF ClientType
<1>1. CASE r.history = <<>>
  <2>1. Len(r.history) = 0
    BY <1>1
  <2> QED BY <1>0, <1>1, <2>1 DEF Right, history_print
<1>2. CASE r.history # <<>>
  <2>1. history_print(r) = [r EXCEPT !.unread_msg = 0, !.printed = Len(r.history)]
    BY <1>2 DEF history_print
  <2>2. /\ history_print(r).unread_msg = 0 /\ history_print(r).printed = Len(r.history)
        /\ history_print(r).history = r.history
    BY <2>1 DEF ClientType
  <2> QED BY <1>0, <2>2 DEF Right
<1> QED BY <1>1, <1>2

\* A new entry: its client is printed, or marked and not active.
LEMMA InsertRight ==
  ASSUME IInv, MarksInv, NEW c \in ClientSet, NEW entry \in Entries, history_insert(c, entry)
  PROVE  MarksInv'
<1> DEFINE h == Prepended(client[c].history, entry)
           r == [client[c] EXCEPT !.history = h]
           p == history_print(r)
           u == [r EXCEPT !.unread_msg = 1]
           act == IF active_client = NoClient THEN c ELSE active_client
<1>1. /\ client \in [Cells -> ClientType] /\ c \in Cells /\ client[c] \in ClientType
      /\ ClientSet \subseteq Cells
  BY Listed DEF IInv, TypeOK
<1>2. /\ client[c].history \in Seq(Entries) /\ Len(client[c].history) \in Nat
      /\ client[c].printed \in Nat
  BY <1>1, LenProperties DEF ClientType
<1>3. h \in Seq(Entries) /\ Len(h) = Len(client[c].history) + 1 /\ h # <<>>
  <2>1. <<entry>> \in Seq(Entries) /\ Len(<<entry>>) = 1
    OBVIOUS
  <2>2. h \in Seq(Entries) /\ Len(h) = 1 + Len(client[c].history)
    BY <1>2, <2>1, ConcatProperties DEF Prepended
  <2>3. Len(h) # 0
    BY <1>2, <2>2
  <2>4. Len(<<>>) = 0
    OBVIOUS
  <2> QED BY <1>2, <2>2, <2>3, <2>4
<1>4. /\ active_client' = act /\ UNCHANGED client_list
      /\ client' = [client EXCEPT ![c] = IF r.username = client[act].username THEN p ELSE u]
  BY DEF history_insert
<1> HIDE DEF h
<1>5. /\ r \in ClientType /\ r.history = h /\ r.printed = client[c].printed
      /\ r.username = client[c].username /\ r.printed \in Nat
  BY <1>1, <1>3 DEF ClientType
<1> HIDE DEF r
<1>6. /\ p.unread_msg = 0 /\ p.printed = Len(h) /\ p.history = h
  BY <1>3, <1>5 DEF history_print, ClientType
<1>7. /\ u.unread_msg = 1 /\ u.printed = r.printed /\ u.history = h
  BY <1>5 DEF ClientType
<1>8. client[c].printed <= Len(client[c].history)
  BY DEF MarksInv, Right
<1>9. Right(p) /\ Right(u)
  BY <1>2, <1>3, <1>5, <1>6, <1>7, <1>8 DEF Right
<1> HIDE DEF p, u
<1>10. act # c \/ r.username = client[act].username
  BY <1>5
<1>11. \A d \in ClientSet : d # c => client'[d] = client[d]
  BY <1>1, <1>4
<1>12. client'[c] = IF r.username = client[act].username THEN p ELSE u
  BY <1>1, <1>4
<1>13. ASSUME NEW d \in ClientSet
       PROVE  Right(client'[d]) /\ (d = active_client' => client'[d].unread_msg = 0)
  <2>1. CASE d = c
    BY <1>4, <1>6, <1>9, <1>10, <1>12, <2>1 DEF p
  <2>2. CASE d # c
    <3>1. Right(client[d]) /\ (d = active_client => client[d].unread_msg = 0)
      BY DEF MarksInv
    <3>2. d = act => d = active_client
      BY <2>2
    <3> QED BY <1>4, <1>11, <2>2, <3>1, <3>2
  <2> QED BY <2>1, <2>2
<1> QED BY <1>4, <1>13 DEF MarksInv, ClientSet

\* One client of the list is printed and may become the active one.
LEMMA PrintKeeps ==
  ASSUME NEW cl, cl \in [Cells -> ClientType], NEW who \in ClientSet', ClientSet' \subseteq Cells,
         \A c \in ClientSet' : Right(cl[c]) /\ (c = active_client => cl[c].unread_msg = 0),
         active_client' \in {active_client, who},
         client' = [cl EXCEPT ![who] = history_print(cl[who])]
  PROVE  MarksInv'
<1>1. /\ \A c \in Cells : c # who => client'[c] = cl[c]
      /\ client'[who] = history_print(cl[who])
  OBVIOUS
<1>2. Right(history_print(cl[who])) /\ history_print(cl[who]).unread_msg = 0
  BY PrintedRight
<1> QED BY <1>1, <1>2 DEF MarksInv

\* A client joins, unmarked and with nothing to print.
LEMMA AddRight ==
  ASSUME IInv, MarksInv, NEW c \in Conns, conn[c].peer \in {"idle", "knocking"}, FreeFds # {},
         conn' = [conn EXCEPT ![c].peer = "up"], AddClient(c)
  PROVE  MarksInv'
<1>1. /\ client \in [Cells -> ClientType] /\ client_list \in Seq(Cells)
      /\ ClientSet \subseteq Cells /\ NewFd \in Fds
  BY Listed, NewFdFree DEF IInv, TypeOK, FreeFds
<1>2. PICK cell \in Cells \ ClientSet :
          LET cl   == [client EXCEPT ![cell] = [FreedClient EXCEPT
                         !.socket = NewFd, !.username = DefaultName[NewFd]]]
              list == Append(client_list, cell)
              who  == FirstNamed(list, cl, DefaultName[NewFd])
          IN  /\ client_list' = list
              /\ IF active_client = NoClient
                 THEN /\ active_client' = who
                      /\ client' = [cl EXCEPT ![who] = history_print(@)]
                 ELSE client' = cl /\ UNCHANGED active_client
  BY DEF AddClient
<1> DEFINE new  == [FreedClient EXCEPT !.socket = NewFd, !.username = DefaultName[NewFd]]
           cl   == [client EXCEPT ![cell] = new]
           list == Append(client_list, cell)
           who  == FirstNamed(list, cl, DefaultName[NewFd])
<1>3. new \in ClientType /\ new.unread_msg = 0 /\ new.printed = 0 /\ Len(new.history) = 0
  <2>1. DefaultName[NewFd] \in Names
    BY <1>1, EventLoopAssumption
  <2>2. new \in ClientType
    BY <1>1, <2>1, FreedClientType DEF ClientType
  <2>3. new.unread_msg = 0 /\ new.printed = 0 /\ new.history = <<>>
    BY DEF FreedClient
  <2> QED BY <2>2, <2>3
<1> HIDE DEF new
<1>4. cl \in [Cells -> ClientType]
  BY <1>1, <1>3
<1>5. list \in Seq(Cells) /\ ToSet(list) = ClientSet \cup {cell} /\ ToSet(list) \subseteq Cells
  BY <1>1, ToSetAppend, AppendProperties DEF ClientSet
<1>6. who \in ToSet(list) \cup {NoClient}
  BY <1>5, FirstNamedListed
<1>7. \A d \in Cells : cl[d] = IF d = cell THEN new ELSE client[d]
  BY <1>1
<1>8. Right(new)
  BY <1>3 DEF Right
<1>9. \A d \in ToSet(list) : Right(cl[d]) /\ (d = active_client => cl[d].unread_msg = 0)
  BY <1>1, <1>3, <1>5, <1>7, <1>8 DEF MarksInv
<1>10. client_list' = list /\ ClientSet' = ToSet(list)
  BY <1>2 DEF ClientSet
<1>11. CASE active_client = NoClient
  <2>1. active_client' = who /\ client' = [cl EXCEPT ![who] = history_print(cl[who])]
    BY <1>2, <1>11 DEF new
  <2>2. CASE who = NoClient
    <3>1. client' = cl
      BY <1>4, <2>1, <2>2, EventLoopAssumption
    <3>2. active_client' = active_client
      BY <1>11, <2>1, <2>2
    <3> HIDE DEF cl, list, who
    <3> QED BY <1>9, <1>10, <3>1, <3>2 DEF MarksInv
  <2>3. CASE who # NoClient
    <3>1. who \in ClientSet' /\ ClientSet' \subseteq Cells
      BY <1>5, <1>6, <1>10, <2>3
    <3> HIDE DEF cl, list, who
    <3>2. \A d \in ClientSet' : Right(cl[d]) /\ (d = active_client => cl[d].unread_msg = 0)
      BY <1>9, <1>10
    <3> QED BY <1>4, <2>1, <3>1, <3>2, PrintKeeps
  <2> QED BY <2>2, <2>3
<1>12. CASE active_client # NoClient
  <2>1. client' = cl /\ active_client' = active_client
    BY <1>2, <1>12 DEF new
  <2> HIDE DEF cl, list, who
  <2> QED BY <1>9, <1>10, <2>1 DEF MarksInv
<1> QED BY <1>11, <1>12

\* A client leaves; the others are as they were.
LEMMA LeaveRight ==
  ASSUME IInv, MarksInv, NEW k \in ClientSlots, client_disconnect(k)
  PROVE  MarksInv'
<1> DEFINE f == pfds[k].fd
           p == Position(f)
           c == ClientOf(f)
<1>1. /\ active_client' \in {active_client, NoClient}
      /\ client_list' = RemoveAt(client_list, p)
      /\ client' = [client EXCEPT ![c] = FreedClient]
  BY DEF client_disconnect, UnsetActive
<1>2. /\ client \in [Cells -> ClientType] /\ client_list \in Seq(Cells)
      /\ ClientSet \subseteq Cells /\ c = client_list[p] /\ p \in 1 .. Len(client_list)
  BY Listed, SlotListed DEF IInv, TypeOK, ClientOf
<1> HIDE DEF p, c
<1>3. ClientSet' = ClientSet \ {c}
  <2>1. \A j, l \in 1 .. Len(client_list) : client_list[j] = client_list[l] => j = l
    BY Listed
  <2> QED BY <1>1, <1>2, <2>1, ToSetRemoveAt DEF ClientSet
<1>4. \A d \in ClientSet' : d \in ClientSet /\ client'[d] = client[d] /\ d # NoClient
  BY <1>1, <1>2, <1>3, EventLoopAssumption
<1> QED BY <1>1, <1>4 DEF MarksInv

\* set_active_client prints; a rename changes names only.
LEMMA TypedRight ==
  ASSUME IInv, MarksInv, NEW n \in Names, TypeSelect(n) \/ TypeRename(n)
  PROVE  MarksInv'
<1>1. /\ client \in [Cells -> ClientType] /\ client_list \in Seq(Cells)
      /\ ClientSet \subseteq Cells
  BY Listed DEF IInv, TypeOK
<1>2. CASE TypeSelect(n)
  <2> DEFINE who == FirstNamed(client_list, client, n)
  <2>1. who \in ClientSet \cup {NoClient}
    BY <1>1, FirstNamedListed DEF ClientSet
  <2>2. CASE who = NoClient
    BY <1>2, <2>2 DEF TypeSelect, clientVars, MarksInv, ClientSet
  <2>3. CASE who # NoClient
    <3>1. /\ active_client' = who /\ UNCHANGED client_list
          /\ client' = [client EXCEPT ![who] = history_print(client[who])]
      BY <1>2, <2>3 DEF TypeSelect
    <3> HIDE DEF who
    <3>2. who \in ClientSet' /\ ClientSet' \subseteq Cells /\ ClientSet' = ClientSet
      BY <1>1, <2>1, <2>3, <3>1 DEF ClientSet
    <3> QED BY <1>1, <3>1, <3>2, PrintKeeps DEF MarksInv
  <2> QED BY <2>2, <2>3
<1>3. CASE TypeRename(n)
  <2>1. /\ UNCHANGED <<client_list, active_client>> /\ ClientSet' = ClientSet
        /\ client' = client \/ client' = [client EXCEPT ![active_client].username = n]
    BY <1>3 DEF TypeRename, ClientSet
  <2>2. ASSUME NEW d \in Cells
        PROVE  /\ client'[d].unread_msg = client[d].unread_msg
               /\ client'[d].printed = client[d].printed
               /\ client'[d].history = client[d].history
    <3>1. client'[d] = client[d] \/ client'[d] = [client[d] EXCEPT !.username = n]
      BY <1>1, <2>1
    <3>2. client[d] \in ClientType
      BY <1>1
    <3> QED BY <3>1, <3>2 DEF ClientType
  <2> QED BY <1>1, <2>1, <2>2 DEF MarksInv, Right
<1> QED BY <1>2, <1>3

\* The entry that packet_transmit adds: the message is one that was typed.
LEMMA DueEntry ==
  ASSUME IInv, HasDue
  PROVE  /\ message_queue[NextDue].id \in DOMAIN made
         /\ made[message_queue[NextDue].id].to \in Conns
         /\ [conn |-> made[message_queue[NextDue].id].to,
             id   |-> message_queue[NextDue].id] \in Entries
<1> DEFINE m == message_queue[NextDue]
<1>1. /\ message_queue \in Seq([id : Nat, client : Cells, body : Bodies])
      /\ made \in Seq([body : Bodies, to : Conns]) /\ QueuedMade
  BY DEF IInv, TypeOK
<1>2. m \in [id : Nat, client : Cells, body : Bodies] /\ NextDue \in DOMAIN message_queue
  BY <1>1, DueListed, ElementOfSeq, LenProperties
<1>3. m.id \in DOMAIN made
  BY <1>1, <1>2 DEF QueuedMade
<1>4. made[m.id] \in [body : Bodies, to : Conns]
  BY <1>1, <1>3, ElementOfSeq, LenProperties
<1> QED BY <1>2, <1>3, <1>4 DEF Entries

\* Every step keeps the marks right.
LEMMA MarksStep == IInv /\ MarksInv /\ [Next]_vars => MarksInv'
<1> SUFFICES ASSUME IInv, MarksInv, [Next]_vars PROVE MarksInv'
  OBVIOUS
<1>1. CASE UNCHANGED <<client_list, client>> /\ active_client' \in {active_client, Wild}
  <2>1. Wild \notin ClientSet
    BY Listed, EventLoopAssumption
  <2> QED BY <1>1, <2>1 DEF MarksInv, ClientSet
<1>2. ASSUME NEW n \in Names, TypeSelect(n) \/ TypeRename(n) PROVE MarksInv'
  BY <1>2, TypedRight
<1>3. ASSUME NEW c \in Conns, TypeConnect(c) \/ accept_connection(c) PROVE MarksInv'
  BY <1>3, AddRight DEF TypeConnect, accept_connection, Backlog, HasLine
<1>4. CASE SlotHangup \/ SlotEof
  BY <1>4, AtClient, LeaveRight DEF SlotHangup, SlotEof, AtInput
<1>5. CASE packet_receive
  <2>1. AtSlot /\ history_insert(ClientOf(pfds[i].fd), [conn |-> file[pfds[i].fd], id |-> 0])
    BY <1>5 DEF packet_receive, AtInput
  <2>2. ClientOf(pfds[i].fd) \in ClientSet /\ file[pfds[i].fd] \in Conns
    BY <2>1, AtClient, SlotListed
  <2>3. [conn |-> file[pfds[i].fd], id |-> 0] \in Entries
    BY <2>2 DEF Entries
  <2> QED BY <2>1, <2>2, <2>3, InsertRight
<1>6. CASE packet_transmit
  <2> DEFINE m == message_queue[NextDue]
  <2>1. HasDue /\ history_insert(m.client, [conn |-> made[m.id].to, id |-> m.id])
    BY <1>6 DEF packet_transmit
  <2>2. NextDue \in 1 .. Len(message_queue) /\ m.client \in ClientSet
    BY <2>1, DueListed
  <2>3. [conn |-> made[m.id].to, id |-> m.id] \in Entries
    BY <2>1, DueEntry
  <2> HIDE DEF m
  <2> QED BY <2>1, <2>2, <2>3, InsertRight
<1>7. \/ UNCHANGED <<client_list, client>> /\ active_client' \in {active_client, Wild}
      \/ \E n \in Names : TypeSelect(n) \/ TypeRename(n)
      \/ \E c \in Conns : TypeConnect(c) \/ accept_connection(c)
      \/ SlotHangup \/ SlotEof \/ packet_receive \/ packet_transmit
  BY DEF Next, Pass, HandleInput, Peers, Terminated, Poll, Exit, NoInput, TypeQuit, TypeOther,
         TypeOverrun, TransmitKills,
         TypeText, ConnectFails, NoPeer, AcceptFails, EndPass, SlotError, SlotIdle, ReceiveFails,
         TransmitFails, EndOutput, OnlyControl, handle_error, Peer,
         PeerConnects, PeerGivesUp, PeerSends, PeerReads, PeerCloses, PeerHangsUp, PeerResets,
         vars, clientVars
<1> QED BY <1>1, <1>2, <1>3, <1>4, <1>5, <1>6, <1>7

\* A client is marked exactly while part of its history was never shown, and the active
\* one never is.
THEOREM MarksCorrect == Spec => []NothingMissed
<1>1. Init => MarksInv
  BY DEF Init, MarksInv, ClientSet, ToSet
<1>2. MarksInv => NothingMissed
  BY DEF MarksInv, Right, NothingMissed
<1> QED BY <1>1, <1>2, MarksStep, AlwaysIInv, PTL DEF Spec

-----------------------------------------------------------------------------
(* What becomes of connections and clients in one step.                    *)

\* A connection that is not made yet.
Unmade(s) == s.peer \in {"idle", "knocking"}

\* A connection is given up for good, and by a peer that leaves the backlog or by
\* the removal of its client only.
LEMMA PeerMoves ==
  ASSUME IInv, [Next]_vars, NEW c \in Conns
  PROVE  \/ conn'[c].peer = conn[c].peer
         \/ /\ conn[c].peer # "gone" /\ conn'[c].peer # "gone"
            /\ Unmade(conn'[c]) => Unmade(conn[c])
         \/ conn[c].peer = "knocking"
         \/ (SlotHangup \/ SlotEof) /\ c = file[pfds[i].fd] /\ conn[c].peer # "gone"
            /\ conn'[c].peer = "gone"
<1> USE DEF Unmade
<1>1. conn \in [Conns -> ConnType]
  BY DEF IInv, TypeOK
<1>2. CASE UNCHANGED conn
  BY <1>2
<1>3. CASE Peers
  <2>1. PICK d \in Conns :
           \/ PeerConnects(d) \/ PeerGivesUp(d) \/ PeerSends(d) \/ PeerReads(d)
           \/ PeerCloses(d) \/ PeerHangsUp(d) \/ PeerResets(d)
    BY <1>3 DEF Peers
  <2>2. ASSUME NEW from, NEW to, Peer(d, from, to), "gone" \notin from
        PROVE  \/ conn'[c].peer = conn[c].peer
               \/ c = d /\ conn[c].peer \in from /\ conn[c].peer # "gone" /\ conn'[c].peer = to
    BY <1>1, <2>2 DEF Peer, ConnType
  <2>3. CASE PeerGivesUp(d)
    BY <2>2, <2>3 DEF PeerGivesUp
  <2>4. CASE PeerConnects(d)
    BY <2>2, <2>4 DEF PeerConnects
  <2>5. CASE PeerCloses(d) \/ PeerHangsUp(d) \/ PeerResets(d)
    BY <2>2, <2>5 DEF PeerCloses, PeerHangsUp, PeerResets
  <2>6. CASE PeerSends(d) \/ PeerReads(d)
    BY <1>1, <2>6 DEF PeerSends, PeerReads, ConnType
  <2> QED BY <2>1, <2>3, <2>4, <2>5, <2>6
<1>4. CASE \E d \in Conns : TypeConnect(d) \/ accept_connection(d)
  <2>1. PICK d \in Conns : conn' = [conn EXCEPT ![d].peer = "up"]
                           /\ conn[d].peer \in {"idle", "knocking"}
    BY <1>4 DEF TypeConnect, accept_connection, Backlog
  <2> QED BY <1>1, <2>1 DEF ConnType
<1>5. CASE SlotHangup \/ SlotEof
  <2>1. AtSlot /\ conn' = [conn EXCEPT ![file[pfds[i].fd]] = Gone]
    BY <1>5 DEF SlotHangup, SlotEof, AtInput, client_disconnect
  <2>2. pfds[i].fd \in Fds /\ file[pfds[i].fd] \in Conns
    BY <2>1, AtClient, SlotListed
  <2>3. conn[file[pfds[i].fd]].peer # "gone"
    BY <2>2, EventLoopAssumption DEF IInv, OpenIsLive, Down
  <2>4. IF c = file[pfds[i].fd] THEN conn'[c].peer = "gone" ELSE conn'[c] = conn[c]
    BY <1>1, <2>1 DEF Gone
  <2> QED BY <1>5, <2>3, <2>4
<1>6. CASE packet_receive \/ packet_transmit
  <2> DEFINE f == file[pfds[i].fd]
  <2>1. \/ conn' = [conn EXCEPT ![f].inbox = @ - 1]
        \/ conn' = [conn EXCEPT ![f].room = @ - 1]
    BY <1>6 DEF packet_receive, packet_transmit
  <2> HIDE DEF f
  <2> QED BY <1>1, <2>1 DEF ConnType
<1>7. \/ UNCHANGED conn \/ Peers
      \/ \E d \in Conns : TypeConnect(d) \/ accept_connection(d)
      \/ SlotHangup \/ SlotEof \/ packet_receive \/ packet_transmit
  BY DEF Next, Pass, HandleInput, Terminated, Poll, Exit, NoInput, TypeQuit, TypeOther,
         TypeOverrun, TransmitKills,
         TypeSelect, TypeRename, TypeText, ConnectFails, NoPeer, AcceptFails, EndPass, SlotError,
         SlotIdle, ReceiveFails, TransmitFails, EndOutput, OnlyControl, handle_error, vars, netVars
<1> QED BY <1>2, <1>3, <1>4, <1>5, <1>6, <1>7

\* A hangup or an end of file that the pass sees is one that is still there.
LEMMA DropStep ==
  ASSUME IInv, ReportsStillTrue, [Next]_vars, NEW c \in Conns, conn'[c].peer = "gone"
  PROVE  \/ conn[c].peer \in {"gone", "knocking"} \cup Down
         \/ conn[c].peer = "shut" /\ conn[c].inbox = 0
<1>1. CASE SlotHangup /\ c = file[pfds[i].fd]
  <2>1. AtSlot /\ Running /\ pc = "client" /\ "POLLHUP" \in pfds[i].revents
    BY <1>1 DEF SlotHangup, AtSlot, Reports
  <2>2. i \in Pending
    BY <2>1 DEF AtSlot, Pending, IInv, TypeOK
  <2>3. conn[file[pfds[i].fd]].peer \in Down
    BY <2>1, <2>2 DEF ReportsStillTrue
  <2> QED BY <1>1, <2>3
<1>2. CASE SlotEof /\ c = file[pfds[i].fd]
  BY <1>2 DEF SlotEof, Here, Down
<1> QED BY <1>1, <1>2, PeerMoves

\* Only clients whose peer has left are removed, and those that closed are read to
\* the end first.
THEOREM DroppedCorrect == Spec => DroppedOnlyWhenGone
<1>1. IInv /\ ReportsStillTrue /\ [Next]_vars =>
        \A c \in Conns :
          conn'[c].peer = "gone" =>
              \/ conn[c].peer \in {"gone", "knocking"} \cup Down
              \/ conn[c].peer = "shut" /\ conn[c].inbox = 0
  BY DropStep
<1> QED BY <1>1, AlwaysIInv, SnapshotTrue, PTL DEF Spec, DroppedOnlyWhenGone

-----------------------------------------------------------------------------
(* Where a message may end up.                                             *)

\* A client keeps its connection, or its connection is given up.
Followed(d) ==
    \/ d \in ClientSet' /\ file'[client'[d].socket] = file[client[d].socket]
    \/ conn'[file[client[d].socket]].peer = "gone"

\* A client of the next state is an old one with its connection, or a new one with
\* a connection that was not made before.
Came(d) ==
    \/ d \in ClientSet /\ file'[client'[d].socket] = file[client[d].socket]
    \/ Unmade(conn[file'[client'[d].socket]])

\* A new client takes a cell, a descriptor and a connection of its own.
LEMMA AddFollowed ==
  ASSUME IInv, NEW c \in Conns, Unmade(conn[c]), FreeFds # {}, AddClient(c)
  PROVE  (\A d \in ClientSet : Followed(d)) /\ (\A d \in ClientSet' : Came(d))
<1>1. /\ client \in [Cells -> ClientType] /\ client_list \in Seq(Cells)
      /\ ClientSet \subseteq Cells /\ file \in [Fds -> Conns \cup {NoConn}]
      /\ \A d \in ClientSet : client[d].socket \in Fds /\ file[client[d].socket] \in Conns
  BY Listed DEF IInv, TypeOK, SocketOf
<1>2. NewFd \in Fds /\ file[NewFd] = NoConn /\ DefaultName[NewFd] \in Names
  BY NewFdFree, EventLoopAssumption DEF FreeFds
<1>3. PICK cell \in Cells \ ClientSet :
          LET cl   == [client EXCEPT ![cell] = [FreedClient EXCEPT
                         !.socket = NewFd, !.username = DefaultName[NewFd]]]
              list == Append(client_list, cell)
              who  == FirstNamed(list, cl, DefaultName[NewFd])
          IN  /\ client_list' = list
              /\ file' = [file EXCEPT ![NewFd] = c]
              /\ client' = cl \/ client' = [cl EXCEPT ![who] = history_print(cl[who])]
  BY DEF AddClient
<1> DEFINE new  == [FreedClient EXCEPT !.socket = NewFd, !.username = DefaultName[NewFd]]
           cl   == [client EXCEPT ![cell] = new]
           list == Append(client_list, cell)
           who  == FirstNamed(list, cl, DefaultName[NewFd])
<1>4. new \in ClientType /\ new.socket = NewFd
  BY <1>2, FreedClientType DEF ClientType
<1> HIDE DEF new
<1>5. cl \in [Cells -> ClientType] /\ \A d \in Cells : cl[d] = IF d = cell THEN new ELSE client[d]
  BY <1>1, <1>3, <1>4
<1>6. client' = cl \/ client' = [cl EXCEPT ![who] = history_print(cl[who])]
  BY <1>3 DEF new
<1> HIDE DEF cl, who
<1>7. \A d \in Cells : client'[d].socket = IF d = cell THEN NewFd ELSE client[d].socket
  <2>1. \A d \in Cells : history_print(cl[d]).socket = cl[d].socket
    BY <1>5, PrintedType
  <2>2. \A d \in Cells : client'[d].socket = cl[d].socket
    BY <1>5, <1>6, <2>1
  <2> QED BY <1>4, <1>5, <2>2
<1>8. ClientSet' = ClientSet \cup {cell}
  BY <1>1, <1>3, ToSetAppend DEF ClientSet
<1>9. ASSUME NEW d \in ClientSet
      PROVE  d # cell /\ file'[client'[d].socket] = file[client[d].socket]
  BY <1>1, <1>2, <1>3, <1>7, EventLoopAssumption
<1>10. file'[client'[cell].socket] = c
  BY <1>1, <1>2, <1>3, <1>7
<1> QED BY <1>8, <1>9, <1>10 DEF Followed, Came

\* The connection of a client that leaves is given up; the others keep theirs.
LEMMA LeaveFollowed ==
  ASSUME IInv, NEW k \in ClientSlots, client_disconnect(k)
  PROVE  (\A d \in ClientSet : Followed(d)) /\ (\A d \in ClientSet' : Came(d))
<1> DEFINE f == pfds[k].fd
           p == Position(f)
           c == ClientOf(f)
<1>1. /\ client_list' = RemoveAt(client_list, p)
      /\ client' = [client EXCEPT ![c] = FreedClient]
      /\ conn' = [conn EXCEPT ![file[f]] = Gone]
      /\ file' = [file EXCEPT ![f] = NoConn]
  BY DEF client_disconnect
<1>2. /\ client \in [Cells -> ClientType] /\ client_list \in Seq(Cells)
      /\ ClientSet \subseteq Cells /\ c = client_list[p] /\ p \in 1 .. Len(client_list)
      /\ c \in ClientSet /\ client[c].socket = f /\ file[f] \in Conns
      /\ conn \in [Conns -> ConnType] /\ file \in [Fds -> Conns \cup {NoConn}]
      /\ \A d \in ClientSet : client[d].socket \in Fds
  BY Listed, SlotListed DEF IInv, TypeOK, ClientOf, SocketOf
<1>3. \A d \in ClientSet : d # c => client[d].socket # f
  BY <1>2, Listed DEF SocketOf
<1> HIDE DEF f, p, c
<1>4. ClientSet' = ClientSet \ {c}
  <2>1. \A j, l \in 1 .. Len(client_list) : client_list[j] = client_list[l] => j = l
    BY Listed
  <2> QED BY <1>1, <1>2, <2>1, ToSetRemoveAt DEF ClientSet
<1>5. Followed(c)
  BY <1>1, <1>2 DEF Followed, Gone
<1>6. ASSUME NEW d \in ClientSet, d # c
      PROVE  d \in ClientSet' /\ file'[client'[d].socket] = file[client[d].socket]
  BY <1>1, <1>2, <1>3, <1>4, <1>6
<1> QED BY <1>4, <1>5, <1>6 DEF Followed, Came

\* Every step follows the clients.
LEMMA ClientsFollowed ==
  ASSUME IInv, [Next]_vars
  PROVE  (\A d \in ClientSet : Followed(d)) /\ (\A d \in ClientSet' : Came(d))
<1> DEFINE Goal == (\A d \in ClientSet : Followed(d)) /\ (\A d \in ClientSet' : Came(d))
<1>1. /\ client \in [Cells -> ClientType] /\ client_list \in Seq(Cells)
      /\ ClientSet \subseteq Cells
  BY Listed DEF IInv, TypeOK
<1>2. ASSUME UNCHANGED <<client_list, file>>,
             \A e \in Cells : client'[e].socket = client[e].socket
      PROVE  Goal
  BY <1>1, <1>2 DEF Followed, Came, ClientSet
<1>3. CASE UNCHANGED <<client_list, client, file>>
  BY <1>2, <1>3
<1>4. ASSUME NEW n \in Names, TypeSelect(n) PROVE Goal
  <2> DEFINE who == FirstNamed(client_list, client, n)
  <2>1. /\ UNCHANGED <<client_list, file>>
        /\ client' = client \/ client' = [client EXCEPT ![who] = history_print(client[who])]
    BY <1>4 DEF TypeSelect, clientVars, netVars
  <2> HIDE DEF who
  <2>2. \A e \in Cells : history_print(client[e]).socket = client[e].socket
    BY <1>1, PrintedType
  <2>3. \A e \in Cells : client'[e].socket = client[e].socket
    BY <1>1, <2>1, <2>2
  <2> QED BY <1>2, <2>1, <2>3
<1>5. ASSUME NEW n \in Names, TypeRename(n) PROVE Goal
  <2>1. /\ UNCHANGED <<client_list, file>>
        /\ client' = client \/ client' = [client EXCEPT ![active_client].username = n]
    BY <1>5 DEF TypeRename, netVars
  <2>2. ASSUME NEW e \in Cells PROVE client'[e].socket = client[e].socket
    <3>1. client[e] \in ClientType /\ DOMAIN client = Cells
      BY <1>1
    <3>2. CASE client' = client
      BY <3>2
    <3>3. CASE client' = [client EXCEPT ![active_client].username = n]
      <4>1. client'[e] = IF e = active_client THEN [client[e] EXCEPT !.username = n] ELSE client[e]
        BY <3>1, <3>3
      <4>2. [client[e] EXCEPT !.username = n].socket = client[e].socket
        BY <3>1 DEF ClientType
      <4> QED BY <4>1, <4>2
    <3> QED BY <2>1, <3>2, <3>3
  <2> QED BY <1>2, <2>1, <2>2
<1>6. ASSUME NEW c \in Conns, TypeConnect(c) \/ accept_connection(c) PROVE Goal
  BY <1>6, AddFollowed DEF TypeConnect, accept_connection, Backlog, Unmade
<1>7. CASE SlotHangup \/ SlotEof
  BY <1>7, AtClient, LeaveFollowed DEF SlotHangup, SlotEof, AtInput
<1>8. CASE packet_receive
  <2>1. /\ AtSlot /\ history_insert(ClientOf(pfds[i].fd), [conn |-> file[pfds[i].fd], id |-> 0])
        /\ file' = file
    BY <1>8 DEF packet_receive, AtInput
  <2>2. ClientOf(pfds[i].fd) \in ClientSet /\ file[pfds[i].fd] \in Conns
    BY <2>1, AtClient, SlotListed
  <2>3. [conn |-> file[pfds[i].fd], id |-> 0] \in Entries
    BY <2>2 DEF Entries
  <2>4. client_list' = client_list /\ \A e \in Cells : client'[e].socket = client[e].socket
    BY <2>1, <2>2, <2>3, InsertKeeps DEF AtSlot
  <2> QED BY <1>2, <2>1, <2>4
<1>9. CASE packet_transmit
  <2> DEFINE m == message_queue[NextDue]
  <2>1. HasDue /\ history_insert(m.client, [conn |-> made[m.id].to, id |-> m.id]) /\ file' = file
    BY <1>9 DEF packet_transmit
  <2>2. m.client \in ClientSet /\ [conn |-> made[m.id].to, id |-> m.id] \in Entries
    BY <2>1, DueListed, DueEntry
  <2> HIDE DEF m
  <2>3. client_list' = client_list /\ \A e \in Cells : client'[e].socket = client[e].socket
    BY <2>1, <2>2, InsertKeeps DEF HasDue, AtOutput
  <2> QED BY <1>2, <2>1, <2>3
<1>10. \/ UNCHANGED <<client_list, client, file>>
       \/ \E n \in Names : TypeSelect(n) \/ TypeRename(n)
       \/ \E c \in Conns : TypeConnect(c) \/ accept_connection(c)
       \/ SlotHangup \/ SlotEof \/ packet_receive \/ packet_transmit
  BY DEF Next, Pass, HandleInput, Peers, Terminated, Poll, Exit, NoInput, TypeQuit, TypeOther,
         TypeOverrun, TransmitKills,
         TypeText, ConnectFails, NoPeer, AcceptFails, EndPass, SlotError, SlotIdle, ReceiveFails,
         TransmitFails, EndOutput, OnlyControl, handle_error, Peer, netVars,
         PeerConnects, PeerGivesUp, PeerSends, PeerReads, PeerCloses, PeerHangsUp, PeerResets,
         vars, clientVars
<1> QED BY <1>3, <1>4, <1>5, <1>6, <1>7, <1>8, <1>9, <1>10

\* A connection is gone, or still the one of cell d.
Aims(to, d) ==
    conn[to].peer = "gone" \/ (d \in ClientSet /\ to = file[client[d].socket])

\* So a cell that is aimed at the right connection stays so, or the connection is gone.
LEMMA AimsKept ==
  ASSUME IInv, [Next]_vars, NEW to \in Conns, NEW d \in Cells,
         conn[to].peer = "gone" \/ (d \in ClientSet /\ to = file[client[d].socket])
  PROVE  conn'[to].peer = "gone" \/ (d \in ClientSet' /\ to = file'[client'[d].socket])
<1>1. CASE conn[to].peer = "gone"
  BY <1>1, PeerMoves
<1>2. CASE d \in ClientSet /\ to = file[client[d].socket]
  BY <1>2, ClientsFollowed DEF Followed
<1> QED BY <1>1, <1>2

SentMade == \A c \in Conns : \A k \in DOMAIN wire[c] : wire[c][k] \in DOMAIN made

QueuedAims ==
    \A k \in DOMAIN message_queue :
        Aims(made[message_queue[k].id].to, message_queue[k].client)

\* A message was typed for a connection.
LEMMA MadeFor ==
  ASSUME IInv, NEW id \in DOMAIN made
  PROVE  made[id].to \in Conns
<1>1. made \in Seq([body : Bodies, to : Conns])
  BY DEF IInv, TypeOK
<1>2. made[id] \in [body : Bodies, to : Conns]
  BY <1>1, ElementOfSeq, LenProperties
<1> QED BY <1>2

\* What waits in the queue: a typed message, for a cell.
LEMMA QueuedRight ==
  ASSUME IInv, NEW k \in DOMAIN message_queue
  PROVE  /\ message_queue[k].id \in DOMAIN made /\ message_queue[k].client \in Cells
         /\ made[message_queue[k].id].to \in Conns
<1>1. message_queue \in Seq([id : Nat, client : Cells, body : Bodies]) /\ QueuedMade
  BY DEF IInv, TypeOK
<1>2. message_queue[k] \in [id : Nat, client : Cells, body : Bodies]
  BY <1>1, ElementOfSeq, LenProperties
<1> QED BY <1>1, <1>2, MadeFor DEF QueuedMade

\* Steps that neither type nor send.
LEMMA AimsQuiet ==
  ASSUME IInv, SentMade, QueuedAims, RightPeerUnlessGone, [Next]_vars, UNCHANGED queueVars
  PROVE  SentMade' /\ QueuedAims' /\ RightPeerUnlessGone'
<1>1. message_queue' = message_queue /\ made' = made /\ wire' = wire
  BY DEF queueVars
<1>3. SentMade'
  BY <1>1 DEF SentMade
<1>4. ASSUME NEW k \in DOMAIN message_queue
      PROVE  Aims(made[message_queue[k].id].to, message_queue[k].client)'
  <2>1. Aims(made[message_queue[k].id].to, message_queue[k].client)
    BY DEF QueuedAims
  <2> QED BY <1>1, <2>1, QueuedRight, AimsKept DEF Aims
<1>5. QueuedAims'
  BY <1>1, <1>4 DEF QueuedAims
<1>6. ASSUME NEW c \in Conns, NEW k \in DOMAIN wire[c]
      PROVE  made[wire[c][k]].to = c \/ conn'[made[wire[c][k]].to].peer = "gone"
  <2>1. made[wire[c][k]].to \in Conns
    BY MadeFor DEF SentMade
  <2>2. made[wire[c][k]].to = c \/ conn[made[wire[c][k]].to].peer = "gone"
    BY DEF RightPeerUnlessGone
  <2> QED BY <2>1, <2>2, PeerMoves
<1>7. RightPeerUnlessGone'
  BY <1>1, <1>6 DEF RightPeerUnlessGone
<1> QED BY <1>3, <1>5, <1>7

\* A line of text is queued for the connection of the active client.
LEMMA AimsTyped ==
  ASSUME IInv, SentMade, QueuedAims, RightPeerUnlessGone, NEW b \in Bodies, TypeText(b),
         active_client # NoClient
  PROVE  SentMade' /\ QueuedAims' /\ RightPeerUnlessGone'
<1> DEFINE new == [id |-> Len(made) + 1, client |-> active_client, body |-> b]
           log == [body |-> b, to |-> file[SocketOf(active_client)]]
<1>1. /\ message_queue' = Append(message_queue, new) /\ made' = Append(made, log)
      /\ wire' = wire /\ UNCHANGED <<clientVars, conn, file>>
  BY DEF TypeText, netVars
<1>2. /\ message_queue \in Seq([id : Nat, client : Cells, body : Bodies])
      /\ made \in Seq([body : Bodies, to : Conns]) /\ wire \in [Conns -> Seq(Nat)]
  BY DEF IInv, TypeOK
<1>3. /\ active_client \in ClientSet /\ active_client \in Cells
      /\ file[client[active_client].socket] \in Conns
  BY Listed, PointersHold DEF TypeText, HasLine, AtStdin, SocketOf
<1>4. Len(made) \in Nat /\ DOMAIN made = 1 .. Len(made)
  BY <1>2, LenProperties
<1>5. new \in [id : Nat, client : Cells, body : Bodies] /\ log \in [body : Bodies, to : Conns]
  BY <1>3, <1>4 DEF SocketOf
<1>6. /\ new.id = Len(made) + 1 /\ new.client = active_client
      /\ log.to = file[client[active_client].socket]
  BY DEF SocketOf
<1> HIDE DEF new, log
<1>7. /\ DOMAIN made' = 1 .. Len(made) + 1 /\ made'[Len(made) + 1] = log
      /\ \A id \in DOMAIN made : made'[id] = made[id] /\ id \in DOMAIN made'
  <2>1. /\ made' \in Seq([body : Bodies, to : Conns]) /\ Len(made') = Len(made) + 1
        /\ made'[Len(made) + 1] = log
        /\ \A id \in 1 .. Len(made) : made'[id] = made[id]
    BY <1>1, <1>2, <1>5, AppendProperties
  <2>2. DOMAIN made' = 1 .. Len(made) + 1
    BY <2>1, LenProperties
  <2> QED BY <1>4, <2>1, <2>2
<1>8. \A k \in DOMAIN message_queue' :
         \/ k \in DOMAIN message_queue /\ message_queue'[k] = message_queue[k]
         \/ message_queue'[k] = new
  <2>1. /\ message_queue' \in Seq([id : Nat, client : Cells, body : Bodies])
        /\ Len(message_queue') = Len(message_queue) + 1
        /\ message_queue'[Len(message_queue) + 1] = new
        /\ \A k \in 1 .. Len(message_queue) : message_queue'[k] = message_queue[k]
    BY <1>1, <1>2, <1>5, AppendProperties
  <2>2. /\ DOMAIN message_queue' = 1 .. Len(message_queue) + 1
        /\ DOMAIN message_queue = 1 .. Len(message_queue) /\ Len(message_queue) \in Nat
    BY <1>2, <2>1, LenProperties
  <2> QED BY <2>1, <2>2
<1>9. SentMade'
  BY <1>1, <1>7 DEF SentMade
<1>10. RightPeerUnlessGone'
  BY <1>1, <1>7 DEF SentMade, RightPeerUnlessGone
<1>11. ASSUME NEW k \in DOMAIN message_queue'
       PROVE  Aims(made[message_queue[k].id].to, message_queue[k].client)'
  <2>1. UNCHANGED <<client_list, client, conn, file>> /\ ClientSet' = ClientSet
    BY <1>1 DEF clientVars, ClientSet
  <2>2. CASE k \in DOMAIN message_queue /\ message_queue'[k] = message_queue[k]
    <3>1. made'[message_queue[k].id] = made[message_queue[k].id]
      BY <1>7, <2>2, QueuedRight
    <3>2. Aims(made[message_queue[k].id].to, message_queue[k].client)
      BY <2>2 DEF QueuedAims
    <3> QED BY <2>1, <2>2, <3>1, <3>2 DEF Aims
  <2>3. CASE message_queue'[k] = new
    <3>1. /\ message_queue'[k].client = active_client
          /\ made'[message_queue'[k].id].to = file[client[active_client].socket]
      BY <1>6, <1>7, <2>3
    <3> QED BY <1>3, <2>1, <3>1 DEF Aims
  <2> QED BY <1>8, <2>2, <2>3
<1>12. QueuedAims'
  BY <1>11 DEF QueuedAims
<1> QED BY <1>9, <1>10, <1>12

\* packet_transmit sends on the connection of the cell that the message names, which
\* is the one it was typed for unless that is gone.
LEMMA AimsSent ==
  ASSUME IInv, SentMade, QueuedAims, RightPeerUnlessGone, [Next]_vars, packet_transmit
  PROVE  SentMade' /\ QueuedAims' /\ RightPeerUnlessGone'
<1> DEFINE k == NextDue
           m == message_queue[k]
           c == file[pfds[i].fd]
<1>1. /\ HasDue /\ message_destroy(k) /\ made' = made
      /\ wire' = [wire EXCEPT ![c] = Append(@, m.id)]
  BY DEF packet_transmit
<1>2. /\ message_queue \in Seq([id : Nat, client : Cells, body : Bodies])
      /\ wire \in [Conns -> Seq(Nat)]
  BY DEF IInv, TypeOK
<1>3. /\ k \in 1 .. Len(message_queue) /\ k \in DOMAIN message_queue
      /\ m.client \in ClientSet /\ c \in Conns /\ m.id \in DOMAIN made
      /\ made[m.id].to \in Conns
  BY <1>1, <1>2, DueListed, DueEntry, SlotListed, LenProperties
<1>4. file[client[m.client].socket] = c
  <2>1. Due \subseteq Nat /\ Due # {}
    BY <1>1 DEF HasDue, Due, IInv, TypeOK
  <2>2. k \in Due
    BY <2>1, NatMin DEF NextDue
  <2> QED BY <2>2 DEF Due, SocketOf
<1>5. Aims(made[m.id].to, m.client)
  BY <1>3 DEF QueuedAims
<1>6. made[m.id].to = c \/ conn[made[m.id].to].peer = "gone"
  BY <1>4, <1>5 DEF Aims
<1> HIDE DEF k, c
<1>7. \A j \in DOMAIN message_queue' : \E l \in DOMAIN message_queue :
         message_queue'[j] = message_queue[l]
  BY <1>1, <1>2, <1>3, DestroyShortens
<1>8. QueuedAims'
  <2> SUFFICES ASSUME NEW j \in DOMAIN message_queue'
               PROVE  Aims(made[message_queue[j].id].to, message_queue[j].client)'
    BY DEF QueuedAims
  <2>1. PICK l \in DOMAIN message_queue : message_queue'[j] = message_queue[l]
    BY <1>7
  <2>2. Aims(made[message_queue[l].id].to, message_queue[l].client)
    BY DEF QueuedAims
  <2> QED BY <1>1, <2>1, <2>2, QueuedRight, AimsKept DEF Aims
<1>9. m.id \in Nat
  <2>1. m \in [id : Nat, client : Cells, body : Bodies]
    BY <1>2, <1>3, ElementOfSeq
  <2> QED BY <2>1
<1> HIDE DEF m
<1>10. ASSUME NEW d \in Conns, NEW j \in DOMAIN wire'[d]
       PROVE  \/ j \in DOMAIN wire[d] /\ wire'[d][j] = wire[d][j]
              \/ d = c /\ wire'[d][j] = m.id
  <2>1. CASE d # c
    BY <1>1, <1>2, <2>1
  <2>2. CASE d = c
    <3>1. wire'[d] = Append(wire[c], m.id) /\ wire[c] \in Seq(Nat)
      BY <1>1, <1>2, <1>3, <2>2
    <3>2. /\ wire'[d] \in Seq(Nat) /\ Len(wire'[d]) = Len(wire[c]) + 1
          /\ wire'[d][Len(wire[c]) + 1] = m.id
          /\ \A l \in 1 .. Len(wire[c]) : wire'[d][l] = wire[c][l]
      BY <1>9, <3>1, AppendProperties
    <3>3. /\ DOMAIN wire'[d] = 1 .. Len(wire[c]) + 1
          /\ DOMAIN wire[c] = 1 .. Len(wire[c]) /\ Len(wire[c]) \in Nat
      BY <3>1, <3>2, LenProperties
    <3> QED BY <2>2, <3>2, <3>3
  <2> QED BY <2>1, <2>2
<1>11. SentMade'
  BY <1>1, <1>3, <1>10 DEF SentMade
<1>12. ASSUME NEW d \in Conns, NEW j \in DOMAIN wire'[d]
       PROVE  made[wire'[d][j]].to = d \/ conn'[made[wire'[d][j]].to].peer = "gone"
  <2>1. CASE j \in DOMAIN wire[d] /\ wire'[d][j] = wire[d][j]
    <3>1. made[wire[d][j]].to = d \/ conn[made[wire[d][j]].to].peer = "gone"
      BY <2>1 DEF RightPeerUnlessGone
    <3>2. made[wire[d][j]].to \in Conns
      BY <2>1, MadeFor DEF SentMade
    <3> QED BY <2>1, <3>1, <3>2, PeerMoves
  <2>2. CASE d = c /\ wire'[d][j] = m.id
    BY <1>3, <1>6, <2>2, PeerMoves
  <2> QED BY <1>10, <2>1, <2>2
<1>13. RightPeerUnlessGone'
  BY <1>1, <1>12 DEF RightPeerUnlessGone
<1> QED BY <1>8, <1>11, <1>13

\* Every step keeps messages aimed.
LEMMA AimsStep ==
  IInv /\ SentMade /\ QueuedAims /\ RightPeerUnlessGone /\ [Next]_vars
    => SentMade' /\ QueuedAims' /\ RightPeerUnlessGone'
<1> SUFFICES ASSUME IInv, SentMade, QueuedAims, RightPeerUnlessGone, [Next]_vars
             PROVE  SentMade' /\ QueuedAims' /\ RightPeerUnlessGone'
  OBVIOUS
<1>1. CASE UNCHANGED queueVars
  BY <1>1, AimsQuiet
<1>2. ASSUME NEW b \in Bodies, TypeText(b) PROVE SentMade' /\ QueuedAims' /\ RightPeerUnlessGone'
  <2>1. active_client = NoClient => UNCHANGED queueVars
    BY <1>2 DEF TypeText
  <2> QED BY <1>1, <1>2, <2>1, AimsTyped
<1>3. CASE packet_transmit
  BY <1>3, AimsSent
<1>4. UNCHANGED queueVars \/ (\E b \in Bodies : TypeText(b)) \/ packet_transmit
  BY DEF Next, Pass, HandleInput, Peers, Terminated, Poll, Exit, NoInput, TypeQuit, TypeOther,
         TypeOverrun, TransmitKills,
         TypeSelect, TypeRename, TypeConnect, ConnectFails, NoPeer, accept_connection,
         AcceptFails, EndPass, SlotError, SlotHangup, SlotEof, SlotIdle, packet_receive,
         ReceiveFails, TransmitFails, EndOutput, OnlyControl, handle_error, Peer,
         PeerConnects, PeerGivesUp, PeerSends, PeerReads, PeerCloses, PeerHangsUp, PeerResets,
         vars
<1> QED BY <1>1, <1>2, <1>3, <1>4

\* A message reaches another connection than its own only after that one is gone:
\* while a client is connected no reuse of cells or descriptors, no removal by text
\* and no order of events misleads its messages.
THEOREM RightPeerCorrect == Spec => []RightPeerUnlessGone
<1>1. Init => SentMade /\ QueuedAims /\ RightPeerUnlessGone
  BY DEF Init, SentMade, QueuedAims, RightPeerUnlessGone
<1> QED BY <1>1, AimsStep, AlwaysIInv, PTL DEF Spec

-----------------------------------------------------------------------------
(* What makes the program fail.                                            *)

\* The send buffer of a connection is empty before it is made, and not full before
\* something was sent on it.
RoomLeft ==
    \A c \in Conns :
        /\ conn[c].peer \in {"idle", "knocking"} => conn[c].room = Room
        /\ conn[c].peer # "gone" => conn[c].room = Room \/ wire[c] # <<>>

\* What poll reported for the listening socket: a peer is in the backlog, or was.
PeerWaited ==
    Running /\ pc \in {"stdin", "server"} /\ "POLLIN" \in pfds[1].revents
        => Backlog # {} \/ LeftBacklog # {}

\* A send takes room and puts something on the connection; reads give it back.
LEMMA RoomStep == IInv /\ RoomLeft /\ [Next]_vars => RoomLeft'
<1> SUFFICES ASSUME IInv, RoomLeft, [Next]_vars PROVE RoomLeft'
  OBVIOUS
<1>1. conn \in [Conns -> ConnType] /\ wire \in [Conns -> Seq(Nat)] /\ Room \in Nat \ {0}
  BY EventLoopAssumption DEF IInv, TypeOK
<1>2. CASE UNCHANGED <<conn, wire>>
  BY <1>2 DEF RoomLeft
<1>3. CASE Peers
  <2>1. PICK d \in Conns :
           \/ PeerConnects(d) \/ PeerGivesUp(d) \/ PeerSends(d) \/ PeerReads(d)
           \/ PeerCloses(d) \/ PeerHangsUp(d) \/ PeerResets(d)
    BY <1>3 DEF Peers
  <2>2. wire' = wire
    BY <2>1 DEF Peer, PeerConnects, PeerGivesUp, PeerSends, PeerReads, PeerCloses,
                PeerHangsUp, PeerResets, queueVars
  <2>3. ASSUME NEW from, NEW to, Peer(d, from, to), "gone" \notin from,
               to \in {"idle", "knocking"} => from \subseteq {"idle", "knocking"}
        PROVE  RoomLeft'
    <3>1. conn' = [conn EXCEPT ![d].peer = to] /\ conn[d].peer \in from
      BY <2>3 DEF Peer
    <3> QED BY <1>1, <2>2, <2>3, <3>1 DEF RoomLeft, ConnType
  <2>4. CASE PeerSends(d)
    BY <1>1, <2>2, <2>4 DEF PeerSends, RoomLeft, ConnType
  <2>5. CASE PeerReads(d)
    <3>1. conn[d].peer \in {"up", "shut"} /\ conn[d].room < Room
          /\ conn' = [conn EXCEPT ![d].room = @ + 1]
      BY <2>5 DEF PeerReads
    <3>2. wire[d] # <<>>
      <4>1. conn[d].room \in Nat /\ conn[d].room # Room /\ conn[d].peer # "gone"
        BY <1>1, <3>1 DEF ConnType
      <4> QED BY <4>1 DEF RoomLeft
    <3> QED BY <1>1, <2>2, <3>1, <3>2 DEF RoomLeft, ConnType
  <2>6. CASE PeerConnects(d) \/ PeerGivesUp(d)
    BY <2>3, <2>6 DEF PeerConnects, PeerGivesUp
  <2>7. CASE PeerCloses(d) \/ PeerHangsUp(d) \/ PeerResets(d)
    BY <2>3, <2>7 DEF PeerCloses, PeerHangsUp, PeerResets
  <2> QED BY <2>1, <2>4, <2>5, <2>6, <2>7
<1>4. CASE \E d \in Conns : TypeConnect(d) \/ accept_connection(d)
  <2>1. PICK d \in Conns : conn' = [conn EXCEPT ![d].peer = "up"]
                           /\ conn[d].peer \in {"idle", "knocking"}
    BY <1>4 DEF TypeConnect, accept_connection, Backlog
  <2>2. wire' = wire
    BY <1>4 DEF TypeConnect, accept_connection, queueVars
  <2> QED BY <1>1, <2>1, <2>2 DEF RoomLeft, ConnType
<1>5. CASE SlotHangup \/ SlotEof
  <2>1. conn' = [conn EXCEPT ![file[pfds[i].fd]] = Gone] /\ wire' = wire
    BY <1>5 DEF SlotHangup, SlotEof, client_disconnect, queueVars
  <2> QED BY <1>1, <2>1 DEF RoomLeft, Gone
<1>6. CASE packet_receive
  <2> DEFINE f == file[pfds[i].fd]
  <2>1. conn' = [conn EXCEPT ![f].inbox = @ - 1] /\ wire' = wire
    BY <1>6 DEF packet_receive, queueVars
  <2> HIDE DEF f
  <2> QED BY <1>1, <2>1 DEF RoomLeft, ConnType
<1>7. CASE packet_transmit
  <2> DEFINE f == file[pfds[i].fd]
             id == message_queue[NextDue].id
  <2>1. /\ conn' = [conn EXCEPT ![f].room = @ - 1]
        /\ wire' = [wire EXCEPT ![f] = Append(wire[f], id)]
    BY <1>7 DEF packet_transmit
  <2>2. f \in Conns /\ conn[f].peer \notin {"idle", "knocking"}
    <3>1. pfds[i].fd \in Fds /\ f \in Conns
      BY <1>7, DueListed, SlotListed DEF packet_transmit
    <3> QED BY <3>1, EventLoopAssumption DEF IInv, OpenIsLive, Down
  <2>3. id \in Nat
    <3>1. id \in DOMAIN made /\ made \in Seq([body : Bodies, to : Conns])
      BY <1>7, DueEntry DEF packet_transmit, IInv, TypeOK
    <3> QED BY <3>1, LenProperties
  <2> HIDE DEF f, id
  <2>4. wire'[f] # <<>>
    <3>1. wire'[f] = Append(wire[f], id) /\ wire[f] \in Seq(Nat)
      BY <1>1, <2>1, <2>2
    <3>2. Len(wire'[f]) = Len(wire[f]) + 1 /\ Len(wire[f]) \in Nat
      BY <2>3, <3>1, AppendProperties, LenProperties
    <3>3. Len(<<>>) = 0
      OBVIOUS
    <3> QED BY <3>2, <3>3
  <2>5. /\ conn'[f].peer = conn[f].peer
        /\ \A d \in Conns : d # f => conn'[d] = conn[d] /\ wire'[d] = wire[d]
    BY <1>1, <2>1, <2>2 DEF ConnType
  <2> QED BY <2>2, <2>4, <2>5 DEF RoomLeft
<1>8. \/ UNCHANGED <<conn, wire>> \/ Peers
      \/ \E d \in Conns : TypeConnect(d) \/ accept_connection(d)
      \/ SlotHangup \/ SlotEof \/ packet_receive \/ packet_transmit
  BY DEF Next, Pass, HandleInput, Terminated, Poll, Exit, NoInput, TypeQuit, TypeOther,
         TypeOverrun, TransmitKills,
         TypeSelect, TypeRename, TypeText, ConnectFails, NoPeer, AcceptFails, EndPass, SlotError,
         SlotIdle, ReceiveFails, TransmitFails, EndOutput, OnlyControl, handle_error, vars,
         netVars, queueVars
<1> QED BY <1>2, <1>3, <1>4, <1>5, <1>6, <1>7, <1>8

\* The peer that poll saw in the backlog is still there, or has given up.
LEMMA WaitedStep == IInv /\ RoomLeft /\ PeerWaited /\ [Next]_vars => PeerWaited'
<1> SUFFICES ASSUME IInv, RoomLeft, PeerWaited, [Next]_vars,
                    Running', pc' \in {"stdin", "server"}, "POLLIN" \in pfds'[1].revents
             PROVE  (Backlog # {} \/ LeftBacklog # {})'
  BY DEF PeerWaited
<1>1. /\ conn \in [Conns -> ConnType] /\ Room \in Nat \ {0}
      /\ nfds \in Nat \ {0} /\ fd_count \in 2 .. nfds /\ pfds \in [0 .. nfds - 1 -> Pfd]
      /\ pfds[1].fd = server_socket
  BY EventLoopAssumption DEF IInv, TypeOK, SocketsMatch
<1>2. CASE Poll
  <2>1. PICK line \in {FALSE} \cup {typed < MaxLines} :
          pfds' = [j \in DOMAIN pfds |->
                     IF j < fd_count THEN Refreshed(pfds[j], line) ELSE pfds[j]]
    BY <1>2 DEF Poll
  <2>2. pfds'[1] = Refreshed(pfds[1], line) /\ pfds[1] \in Pfd
    BY <1>1, <2>1
  <2>3. pfds'[1].revents = Ready(server_socket, line)
    BY <1>1, <2>2 DEF Refreshed, Pfd
  <2>4. \E c \in Conns : conn[c].peer = "knocking"
    BY <2>3 DEF Ready, server_socket, STDIN_FILENO
  <2>5. conn' = conn
    BY <1>2 DEF Poll, netVars
  <2> QED BY <2>4, <2>5 DEF Backlog
<1>3. ASSUME Running, pc \in {"stdin", "server"}, "POLLIN" \in pfds[1].revents,
             \A c \in Conns : \/ conn'[c] = conn[c]
                              \/ conn[c].peer \notin {"knocking", "gone"}
                              \/ conn[c].peer = "knocking" /\ conn'[c].peer = "gone"
                                 /\ conn'[c].room = conn[c].room
      PROVE  (Backlog # {} \/ LeftBacklog # {})'
  <2>1. PICK c \in Conns : conn[c].peer = "knocking" \/ (conn[c].peer = "gone" /\ conn[c].room > 0)
    BY <1>3 DEF PeerWaited, Backlog, LeftBacklog
  <2>2. \/ conn'[c] = conn[c]
        \/ conn[c].peer = "knocking" /\ conn'[c].peer = "gone" /\ conn'[c].room = conn[c].room
    BY <1>3, <2>1
  <2>3. conn[c].peer = "knocking" => conn[c].room > 0
    BY <1>1 DEF RoomLeft
  <2>4. conn'[c].peer = "knocking" \/ (conn'[c].peer = "gone" /\ conn'[c].room > 0)
    BY <2>1, <2>2, <2>3
  <2> QED BY <2>4 DEF Backlog, LeftBacklog
<1>4. CASE Peers
  <2>1. PICK d \in Conns :
           \/ PeerConnects(d) \/ PeerGivesUp(d) \/ PeerSends(d) \/ PeerReads(d)
           \/ PeerCloses(d) \/ PeerHangsUp(d) \/ PeerResets(d)
    BY <1>4 DEF Peers
  <2>2. Running /\ UNCHANGED <<pc, pfds>>
    BY <2>1 DEF Peer, PeerConnects, PeerGivesUp, PeerSends, PeerReads, PeerCloses,
                PeerHangsUp, PeerResets, loopVars, pollVars
  <2>3. \A c \in Conns \ {d} : conn'[c] = conn[c]
    BY <1>1, <2>1 DEF Peer, PeerConnects, PeerGivesUp, PeerSends, PeerReads, PeerCloses,
                      PeerHangsUp, PeerResets
  <2>4. CASE PeerGivesUp(d)
    <3>1. conn[d].peer = "knocking" /\ conn' = [conn EXCEPT ![d].peer = "gone"]
      BY <2>4 DEF PeerGivesUp, Peer
    <3>2. conn'[d].peer = "gone" /\ conn'[d].room = conn[d].room
      BY <1>1, <3>1 DEF ConnType
    <3> QED BY <1>3, <2>2, <2>3, <3>1, <3>2
  <2>5. CASE ~PeerGivesUp(d)
    <3>1. conn[d].peer \notin {"knocking", "gone"}
      BY <2>1, <2>5 DEF Peer, PeerConnects, PeerSends, PeerReads, PeerCloses, PeerHangsUp,
                        PeerResets
    <3> QED BY <1>3, <2>2, <2>3, <3>1
  <2> QED BY <2>4, <2>5
<1>5. ASSUME NEW d \in Conns, TypeConnect(d) PROVE (Backlog # {} \/ LeftBacklog # {})'
  <2>1. Running /\ pc = "stdin" /\ conn[d].peer = "idle"
        /\ conn' = [conn EXCEPT ![d].peer = "up"]
    BY <1>5 DEF TypeConnect, HasLine, AtStdin
  <2>2. pfds' = pfd_insert(pfds, nfds, fd_count, NewFd)
    BY <1>5 DEF TypeConnect, AddClient
  <2>3. pfds'[1] = pfds[1]
    BY <1>1, <2>2 DEF pfd_insert, Grown
  <2>4. \A c \in Conns : conn'[c] = conn[c] \/ conn[c].peer = "idle"
    BY <1>1, <2>1
  <2> QED BY <1>3, <2>1, <2>3, <2>4
<1>6. CASE UNCHANGED <<pfds, conn>> /\ Running /\ pc \in {"stdin", "server"}
  BY <1>3, <1>6
<1>7. \/ Poll \/ Peers \/ \E d \in Conns : TypeConnect(d)
      \/ UNCHANGED <<pfds, conn>> /\ Running /\ pc \in {"stdin", "server"}
  BY Zenon DEF Next, Pass, HandleInput, Terminated, Exit, NoInput, TypeQuit, TypeOther,
         TypeOverrun, TransmitKills,
         TypeSelect, TypeRename, TypeText, ConnectFails, NoPeer, accept_connection, AcceptFails,
         EndPass, SlotError, SlotHangup, SlotEof, SlotIdle, packet_receive, packet_transmit,
         ReceiveFails, TransmitFails, EndOutput, OnlyControl, handle_error, vars, netVars,
         pollVars, loopVars, exitVars, Goto, NextSlot, StartOutput, HasLine, AtStdin, AtServer,
         HasPeer, Running, AtOutput, HasDue
<1> QED BY <1>2, <1>4, <1>5, <1>6, <1>7

\* Every end has its cause.
LEMMA CauseStep ==
  IInv /\ ReportsStillTrue /\ RoomLeft /\ PeerWaited /\ FailureHasACause /\ [Next]_vars
    => FailureHasACause'
<1> SUFFICES ASSUME IInv, ReportsStillTrue, RoomLeft, PeerWaited, FailureHasACause,
                    [Next]_vars, status' \in {"failed", "killed"}
             PROVE  FailureHasACause'
  BY DEF FailureHasACause
<1>1. CASE UNCHANGED vars
  <2>1. UNCHANGED <<status, error, conn, file, wire, client, message_queue>>
    BY <1>1 DEF vars, exitVars, netVars, queueVars, clientVars
  <2>2. UNCHANGED <<FreeFds, LeftBacklog>> /\ WaitsFor({"hup", "broken"})' = WaitsFor({"hup", "broken"})
    BY <2>1 DEF FreeFds, LeftBacklog, WaitsFor, SocketOf
  <2> QED BY <2>1, <2>2 DEF FailureHasACause
<1>2. CASE ConnectFails
  <2>1. /\ error' = <<"connect", IF FreeFds = {} THEN "EMFILE" ELSE "ECONNREFUSED">>
        /\ FreeFds' = FreeFds /\ status' = "failed"
    BY <1>2 DEF ConnectFails, handle_error, netVars, FreeFds
  <2> QED BY <2>1 DEF FailureHasACause
<1>3. CASE AcceptFails
  <2>1. /\ error' = <<"accept", IF FreeFds = {} THEN "EMFILE" ELSE "EAGAIN">>
        /\ FreeFds' = FreeFds /\ LeftBacklog' = LeftBacklog /\ status' = "failed"
    BY <1>3 DEF AcceptFails, handle_error, netVars, FreeFds, LeftBacklog
  <2>2. FreeFds # {} => LeftBacklog # {}
    BY <1>3 DEF AcceptFails, HasPeer, AtServer, PeerWaited
  <2> QED BY <2>1, <2>2 DEF FailureHasACause
<1>4. ASSUME NEW func, error' = <<func, "SO_ERROR">> \/ error' = <<func, "ECONNRESET">>,
             NEW c \in Conns, conn'[c].peer \in {"reset", "broken"}, status' = "failed"
      PROVE  FailureHasACause'
  BY <1>4 DEF FailureHasACause
<1>5. AtSlot => /\ i \in Pending /\ pfds[i].fd \in Fds /\ file[pfds[i].fd] \in Conns
  BY AtClient, SlotListed DEF AtSlot, Pending, IInv, TypeOK
<1>6. CASE SlotError
  <2>1. AtSlot /\ Running /\ "POLLERR" \in pfds[i].revents
        /\ error' = <<"revents", "SO_ERROR">> /\ conn' = conn /\ status' = "failed"
    BY <1>6 DEF SlotError, AtSlot, Reports, handle_error, netVars
  <2>2. Here.peer \in {"reset", "broken"}
    BY <1>5, <2>1 DEF ReportsStillTrue, Here
  <2> QED BY <1>4, <1>5, <2>1, <2>2 DEF Here
<1>7. CASE ReceiveFails
  <2>1. AtSlot /\ Running /\ "POLLIN" \in pfds[i].revents
        /\ Here.inbox = 0 /\ Here.peer \in {"up", "reset", "broken"}
        /\ error' = <<"recv", IF Here.peer = "up" THEN "EAGAIN" ELSE "ECONNRESET">>
        /\ conn' = conn /\ status' = "failed"
    BY <1>7 DEF ReceiveFails, AtInput, AtSlot, Reports, handle_error, netVars
  <2>2. Here.inbox > 0 \/ Here.peer \in {"shut"} \cup Down
    BY <1>5, <2>1 DEF ReportsStillTrue, Here
  <2>3. Here.peer \in {"reset", "broken"}
    BY <2>1, <2>2 DEF Down
  <2>4. error' = <<"recv", "ECONNRESET">>
    BY <2>1, <2>3
  <2> QED BY <1>4, <1>5, <2>1, <2>3, <2>4 DEF Here
<1>8. CASE TransmitFails
  <2>1. HasDue /\ (Here.room = 0 \/ Here.peer = "reset")
        /\ error' = <<"send", IF Here.peer = "reset" THEN "ECONNRESET" ELSE "EAGAIN">>
        /\ conn' = conn /\ wire' = wire /\ status' = "failed"
    BY <1>8 DEF TransmitFails, handle_error, netVars, queueVars
  <2>2. pfds[i].fd \in Fds /\ file[pfds[i].fd] \in Conns
    BY <2>1, DueListed, SlotListed
  <2>3. CASE Here.peer = "reset"
    BY <1>4, <2>1, <2>2, <2>3 DEF Here
  <2>4. CASE Here.peer # "reset"
    <3> DEFINE c == file[pfds[i].fd]
    <3>1. conn[c].room = 0 /\ conn[c].peer # "gone"
      BY <2>1, <2>2, <2>4, EventLoopAssumption DEF Here, IInv, OpenIsLive, Down
    <3>2. wire[c] # <<>>
      BY <2>2, <3>1, EventLoopAssumption DEF RoomLeft
    <3>3. error' = <<"send", "EAGAIN">>
      BY <2>1, <2>4
    <3>4. \E d \in Conns : conn'[d].room = 0 /\ wire'[d] # <<>> /\ conn'[d].peer # "gone"
      BY <2>1, <2>2, <3>1, <3>2
    <3> QED BY <2>1, <3>3, <3>4 DEF FailureHasACause
  <2> QED BY <2>3, <2>4
<1>9. CASE TransmitKills
  <2>1. /\ HasDue /\ Here.peer \in {"hup", "broken"} /\ status' = "killed"
        /\ UNCHANGED <<message_queue, client, conn, file>>
    BY <1>9 DEF TransmitKills, queueVars, clientVars, netVars
  <2>2. NextDue \in DOMAIN message_queue
    <3>1. DOMAIN message_queue = 1 .. Len(message_queue)
      BY LenProperties DEF IInv, TypeOK
    <3> QED BY <2>1, <3>1, DueListed
  <2>3. SocketOf(message_queue[NextDue].client) = pfds[i].fd /\ pfds[i].fd \in Fds
    <3>1. Due \subseteq Nat /\ Due # {}
      BY <2>1 DEF HasDue, Due, IInv, TypeOK
    <3>2. NextDue \in Due
      BY <3>1, NatMin DEF NextDue
    <3> QED BY <2>1, <3>2, DueListed, SlotListed DEF Due
  <2> HIDE DEF NextDue
  <2>4. WaitsFor({"hup", "broken"})
    BY <2>1, <2>2, <2>3 DEF WaitsFor, Here
  <2>5. WaitsFor({"hup", "broken"})'
    BY <2>1, <2>4 DEF WaitsFor, SocketOf
  <2> QED BY <2>1, <2>5 DEF FailureHasACause
<1>10. \/ UNCHANGED vars \/ ConnectFails \/ AcceptFails \/ SlotError \/ ReceiveFails
       \/ TransmitFails \/ TransmitKills
  BY Zenon DEF Next, Pass, HandleInput, Peers, Terminated, Poll, Exit, NoInput, TypeQuit, TypeOther,
         TypeOverrun, TypeSelect, TypeRename, TypeText, TypeConnect, NoPeer, accept_connection,
         EndPass, SlotHangup, SlotEof, SlotIdle, packet_receive, packet_transmit, EndOutput,
         OnlyControl, Peer, PeerConnects, PeerGivesUp, PeerSends, PeerReads, PeerCloses,
         PeerHangsUp, PeerResets, exitVars, HasLine, AtStdin, AtServer, HasPeer, Running, AtOutput,
         HasDue, AtInput, AtSlot
<1> QED BY <1>1, <1>2, <1>3, <1>6, <1>7, <1>8, <1>9, <1>10

\* Behind each end by handle_error or SIGPIPE is a peer that reset its connection, left
\* the backlog or stopped reading, a host that refused, a lack of descriptors, or a
\* message waiting for a connection that is down.
THEOREM CauseCorrect == Spec => []FailureHasACause
<1>1. Init => RoomLeft /\ PeerWaited /\ FailureHasACause
  BY DEF Init, RoomLeft, PeerWaited, FailureHasACause
<1> QED BY <1>1, RoomStep, WaitedStep, CauseStep, AlwaysIInv, SnapshotTrue, PTL DEF Spec

=============================================================================
