-------------------------- MODULE EventLoop_proofs --------------------------
(***************************************************************************)
(* For any peers, descriptors, cells and bounds: the client list and the   *)
(* array of descriptors describe the same clients, and no pointer of       *)
(* clients_t outlives its client.                                          *)
(***************************************************************************)
EXTENDS EventLoopProps, ListLemmas

-----------------------------------------------------------------------------
(* Walks along the list.                                                   *)

\* The kernel's choice of a descriptor.
LEMMA NewFdFree == FreeFds # {} => NewFd \in FreeFds
<1>1. FreeFds \subseteq Nat
  BY EventLoopAssumption DEF FreeFds
<1> QED BY <1>1, NatMin DEF NewFd

\* The walk along the list ends at the client of the descriptor.
LEMMA PositionFound ==
  ASSUME client_list \in Seq(Cells), NEW f, \E c \in ClientSet : SocketOf(c) = f
  PROVE  Position(f) \in 1 .. Len(client_list) /\ SocketOf(ClientOf(f)) = f
<1> DEFINE I == {k \in 1 .. Len(client_list) : SocketOf(client_list[k]) = f}
<1>1. I # {} /\ I \subseteq Nat
  BY DEF ClientSet, ToSet
<1>2. Position(f) = Min(I)
  BY <1>1 DEF Position, SelectInSeq
<1>3. Min(I) \in I
  BY <1>1, MinInSet
<1> QED BY <1>2, <1>3 DEF ClientOf

\* set_active_client finds a client of the list or none.
LEMMA FirstNamedListed ==
  ASSUME NEW list \in Seq(Cells), NEW cl, NEW n
  PROVE  FirstNamed(list, cl, n) \in ToSet(list) \cup {NoClient}
<1> DEFINE I == {k \in 1 .. Len(list) : cl[list[k]].username = n}
           first == IF I # {} THEN Min(I) ELSE 0
<1>1. SelectInSeq(list, LAMBDA c : cl[c].username = n) = first
  BY DEF SelectInSeq
<1>2. I \subseteq Nat /\ DOMAIN list = 1 .. Len(list)
  BY LenProperties
<1>3. CASE I = {}
  BY <1>1, <1>3 DEF FirstNamed
<1>4. CASE I # {}
  <2>1. first \in 1 .. Len(list)
    BY <1>2, <1>4, MinInSet
  <2> HIDE DEF first
  <2>2. FirstNamed(list, cl, n) = list[first]
    BY <1>1, <2>1 DEF FirstNamed
  <2> QED BY <1>2, <2>1, <2>2 DEF ToSet
<1> QED BY <1>3, <1>4

\* The message that message_destroy removes is in the queue.
LEMMA DestroyShortens ==
  ASSUME NEW S, message_queue \in Seq(S), NEW k \in 1 .. Len(message_queue),
         message_destroy(k)
  PROVE  /\ message_queue' \in Seq(S)
         /\ \A j \in DOMAIN message_queue' : \E l \in DOMAIN message_queue :
               message_queue'[j] = message_queue[l]
<1> DEFINE I == {j \in 1 .. Len(message_queue) :
                    message_queue[j].body = message_queue[k].body}
           same == Min(I)
<1>1. I \subseteq Nat /\ I # {}
  OBVIOUS
<1>2. same \in 1 .. Len(message_queue)
  BY <1>1, MinInSet
<1>3. message_queue' = RemoveAt(message_queue, same)
  BY <1>1 DEF message_destroy, SelectInSeq
<1> HIDE DEF same
<1>4. /\ message_queue' \in Seq(S)
      /\ Len(message_queue') = Len(message_queue) - 1
      /\ \A j \in 1 .. Len(message_queue) - 1 : message_queue'[j] =
            IF j < same THEN message_queue[j] ELSE message_queue[j + 1]
  BY <1>2, <1>3, RemoveAtProperties
<1>5. /\ DOMAIN message_queue = 1 .. Len(message_queue) /\ Len(message_queue) \in Nat
      /\ DOMAIN message_queue' = 1 .. Len(message_queue) - 1
  BY <1>4, LenProperties
<1>6. ASSUME NEW j \in DOMAIN message_queue'
      PROVE  \E l \in DOMAIN message_queue : message_queue'[j] = message_queue[l]
  <2>1. j \in DOMAIN message_queue /\ j + 1 \in DOMAIN message_queue
    BY <1>5
  <2> QED BY <1>4, <1>5, <2>1
<1> QED BY <1>4, <1>6

-----------------------------------------------------------------------------
(* What the invariant says of one client, one slot.                        *)

\* What a freed cell reads as is a client without a descriptor.
LEMMA FreedClientType == FreedClient \in ClientType /\ FreedClient.socket = Garbage
<1>1. (CHOOSE n \in Names : TRUE) \in Names
  BY EventLoopAssumption
<1>2. <<>> \in Seq(Entries)
  BY EmptySeq
<1> QED BY <1>1, <1>2 DEF FreedClient, ClientType

\* What free leaves in the socket field is no descriptor of a client.
LEMMA GarbageNoFd == Garbage \notin Fds
BY EventLoopAssumption DEF Garbage

\* history_print keeps the socket of the client.
LEMMA PrintedType ==
  ASSUME NEW r \in ClientType
  PROVE  /\ history_print(r) \in ClientType
         /\ history_print(r).socket = r.socket
<1>1. Len(r.history) \in Nat
  BY LenProperties DEF ClientType
<1> QED BY <1>1 DEF history_print, ClientType

\* The list holds cells with open descriptors, each client and socket once.
LEMMA Listed ==
  ASSUME IInv
  PROVE  /\ ClientSet \subseteq Cells
         /\ DOMAIN client_list = 1 .. Len(client_list) /\ Len(client_list) \in Nat
         /\ \A c \in ClientSet : SocketOf(c) \in Fds /\ file[SocketOf(c)] \in Conns
         /\ \A c, d \in ClientSet : SocketOf(c) = SocketOf(d) => c = d
         /\ \A j, k \in 1 .. Len(client_list) : client_list[j] = client_list[k] => j = k
<1> USE DEF IInv, TypeOK
<1>1. /\ ClientSet \subseteq Cells
      /\ DOMAIN client_list = 1 .. Len(client_list) /\ Len(client_list) \in Nat
  BY LenProperties, ElementOfSeq DEF ClientSet, ToSet
<1>2. \A c \in ClientSet : SocketOf(c) \in Fds /\ file[SocketOf(c)] \in Conns
  <2>1. {SocketOf(c) : c \in ClientSet} = Fds \ FreeFds
    BY DEF SocketsMatch
  <2> QED BY <2>1 DEF FreeFds
<1>3. \A c, d \in ClientSet : SocketOf(c) = SocketOf(d) => c = d
  BY DEF SocketsMatch, ClientSet, ToSet
<1>4. \A j, k \in 1 .. Len(client_list) : client_list[j] = client_list[k] => j = k
  BY <1>1 DEF SocketsMatch
<1> QED BY <1>1, <1>2, <1>3, <1>4

\* The walk from a slot to its client ends at a client of the list.
LEMMA SlotListed ==
  ASSUME IInv, NEW j \in ClientSlots
  PROVE  /\ pfds[j].fd \in Fds /\ file[pfds[j].fd] \in Conns
         /\ \E c \in ClientSet : SocketOf(c) = pfds[j].fd
         /\ Position(pfds[j].fd) \in 1 .. Len(client_list)
         /\ ClientOf(pfds[j].fd) \in ClientSet
         /\ SocketOf(ClientOf(pfds[j].fd)) = pfds[j].fd
<1>1. {pfds[l].fd : l \in ClientSlots} = {SocketOf(c) : c \in ClientSet}
  BY DEF IInv, SocketsMatch
<1>2. \E c \in ClientSet : SocketOf(c) = pfds[j].fd
  BY <1>1
<1>3. client_list \in Seq(Cells)
  BY DEF IInv, TypeOK
<1>4. /\ Position(pfds[j].fd) \in 1 .. Len(client_list)
      /\ SocketOf(ClientOf(pfds[j].fd)) = pfds[j].fd
  BY <1>2, <1>3, PositionFound
<1>5. ClientOf(pfds[j].fd) \in ClientSet
  BY <1>4, Listed DEF ClientOf, ClientSet, ToSet
<1> QED BY <1>2, <1>4, <1>5, Listed

\* While the loop runs, both pointers are to clients of the list.
LEMMA PointersHold ==
  ASSUME IInv, Running
  PROVE  {active_client, shown} \subseteq ClientSet \cup {NoClient}
BY DEF IInv, PointersListed, Running

-----------------------------------------------------------------------------
(* The pieces that several handlers call.                                  *)

\* A step that changes no descriptor, no slot and no list keeps the match.
LEMMA MatchKept ==
  ASSUME IInv, UNCHANGED <<nfds, fd_count, client_list, file>>,
         \A j \in 0 .. nfds - 1 :
            pfds'[j].fd = pfds[j].fd /\ (j >= fd_count => pfds'[j] = pfds[j]),
         \A c \in Cells : client'[c].socket = client[c].socket
  PROVE  SocketsMatch' /\ FreedHasNone'
<1>1. /\ SocketsMatch /\ FreedHasNone
      /\ nfds \in Nat \ {0} /\ fd_count \in 2 .. nfds
  BY DEF IInv, TypeOK
<1>2. ClientSet' = ClientSet /\ ClientSlots' = ClientSlots /\ FreeFds' = FreeFds
  BY DEF ClientSet, ClientSlots, FreeFds
<1>3. \A c \in ClientSet : client'[c].socket = client[c].socket
  BY Listed
<1>4. \A j \in DOMAIN client_list : client_list[j] \in ClientSet
  BY DEF ClientSet, ToSet
<1>5. \A j \in ClientSlots : j \in 0 .. nfds - 1 /\ pfds'[j].fd = pfds[j].fd
  BY <1>1 DEF ClientSlots, MIN_CLIENT_SOCK
<1>6. FreedHasNone'
  BY <1>1, <1>2 DEF FreedHasNone, SocketOf
<1>7. SocketsMatch'
  <2>1. pfds'[0].fd = STDIN_FILENO /\ pfds'[1].fd = server_socket
    BY <1>1 DEF SocketsMatch
  <2>2. \A j \in fd_count .. nfds - 1 : pfds'[j] = NullPfd
    BY <1>1 DEF SocketsMatch
  <2>3. \A j, k \in ClientSlots : pfds'[j].fd = pfds'[k].fd => j = k
    BY <1>1, <1>5 DEF SocketsMatch
  <2>4. \A j, k \in DOMAIN client_list :
           client'[client_list[j]].socket = client'[client_list[k]].socket => j = k
    BY <1>1, <1>3, <1>4 DEF SocketsMatch, SocketOf
  <2>5. {pfds'[j].fd : j \in ClientSlots} = {pfds[j].fd : j \in ClientSlots}
    BY <1>5
  <2>6. {client'[c].socket : c \in ClientSet} = {client[c].socket : c \in ClientSet}
    BY <1>3
  <2>7. /\ {pfds[j].fd : j \in ClientSlots} = {client[c].socket : c \in ClientSet}
        /\ {client[c].socket : c \in ClientSet} = Fds \ FreeFds
        /\ \A f, g \in Fds : file[f] = file[g] /\ file[f] # NoConn => f = g
    BY <1>1 DEF SocketsMatch, SocketOf
  <2> QED BY <1>2, <2>1, <2>2, <2>3, <2>4, <2>5, <2>6, <2>7 DEF SocketsMatch, SocketOf
<1> QED BY <1>6, <1>7

\* history_insert for a client of the list changes nothing but its record and
\* the two pointers, which point into the list afterwards.
LEMMA InsertKeeps ==
  ASSUME IInv, Running, NEW c \in ClientSet, NEW entry \in Entries, history_insert(c, entry)
  PROVE  /\ client' \in [Cells -> ClientType]
         /\ \A d \in Cells : client'[d].socket = client[d].socket
         /\ client_list' = client_list
         /\ {active_client', shown'} \subseteq ClientSet \cup {NoClient}
<1> USE DEF IInv, TypeOK
<1> DEFINE r == [client[c] EXCEPT !.history = Prepended(@, entry)]
           p == history_print(r)
           u == [r EXCEPT !.unread_msg = 1]
<1>1. c \in Cells
  BY Listed
<1>2. r \in ClientType /\ r.socket = client[c].socket
  <2>1. client[c] \in ClientType
    BY <1>1
  <2>2. Prepended(client[c].history, entry) \in Seq(Entries)
    BY <2>1, NewHead DEF ClientType, Prepended
  <2> QED BY <2>1, <2>2 DEF ClientType
<1>3. p \in ClientType /\ p.socket = client[c].socket
  BY <1>2, PrintedType
<1>4. u \in ClientType /\ u.socket = client[c].socket
  <2> HIDE DEF r
  <2> QED BY <1>2 DEF ClientType
<1>5. client' = [client EXCEPT ![c] = p] \/ client' = [client EXCEPT ![c] = u]
  BY DEF history_insert
<1>6. {active_client', shown'} \subseteq {active_client, shown, c}
  BY DEF history_insert
<1>7. client_list' = client_list
  BY DEF history_insert
<1> HIDE DEF r, p, u
<1>8. client' \in [Cells -> ClientType]
  BY <1>3, <1>4, <1>5
<1>9. \A d \in Cells : client'[d].socket = client[d].socket
  BY <1>1, <1>3, <1>4, <1>5
<1> QED BY <1>6, <1>7, <1>8, <1>9, PointersHold

\* A client is added at the end of the list and in the first unused slot, with
\* a descriptor and a connection that no client has.
LEMMA AddKeeps ==
  ASSUME IInv, Running, NEW c \in Conns, conn[c].peer \in {"idle", "knocking"}, FreeFds # {},
         conn' = [conn EXCEPT ![c].peer = "up"], AddClient(c)
  PROVE  /\ nfds' \in Nat \ {0} /\ nfds' >= nfds
         /\ fd_count' \in 2 .. nfds' /\ pfds' \in [0 .. nfds' - 1 -> Pfd]
         /\ client_list' \in Seq(Cells) /\ client' \in [Cells -> ClientType]
         /\ {active_client', shown'} \subseteq Cells \cup {NoClient}
         /\ conn' \in [Conns -> ConnType] /\ file' \in [Fds -> Conns \cup {NoConn}]
         /\ SocketsMatch' /\ PointersListed' /\ FreedHasNone' /\ OpenIsLive'
<1>0. /\ nfds \in Nat \ {0} /\ fd_count \in 2 .. nfds /\ pfds \in [0 .. nfds - 1 -> Pfd]
      /\ client_list \in Seq(Cells) /\ client \in [Cells -> ClientType]
      /\ conn \in [Conns -> ConnType] /\ file \in [Fds -> Conns \cup {NoConn}]
      /\ {active_client, shown} \subseteq ClientSet \cup {NoClient}
      /\ SocketsMatch /\ FreedHasNone /\ OpenIsLive
  BY PointersHold DEF IInv, TypeOK
<1> DEFINE f == NewFd
<1>1. f \in Fds /\ file[f] = NoConn
  BY NewFdFree DEF FreeFds
<1> HIDE DEF f
<1>2. PICK cell \in Cells \ ClientSet :
        LET cl   == [client EXCEPT ![cell] = [FreedClient EXCEPT
                       !.socket = f, !.username = DefaultName[f]]]
            list == Append(client_list, cell)
            who  == FirstNamed(list, cl, DefaultName[f])
        IN  /\ client_list' = list
            /\ file' = [file EXCEPT ![f] = c]
            /\ pfds' = pfd_insert(pfds, nfds, fd_count, f)
            /\ nfds' = Grown(nfds, fd_count)
            /\ fd_count' = fd_count + 1
            /\ IF active_client = NoClient
               THEN /\ active_client' = who
                    /\ client' = [cl EXCEPT ![who] = history_print(@)]
                    /\ shown' = IF cl[who].history = <<>> THEN shown ELSE who
               ELSE client' = cl /\ UNCHANGED <<active_client, shown>>
  BY DEF AddClient, f
<1> DEFINE new  == [FreedClient EXCEPT !.socket = f, !.username = DefaultName[f]]
           cl   == [client EXCEPT ![cell] = new]
           list == Append(client_list, cell)
           who  == FirstNamed(list, cl, DefaultName[f])
(* The list and the pointers. *)
<1>3. /\ client_list' = list /\ list \in Seq(Cells)
      /\ DOMAIN list = 1 .. Len(client_list) + 1
      /\ \A j \in 1 .. Len(client_list) : list[j] = client_list[j]
      /\ list[Len(client_list) + 1] = cell
  BY <1>0, <1>2, AppendProperties, LenProperties
<1>4. ClientSet' = ClientSet \cup {cell}
  BY <1>0, <1>2, ToSetAppend DEF ClientSet
<1>5. who \in ClientSet' \cup {NoClient}
  <2> HIDE DEF cl
  <2> QED BY <1>3, FirstNamedListed DEF ClientSet
<1>6. new \in ClientType /\ new.socket = f
  <2>1. DefaultName[f] \in Names
    BY <1>1, EventLoopAssumption
  <2> QED BY <1>1, <2>1, FreedClientType DEF ClientType
<1> HIDE DEF new
<1>7. cl \in [Cells -> ClientType] /\ \A d \in Cells : cl[d] = IF d = cell THEN new ELSE client[d]
  BY <1>0, <1>6
<1> HIDE DEF cl
<1>8. /\ client' \in [Cells -> ClientType]
      /\ \A d \in Cells : client'[d].socket = cl[d].socket
  <2>1. client' = cl \/ client' = [cl EXCEPT ![who] = history_print(cl[who])]
    BY <1>2 DEF cl, new
  <2>2. \A d \in Cells : /\ history_print(cl[d]) \in ClientType
                         /\ history_print(cl[d]).socket = cl[d].socket
    BY <1>7, PrintedType
  <2> HIDE DEF who
  <2>3. CASE client' = cl
    BY <1>7, <2>3
  <2>4. CASE client' = [cl EXCEPT ![who] = history_print(cl[who])]
    <3>1. \A d \in Cells : client'[d] = IF d = who THEN history_print(cl[d]) ELSE cl[d]
      BY <1>7, <2>4
    <3>2. \A d \in Cells : client'[d] \in ClientType
      BY <1>7, <2>2, <3>1
    <3>3. client' \in [Cells -> ClientType]
      <4> HIDE DEF ClientType
      <4> QED BY <1>7, <2>2, <2>4
    <3> QED BY <2>2, <3>1, <3>3
  <2> QED BY <2>1, <2>3, <2>4
<1>9. \A d \in Cells : client'[d].socket = IF d = cell THEN f ELSE client[d].socket
  BY <1>6, <1>7, <1>8
<1>10. {active_client', shown'} \subseteq {active_client, shown, who}
  BY <1>2 DEF cl, new
<1> HIDE DEF who, list
<1>11. PointersListed' /\ {active_client', shown'} \subseteq Cells \cup {NoClient}
  BY <1>0, <1>2, <1>4, <1>5, <1>10, Listed DEF PointersListed
<1>12. FreedHasNone'
  BY <1>0, <1>4, <1>9 DEF FreedHasNone, SocketOf
(* The array. *)
<1>13. /\ nfds' \in Nat \ {0} /\ nfds' >= nfds /\ fd_count' = fd_count + 1
       /\ fd_count' \in 2 .. nfds'
       /\ pfds' = [j \in 0 .. nfds' - 1 |->
                     IF j = fd_count THEN [fd |-> f, revents |-> {}]
                     ELSE IF j \in 0 .. nfds - 1 THEN pfds[j] ELSE NullPfd]
  BY <1>0, <1>2 DEF Grown, pfd_insert
<1>14. pfds' \in [0 .. nfds' - 1 -> Pfd]
  <2>1. NullPfd \in Pfd /\ [fd |-> f, revents |-> {}] \in Pfd
    BY <1>1, EventLoopAssumption DEF NullPfd, Pfd
  <2> HIDE DEF Pfd
  <2> QED BY <1>0, <1>13, <2>1
<1>15. /\ \A j \in 0 .. fd_count - 1 : pfds'[j] = pfds[j]
       /\ pfds'[fd_count].fd = f
       /\ \A j \in fd_count + 1 .. nfds' - 1 : pfds'[j] = NullPfd
  BY <1>0, <1>13 DEF SocketsMatch
<1>16. ClientSlots' = ClientSlots \cup {fd_count} /\ fd_count \notin ClientSlots
  <2>1. fd_count \in Nat /\ fd_count >= 2 /\ fd_count' = fd_count + 1
    BY <1>0, <1>13
  <2>2. 2 .. fd_count' - 1 = (2 .. fd_count - 1) \cup {fd_count}
    BY <2>1
  <2> QED BY <2>1, <2>2 DEF ClientSlots, MIN_CLIENT_SOCK
(* The connection. *)
<1>17. conn' \in [Conns -> ConnType]
  BY <1>0 DEF ConnType
<1>18. file' = [file EXCEPT ![f] = c] /\ file' \in [Fds -> Conns \cup {NoConn}]
  BY <1>0, <1>1, <1>2
<1>19. \A g \in Fds : file[g] # c
  BY <1>0, EventLoopAssumption DEF OpenIsLive, Down
<1>20. OpenIsLive'
  <2>1. \A g \in Fds : g # f => file'[g] = file[g]
    BY <1>0, <1>18
  <2>2. \A g \in Fds : file[g] # NoConn => conn'[file[g]] = conn[file[g]]
    BY <1>0, <1>19
  <2>3. conn'[c].peer = "up" /\ file'[f] = c
    BY <1>0, <1>1, <1>18 DEF ConnType
  <2> QED BY <1>0, <1>18, <2>1, <2>2, <2>3 DEF OpenIsLive
<1>21. Fds \ FreeFds' = (Fds \ FreeFds) \cup {f}
  BY <1>0, <1>1, <1>18, EventLoopAssumption DEF FreeFds
(* The match. *)
<1>22. \A d \in ClientSet : /\ d \in Cells /\ d # cell
                           /\ client'[d].socket = client[d].socket /\ client[d].socket # f
  BY <1>1, <1>2, <1>9, Listed, EventLoopAssumption DEF SocketOf
<1>23. cell \in Cells /\ client'[cell].socket = f
  BY <1>2, <1>9
<1>24. {client'[d].socket : d \in ClientSet'} = {client[d].socket : d \in ClientSet} \cup {f}
  BY <1>4, <1>22, <1>23
<1>25. \A j \in ClientSlots : pfds'[j].fd = pfds[j].fd /\ pfds[j].fd # f
  <2>1. \A j \in ClientSlots : j \in 0 .. fd_count - 1 /\ file[pfds[j].fd] # NoConn
    BY SlotListed, EventLoopAssumption DEF ClientSlots, MIN_CLIENT_SOCK
  <2> QED BY <1>1, <1>15, <2>1
<1>26. {pfds'[j].fd : j \in ClientSlots'} = {pfds[j].fd : j \in ClientSlots} \cup {f}
  BY <1>15, <1>16, <1>25
<1>27. /\ SocketsMatch /\ {pfds[j].fd : j \in ClientSlots} = {client[d].socket : d \in ClientSet}
       /\ {client[d].socket : d \in ClientSet} = Fds \ FreeFds
  BY <1>0 DEF SocketsMatch, SocketOf
<1>28. SocketsMatch'
  <2>1. pfds'[0].fd = STDIN_FILENO /\ pfds'[1].fd = server_socket
    <3>1. 0 \in 0 .. fd_count - 1 /\ 1 \in 0 .. fd_count - 1
      BY <1>0
    <3> QED BY <1>15, <1>27, <3>1 DEF SocketsMatch
  <2>2. \A j \in fd_count' .. nfds' - 1 : pfds'[j] = NullPfd
    BY <1>13, <1>15
  <2>3. \A j, k \in ClientSlots' : pfds'[j].fd = pfds'[k].fd => j = k
    BY <1>15, <1>16, <1>25, <1>27 DEF SocketsMatch
  <2>4. \A j, k \in DOMAIN client_list' :
           client'[client_list'[j]].socket = client'[client_list'[k]].socket => j = k
    <3>1. \A j \in 1 .. Len(client_list) :
             client_list[j] \in ClientSet /\ j \in DOMAIN client_list
      BY Listed DEF ClientSet, ToSet
    <3>2. \A j \in 1 .. Len(client_list) : client'[list[j]].socket = client[client_list[j]].socket
      BY <1>3, <1>22, <3>1
    <3>3. \A j \in 1 .. Len(client_list) : client'[list[j]].socket # f
      BY <1>22, <3>1, <3>2
    <3>4. client'[list[Len(client_list) + 1]].socket = f
      BY <1>3, <1>23
    <3>5. \A j \in DOMAIN list : j \in 1 .. Len(client_list) \/ j = Len(client_list) + 1
      BY <1>3, Listed
    <3>6. \A j, k \in 1 .. Len(client_list) :
             client'[list[j]].socket = client'[list[k]].socket => j = k
      BY <1>27, <3>1, <3>2 DEF SocketsMatch, SocketOf
    <3> QED BY <1>3, <3>3, <3>4, <3>5, <3>6
  <2>5. {pfds'[j].fd : j \in ClientSlots'} = {client'[d].socket : d \in ClientSet'}
    BY <1>24, <1>26, <1>27
  <2>6. {client'[d].socket : d \in ClientSet'} = Fds \ FreeFds'
    BY <1>21, <1>24, <1>27
  <2>7. \A g, h \in Fds : file'[g] = file'[h] /\ file'[g] # NoConn => g = h
    BY <1>0, <1>1, <1>18, <1>19, <1>27 DEF SocketsMatch
  <2> QED BY <2>1, <2>2, <2>3, <2>4, <2>5, <2>6, <2>7 DEF SocketsMatch, SocketOf
<1> QED BY <1>3, <1>8, <1>11, <1>12, <1>13, <1>14, <1>17, <1>18, <1>20, <1>28

\* The client of a slot leaves: the list, the array, the pointers, the descriptor
\* and the connection lose the same client.
LEMMA DisconnectKeeps ==
  ASSUME IInv, Running, NEW k \in ClientSlots, client_disconnect(k)
  PROVE  /\ nfds' = nfds
         /\ fd_count' \in 2 .. nfds /\ pfds' \in [0 .. nfds - 1 -> Pfd]
         /\ client_list' \in Seq(Cells) /\ client' \in [Cells -> ClientType]
         /\ {active_client', shown'} \subseteq Cells \cup {NoClient}
         /\ conn' \in [Conns -> ConnType] /\ file' \in [Fds -> Conns \cup {NoConn}]
         /\ SocketsMatch' /\ PointersListed' /\ FreedHasNone' /\ OpenIsLive'
<1>0. /\ nfds \in Nat \ {0} /\ fd_count \in 2 .. nfds /\ pfds \in [0 .. nfds - 1 -> Pfd]
      /\ client_list \in Seq(Cells) /\ client \in [Cells -> ClientType]
      /\ conn \in [Conns -> ConnType] /\ file \in [Fds -> Conns \cup {NoConn}]
      /\ {active_client, shown} \subseteq ClientSet \cup {NoClient}
      /\ SocketsMatch /\ FreedHasNone /\ OpenIsLive
  BY PointersHold DEF IInv, TypeOK
<1> DEFINE f    == pfds[k].fd
           p    == Position(f)
           c    == ClientOf(f)
           last == fd_count - 1
<1>1. /\ f \in Fds /\ file[f] \in Conns
      /\ p \in 1 .. Len(client_list) /\ c = client_list[p]
      /\ c \in ClientSet /\ c \in Cells /\ client[c].socket = f
  BY SlotListed, Listed DEF ClientOf, SocketOf
<1>2. /\ active_client' = UnsetActive(c) /\ shown' = NoClient
      /\ client_list' = RemoveAt(client_list, p)
      /\ client' = [client EXCEPT ![c] = FreedClient]
      /\ pfds' = [pfds EXCEPT ![k] = pfds[last], ![last] = NullPfd]
      /\ fd_count' = fd_count - 1
      /\ conn' = [conn EXCEPT ![file[f]] = Gone]
      /\ file' = [file EXCEPT ![f] = NoConn]
      /\ nfds' = nfds
  BY DEF client_disconnect, pfd_destroy
<1>3. /\ k \in 2 .. last /\ last \in Nat /\ fd_count \in Nat /\ last \in 0 .. nfds - 1
      /\ ClientSlots = 2 .. last /\ nfds \in Nat /\ last >= 2
  BY <1>0 DEF ClientSlots, MIN_CLIENT_SOCK
<1> HIDE DEF f, p, c
(* The list and the pointers. *)
<1>4. /\ client_list' \in Seq(Cells)
      /\ DOMAIN client_list' = 1 .. Len(client_list) - 1
      /\ \A j \in 1 .. Len(client_list) - 1 :
            client_list'[j] = IF j < p THEN client_list[j] ELSE client_list[j + 1]
  <2>1. /\ client_list' \in Seq(Cells) /\ Len(client_list') = Len(client_list) - 1
        /\ \A j \in 1 .. Len(client_list) - 1 :
              client_list'[j] = IF j < p THEN client_list[j] ELSE client_list[j + 1]
    BY <1>0, <1>1, <1>2, RemoveAtProperties
  <2>2. DOMAIN client_list' = 1 .. Len(client_list')
    BY <2>1, LenProperties
  <2> QED BY <2>1, <2>2
<1>5. ClientSet' = ClientSet \ {c}
  BY <1>0, <1>1, <1>2, Listed, ToSetRemoveAt DEF ClientSet
<1>6. client' \in [Cells -> ClientType]
  BY <1>0, <1>2, FreedClientType
<1>7. \A d \in Cells : client'[d].socket = IF d = c THEN Garbage ELSE client[d].socket
  BY <1>0, <1>2, FreedClientType
<1>8. PointersListed' /\ {active_client', shown'} \subseteq Cells \cup {NoClient}
  BY <1>0, <1>2, <1>5, Listed DEF PointersListed, UnsetActive
<1>9. FreedHasNone'
  BY <1>0, <1>5, <1>7 DEF FreedHasNone, SocketOf
(* The array. *)
<1>10. fd_count' \in 2 .. nfds
  BY <1>0, <1>2, <1>3
<1>11. pfds' \in [0 .. nfds - 1 -> Pfd]
  <2>1. NullPfd \in Pfd
    BY DEF NullPfd, Pfd
  <2> HIDE DEF Pfd
  <2> QED BY <1>0, <1>2, <1>3, <2>1
<1>12. \A j \in 0 .. nfds - 1 :
         pfds'[j] = IF j = last THEN NullPfd ELSE IF j = k THEN pfds[last] ELSE pfds[j]
  BY <1>0, <1>2, <1>3
<1>13. ClientSlots' = 2 .. last - 1
  BY <1>2 DEF ClientSlots, MIN_CLIENT_SOCK
<1>14. /\ \A j \in 2 .. last : pfds[j].fd = f => j = k
       /\ \A j, l \in 2 .. last : pfds[j].fd = pfds[l].fd => j = l
       /\ \A j \in last + 1 .. nfds - 1 : pfds[j] = NullPfd
  BY <1>0, <1>3 DEF SocketsMatch, f
<1>15. \A j \in 2 .. last - 1 :
         /\ j \in 0 .. nfds - 1 /\ j \in 2 .. last /\ j # last
         /\ pfds'[j] = IF j = k THEN pfds[last] ELSE pfds[j]
  BY <1>3, <1>12
<1>16. {pfds'[j].fd : j \in ClientSlots'} = {pfds[j].fd : j \in ClientSlots} \ {f}
  <2>1. ASSUME NEW j \in 2 .. last - 1
        PROVE  pfds'[j].fd \in {pfds[l].fd : l \in 2 .. last} \ {f}
    BY <1>3, <1>14, <1>15
  <2>2. ASSUME NEW l \in 2 .. last, l # k
        PROVE  \E j \in 2 .. last - 1 : pfds'[j].fd = pfds[l].fd
    <3>1. CASE l = last
      BY <1>3, <1>15, <2>2, <3>1
    <3>2. CASE l # last
      BY <1>3, <1>15, <2>2, <3>2
    <3> QED BY <3>1, <3>2
  <2>3. pfds[k].fd = f
    BY DEF f
  <2>4. {pfds'[j].fd : j \in 2 .. last - 1} \subseteq {pfds[j].fd : j \in 2 .. last} \ {f}
    BY <2>1
  <2>5. {pfds[j].fd : j \in 2 .. last} \ {f} \subseteq {pfds'[j].fd : j \in 2 .. last - 1}
    BY <2>2, <2>3
  <2> QED BY <1>3, <1>13, <2>4, <2>5
(* The connection. *)
<1>17. conn' \in [Conns -> ConnType]
  <2>1. Gone \in ConnType
    BY DEF Gone, ConnType
  <2> QED BY <1>0, <1>2, <2>1
<1>18. file' \in [Fds -> Conns \cup {NoConn}]
  BY <1>0, <1>2
<1>19. \A g \in Fds : file'[g] = IF g = f THEN NoConn ELSE file[g]
  BY <1>0, <1>2
<1>20. \A g, h \in Fds : file[g] = file[h] /\ file[g] # NoConn => g = h
  BY <1>0 DEF SocketsMatch
<1>21. OpenIsLive'
  <2>1. ASSUME NEW g \in Fds, file'[g] # NoConn
        PROVE  conn'[file'[g]].peer \in {"up", "shut"} \cup Down
    <3>1. g # f /\ file'[g] = file[g] /\ file[g] # NoConn
      BY <1>19, <2>1
    <3>2. file[g] # file[f] /\ file[g] \in Conns
      BY <1>0, <1>1, <1>20, <3>1
    <3>3. conn'[file[g]] = conn[file[g]]
      BY <1>0, <1>2, <3>2
    <3> QED BY <1>0, <3>1, <3>3 DEF OpenIsLive
  <2> QED BY <2>1 DEF OpenIsLive
<1>22. Fds \ FreeFds' = (Fds \ FreeFds) \ {f}
  BY <1>19 DEF FreeFds
(* The match. *)
<1>23. \A d \in ClientSet : d \in Cells /\ (client[d].socket = f => d = c)
  BY <1>1, Listed DEF SocketOf
<1>24. {client'[d].socket : d \in ClientSet'} = {client[d].socket : d \in ClientSet} \ {f}
  <2>1. \A d \in ClientSet \ {c} : client'[d].socket = client[d].socket /\ client[d].socket # f
    BY <1>7, <1>23
  <2> QED BY <1>1, <1>5, <2>1
<1>25. /\ {pfds[j].fd : j \in ClientSlots} = {client[d].socket : d \in ClientSet}
       /\ {client[d].socket : d \in ClientSet} = Fds \ FreeFds
  BY <1>0 DEF SocketsMatch, SocketOf
<1>26. SocketsMatch'
  <2>1. pfds'[0].fd = STDIN_FILENO /\ pfds'[1].fd = server_socket
    <3>1. pfds'[0] = pfds[0] /\ pfds'[1] = pfds[1]
      BY <1>3, <1>12
    <3> QED BY <1>0, <3>1 DEF SocketsMatch
  <2>2. \A j \in fd_count' .. nfds' - 1 : pfds'[j] = NullPfd
    <3>1. \A j \in last .. nfds - 1 : j \in 0 .. nfds - 1 /\ (j = last \/ j \in last + 1 .. nfds - 1)
      BY <1>3
    <3>2. \A j \in last + 1 .. nfds - 1 : j # k
      BY <1>3
    <3> QED BY <1>2, <1>12, <1>14, <3>1, <3>2
  <2>3. \A j, l \in ClientSlots' : pfds'[j].fd = pfds'[l].fd => j = l
    <3>1. \A j \in 2 .. last - 1 : pfds'[j].fd = IF j = k THEN pfds[last].fd ELSE pfds[j].fd
      BY <1>15
    <3>2. last \in 2 .. last
      BY <1>3
    <3> QED BY <1>13, <1>14, <1>15, <3>1, <3>2
  <2>4. \A j, l \in DOMAIN client_list' :
           client'[client_list'[j]].socket = client'[client_list'[l]].socket => j = l
    <3>1. ASSUME NEW j \in DOMAIN client_list'
          PROVE  LET m == IF j < p THEN j ELSE j + 1
                 IN  /\ m \in DOMAIN client_list /\ client_list'[j] = client_list[m]
                     /\ client'[client_list'[j]].socket = client[client_list[m]].socket
      <4> DEFINE m == IF j < p THEN j ELSE j + 1
      <4>1. m \in 1 .. Len(client_list) /\ m # p /\ client_list'[j] = client_list[m]
        BY <1>1, <1>4, Listed
      <4> HIDE DEF m
      <4>2. client_list[m] # c /\ client_list[m] \in Cells /\ m \in DOMAIN client_list
        BY <1>1, <4>1, Listed DEF ClientSet, ToSet
      <4> QED BY <1>7, <4>1, <4>2 DEF m
    <3>2. \A j, l \in DOMAIN client_list :
             client[client_list[j]].socket = client[client_list[l]].socket => j = l
      BY <1>0 DEF SocketsMatch, SocketOf
    <3>3. \A j \in DOMAIN client_list' : j \in Int
      BY <1>4
    <3>4. p \in Int
      BY <1>1
    <3> QED BY <3>1, <3>2, <3>3, <3>4
  <2>5. {pfds'[j].fd : j \in ClientSlots'} = {client'[d].socket : d \in ClientSet'}
    BY <1>16, <1>24, <1>25
  <2>6. {client'[d].socket : d \in ClientSet'} = Fds \ FreeFds'
    BY <1>22, <1>24, <1>25
  <2>7. \A g, h \in Fds : file'[g] = file'[h] /\ file'[g] # NoConn => g = h
    BY <1>19, <1>20
  <2> QED BY <2>1, <2>2, <2>3, <2>4, <2>5, <2>6, <2>7 DEF SocketsMatch, SocketOf
<1> QED BY <1>2, <1>4, <1>6, <1>8, <1>9, <1>10, <1>11, <1>17, <1>18, <1>21, <1>26

-----------------------------------------------------------------------------
(* Steps that change one part of the state.                                *)

Live == {"up", "shut"} \cup Down

Statuses == {"running", "exited", "failed", "killed", "undefined"}

\* Only the place in the pass, the status and the count of lines change.
LEMMA LoopStep ==
  ASSUME IInv, UNCHANGED <<pollVars, clientVars, queueVars, netVars>>,
         status' \in Statuses, status = "undefined" => status' = "undefined",
         error' \in ErrorType,
         quit' \in {0, 1}, pc' \in {"poll", "stdin", "server", "client", "out"},
         i' \in Nat, msg' \in Nat, typed' \in Nat, InSlots'
  PROVE  IInv'
<1> USE DEF pollVars, clientVars, queueVars, netVars
<1>1. SocketsMatch' /\ FreedHasNone'
  BY MatchKept
<1>2. TypeOK'
  BY DEF IInv, TypeOK, Statuses
<1>3. PointersListed' /\ OpenIsLive' /\ QueuedMade'
  BY DEF IInv, PointersListed, ClientSet, OpenIsLive, QueuedMade
<1> QED BY <1>1, <1>2, <1>3 DEF IInv

\* Only the connections change, and those made stay made.
LEMMA NetStep ==
  ASSUME IInv, UNCHANGED <<exitVars, loopVars, pollVars, clientVars, queueVars, file, typed>>,
         conn' \in [Conns -> ConnType],
         \A c \in Conns : conn[c].peer \in Live => conn'[c].peer \in Live
  PROVE  IInv'
<1> USE DEF exitVars, loopVars, pollVars, clientVars, queueVars
<1>1. SocketsMatch' /\ FreedHasNone'
  BY MatchKept
<1>2. TypeOK'
  BY DEF IInv, TypeOK
<1>3. OpenIsLive'
  <2>1. \A f \in Fds : file[f] # NoConn => file[f] \in Conns
    BY DEF IInv, TypeOK
  <2> QED BY <2>1 DEF IInv, OpenIsLive, Live
<1>4. PointersListed' /\ QueuedMade' /\ InSlots'
  BY DEF IInv, PointersListed, ClientSet, QueuedMade, InSlots
<1> QED BY <1>1, <1>2, <1>3, <1>4 DEF IInv

\* Only client records and pointers into the list change.
LEMMA ClientStep ==
  ASSUME IInv, UNCHANGED <<exitVars, i, msg, quit, pollVars, client_list, queueVars, netVars>>,
         pc' = "server", typed' \in Nat,
         client' \in [Cells -> ClientType],
         \A c \in Cells : client'[c].socket = client[c].socket,
         {active_client', shown'} \subseteq ClientSet \cup {NoClient}
  PROVE  IInv'
<1> USE DEF exitVars, pollVars, queueVars, netVars
<1>1. SocketsMatch' /\ FreedHasNone'
  BY MatchKept
<1>2. PointersListed' /\ {active_client', shown'} \subseteq Cells \cup {NoClient}
  BY Listed DEF PointersListed, ClientSet
<1>3. TypeOK'
  BY <1>2 DEF IInv, TypeOK
<1>4. OpenIsLive' /\ QueuedMade' /\ InSlots'
  BY DEF IInv, OpenIsLive, QueuedMade, InSlots
<1> QED BY <1>1, <1>2, <1>3, <1>4 DEF IInv

-----------------------------------------------------------------------------
(* The handlers.                                                           *)

\* The loop starts with stdin, the server and no client.
LEMMA InitIInv == Init => IInv
<1> SUFFICES ASSUME Init PROVE IInv
  OBVIOUS
<1>1. /\ pfds = [j \in 0 .. 2 |-> IF j = 0 THEN [fd |-> 0, revents |-> {}]
                                  ELSE IF j = 1 THEN [fd |-> 3, revents |-> {}] ELSE NullPfd]
      /\ nfds = 3 /\ fd_count = 2
  BY DEF Init, pfd_insert, pfd_create_array, Grown, N_PFDS, STDIN_FILENO, server_socket, NullPfd
<1>2. client_list = <<>> /\ ClientSet = {} /\ DOMAIN client_list = {}
  BY DEF Init, ClientSet, ToSet
<1>3. ClientSlots = {}
  BY <1>1 DEF ClientSlots, MIN_CLIENT_SOCK
<1>4. FreeFds = Fds
  BY DEF Init, FreeFds
<1>5. pfds \in [0 .. nfds - 1 -> Pfd]
  BY <1>1 DEF Pfd, NullPfd
<1>6. TypeOK
  <2>1. client \in [Cells -> ClientType]
    BY FreedClientType DEF Init
  <2>2. conn \in [Conns -> ConnType]
    BY EventLoopAssumption DEF Init, ConnType
  <2>3. /\ client_list \in Seq(Cells) /\ made \in Seq([body : Bodies, to : Conns])
        /\ message_queue \in Seq([id : Nat, client : Cells, body : Bodies])
        /\ wire \in [Conns -> Seq(Nat)]
    BY EmptySeq DEF Init
  <2>4. file \in [Fds -> Conns \cup {NoConn}]
    BY DEF Init
  <2> QED BY <1>1, <1>5, <2>1, <2>2, <2>3, <2>4 DEF Init, TypeOK, ErrorType
<1>7. SocketsMatch
  <2>1. pfds[0].fd = STDIN_FILENO /\ pfds[1].fd = server_socket
    BY <1>1 DEF STDIN_FILENO, server_socket
  <2>2. \A j \in fd_count .. nfds - 1 : pfds[j] = NullPfd
    BY <1>1
  <2>3. {pfds[j].fd : j \in ClientSlots} = {} /\ {SocketOf(c) : c \in ClientSet} = {}
    BY <1>2, <1>3
  <2>4. Fds \ FreeFds = {} /\ \A f \in Fds : file[f] = NoConn
    BY <1>4 DEF Init
  <2> QED BY <1>2, <1>3, <2>1, <2>2, <2>3, <2>4 DEF SocketsMatch
<1>8. PointersListed /\ FreedHasNone /\ OpenIsLive /\ QueuedMade /\ InSlots
  BY FreedClientType DEF Init, PointersListed, FreedHasNone, OpenIsLive, QueuedMade, InSlots, SocketOf
<1> QED BY <1>6, <1>7, <1>8 DEF IInv

\* poll writes revents of the slots in use, and no descriptor.
LEMMA PollStep == IInv /\ Poll => IInv'
<1> SUFFICES ASSUME IInv, Poll PROVE IInv'
  OBVIOUS
<1>1. PICK line \in {FALSE} \cup {typed < MaxLines} :
        pfds' = [j \in DOMAIN pfds |->
                   IF j < fd_count THEN Refreshed(pfds[j], line) ELSE pfds[j]]
  BY DEF Poll
<1>2. /\ nfds \in Nat \ {0} /\ fd_count \in 2 .. nfds
      /\ pfds \in [0 .. nfds - 1 -> Pfd] /\ DOMAIN pfds = 0 .. nfds - 1
  BY DEF IInv, TypeOK
<1>3. ASSUME NEW p \in Pfd PROVE Refreshed(p, line) \in Pfd /\ Refreshed(p, line).fd = p.fd
  <2>1. Ready(p.fd, line) \subseteq Events
    BY DEF Ready, Readiness, Events
  <2> QED BY <2>1 DEF Refreshed, Pfd
<1>4. \A j \in 0 .. nfds - 1 : pfds[j] \in Pfd
  BY <1>2
<1>5. pfds' \in [0 .. nfds - 1 -> Pfd]
  <2> HIDE DEF Pfd
  <2> QED BY <1>1, <1>2, <1>3, <1>4
<1>6. \A j \in 0 .. nfds - 1 :
         pfds'[j].fd = pfds[j].fd /\ (j >= fd_count => pfds'[j] = pfds[j])
  BY <1>1, <1>2, <1>3, <1>4
<1> USE DEF Poll, Goto, exitVars, clientVars, queueVars, netVars
<1>7. SocketsMatch' /\ FreedHasNone'
  BY <1>6, MatchKept
<1>8. TypeOK'
  BY <1>5 DEF IInv, TypeOK
<1>9. PointersListed' /\ OpenIsLive' /\ QueuedMade' /\ InSlots'
  BY DEF IInv, PointersListed, ClientSet, OpenIsLive, QueuedMade, InSlots
<1> QED BY <1>7, <1>8, <1>9 DEF IInv

\* set_active_client prints the client it finds.
LEMMA SelectStep == IInv /\ (\E n \in Names : TypeSelect(n)) => IInv'
<1> SUFFICES ASSUME IInv, NEW n \in Names, TypeSelect(n) PROVE IInv'
  OBVIOUS
<1> DEFINE who == FirstNamed(client_list, client, n)
<1>1. /\ client \in [Cells -> ClientType] /\ client_list \in Seq(Cells)
      /\ {active_client, shown} \subseteq ClientSet \cup {NoClient} /\ typed \in Nat
  BY PointersHold DEF IInv, TypeOK, TypeSelect, HasLine, AtStdin
<1>2. who \in ClientSet \cup {NoClient}
  BY <1>1, FirstNamedListed DEF ClientSet
<1>3. /\ UNCHANGED client_list
      /\ {active_client', shown'} \subseteq {active_client, shown, who}
      /\ client' = client \/ (who # NoClient /\ client' = [client EXCEPT ![who] = history_print(client[who])])
  BY DEF TypeSelect, clientVars
<1> HIDE DEF who
<1>4. \A d \in Cells : /\ history_print(client[d]) \in ClientType
                       /\ history_print(client[d]).socket = client[d].socket
  BY <1>1, PrintedType
<1>5. /\ client' \in [Cells -> ClientType]
      /\ \A d \in Cells : client'[d].socket = client[d].socket
  <2>1. CASE client' = client
    BY <1>1, <2>1
  <2>2. CASE who # NoClient /\ client' = [client EXCEPT ![who] = history_print(client[who])]
    <3>1. \A d \in Cells : client'[d] = IF d = who THEN history_print(client[d]) ELSE client[d]
      BY <1>1, <2>2
    <3>2. client' \in [Cells -> ClientType]
      <4> HIDE DEF ClientType
      <4> QED BY <1>1, <1>4, <2>2
    <3> QED BY <1>4, <3>1, <3>2
  <2> QED BY <1>3, <2>1, <2>2
<1> QED BY <1>1, <1>2, <1>3, <1>5, ClientStep DEF TypeSelect, Goto

\* set_client_username keeps sockets.
LEMMA RenameStep == IInv /\ (\E n \in Names : TypeRename(n)) => IInv'
<1> SUFFICES ASSUME IInv, NEW n \in Names, TypeRename(n) PROVE IInv'
  OBVIOUS
<1>1. /\ client \in [Cells -> ClientType] /\ typed \in Nat
      /\ {active_client, shown} \subseteq ClientSet \cup {NoClient}
  BY PointersHold DEF IInv, TypeOK, TypeRename, HasLine, AtStdin
<1>2. client' = client \/ client' = [client EXCEPT ![active_client].username = n]
  BY DEF TypeRename
<1>3. /\ client' \in [Cells -> ClientType]
      /\ \A d \in Cells : client'[d].socket = client[d].socket
  <2>1. CASE client' = client
    BY <1>1, <2>1
  <2>2. CASE client' = [client EXCEPT ![active_client].username = n]
    <3>1. \A d \in Cells : /\ [client[d] EXCEPT !.username = n] \in ClientType
                           /\ [client[d] EXCEPT !.username = n].socket = client[d].socket
      BY <1>1 DEF ClientType
    <3>2. \A d \in Cells : client'[d] = IF d = active_client
                                        THEN [client[d] EXCEPT !.username = n] ELSE client[d]
      BY <1>1, <2>2
    <3>3. client' \in [Cells -> ClientType]
      <4> HIDE DEF ClientType
      <4> QED BY <1>1, <2>2, <3>1
    <3> QED BY <3>1, <3>2, <3>3
  <2> QED BY <1>2, <2>1, <2>2
<1> QED BY <1>1, <1>3, ClientStep DEF TypeRename, Goto

\* message_create names the active client, which the list holds.
LEMMA TextStep == IInv /\ (\E b \in Bodies : TypeText(b)) => IInv'
<1> SUFFICES ASSUME IInv, NEW b \in Bodies, TypeText(b) PROVE IInv'
  OBVIOUS
<1> USE DEF TypeText, Goto, exitVars, pollVars, clientVars, netVars
<1>1. /\ message_queue \in Seq([id : Nat, client : Cells, body : Bodies])
      /\ made \in Seq([body : Bodies, to : Conns]) /\ wire \in [Conns -> Seq(Nat)]
      /\ typed \in Nat /\ QueuedMade
  BY DEF IInv, TypeOK
<1>2. /\ message_queue' \in Seq([id : Nat, client : Cells, body : Bodies])
      /\ made' \in Seq([body : Bodies, to : Conns]) /\ wire' \in [Conns -> Seq(Nat)]
      /\ QueuedMade'
  <2>1. CASE active_client = NoClient
    BY <1>1, <2>1 DEF queueVars, QueuedMade
  <2>2. CASE active_client # NoClient
    <3> DEFINE new == [id |-> Len(made) + 1, client |-> active_client, body |-> b]
               log == [body |-> b, to |-> file[SocketOf(active_client)]]
    <3>1. active_client \in Cells /\ file[SocketOf(active_client)] \in Conns
      BY <2>2, Listed, PointersHold DEF HasLine, AtStdin
    <3>2. Len(made) \in Nat /\ DOMAIN made = 1 .. Len(made)
      BY <1>1, LenProperties
    <3>3. new \in [id : Nat, client : Cells, body : Bodies] /\ new.id = Len(made) + 1
      BY <3>1, <3>2
    <3>4. log \in [body : Bodies, to : Conns]
      BY <3>1
    <3>5. message_queue' = Append(message_queue, new) /\ made' = Append(made, log) /\ wire' = wire
      BY <2>2
    <3> HIDE DEF new, log
    <3>6. /\ made' \in Seq([body : Bodies, to : Conns]) /\ Len(made') = Len(made) + 1
      BY <1>1, <3>4, <3>5, AppendProperties
    <3>7. DOMAIN made' = 1 .. Len(made) + 1
      BY <3>6, LenProperties
    <3>8. /\ message_queue' \in Seq([id : Nat, client : Cells, body : Bodies])
          /\ Len(message_queue') = Len(message_queue) + 1
          /\ \A j \in 1 .. Len(message_queue) : message_queue'[j] = message_queue[j]
          /\ message_queue'[Len(message_queue) + 1] = new
      BY <1>1, <3>3, <3>5, AppendProperties
    <3>9. /\ DOMAIN message_queue = 1 .. Len(message_queue) /\ Len(message_queue) \in Nat
          /\ DOMAIN message_queue' = 1 .. Len(message_queue) + 1
      BY <1>1, <3>8, LenProperties
    <3>10. \A j \in DOMAIN message_queue' : message_queue'[j].id \in 1 .. Len(made) + 1
      <4>1. \A j \in 1 .. Len(message_queue) : message_queue[j].id \in 1 .. Len(made)
        BY <1>1, <3>2, <3>9 DEF QueuedMade
      <4>2. \A j \in DOMAIN message_queue' :
               j \in 1 .. Len(message_queue) \/ j = Len(message_queue) + 1
        BY <3>9
      <4>3. 1 .. Len(made) \subseteq 1 .. Len(made) + 1 /\ Len(made) + 1 \in 1 .. Len(made) + 1
        BY <3>2
      <4> QED BY <3>3, <3>8, <4>1, <4>2, <4>3
    <3> QED BY <1>1, <3>5, <3>6, <3>7, <3>8, <3>10 DEF QueuedMade
  <2> QED BY <2>1, <2>2
<1>3. SocketsMatch' /\ FreedHasNone'
  BY MatchKept
<1>4. TypeOK'
  BY <1>2 DEF IInv, TypeOK
<1>5. PointersListed' /\ OpenIsLive' /\ InSlots'
  BY DEF IInv, PointersListed, ClientSet, OpenIsLive, InSlots
<1> QED BY <1>2, <1>3, <1>4, <1>5 DEF IInv

\* client_connect adds a client.
LEMMA ConnectStep == IInv /\ (\E c \in Conns : TypeConnect(c)) => IInv'
<1> SUFFICES ASSUME IInv, NEW c \in Conns, TypeConnect(c) PROVE IInv'
  OBVIOUS
<1>1. /\ Running /\ FreeFds # {} /\ conn[c].peer \in {"idle", "knocking"}
      /\ conn' = [conn EXCEPT ![c].peer = "up"] /\ AddClient(c)
  BY DEF TypeConnect, HasLine, AtStdin
<1>2. /\ pc' = "server" /\ typed' = typed + 1
      /\ UNCHANGED <<status, error, quit, i, msg, message_queue, made, wire>>
  BY DEF TypeConnect, Goto, exitVars, queueVars
<1>3. /\ nfds' \in Nat \ {0} /\ nfds' >= nfds
      /\ fd_count' \in 2 .. nfds' /\ pfds' \in [0 .. nfds' - 1 -> Pfd]
      /\ client_list' \in Seq(Cells) /\ client' \in [Cells -> ClientType]
      /\ {active_client', shown'} \subseteq Cells \cup {NoClient}
      /\ conn' \in [Conns -> ConnType] /\ file' \in [Fds -> Conns \cup {NoConn}]
      /\ SocketsMatch' /\ PointersListed' /\ FreedHasNone' /\ OpenIsLive'
  BY <1>1, AddKeeps
<1>4. TypeOK'
  <2>1. typed' \in Nat /\ i' \in Nat /\ msg' \in Nat /\ quit' \in {0, 1}
    BY <1>2 DEF IInv, TypeOK
  <2>2. /\ status' \in Statuses
        /\ error' \in ErrorType
        /\ message_queue' \in Seq([id : Nat, client : Cells, body : Bodies])
        /\ made' \in Seq([body : Bodies, to : Conns]) /\ wire' \in [Conns -> Seq(Nat)]
    BY <1>2 DEF IInv, TypeOK, Statuses
  <2> QED BY <1>2, <1>3, <2>1, <2>2 DEF TypeOK, Statuses
<1>5. QueuedMade' /\ InSlots'
  BY <1>2 DEF IInv, QueuedMade, InSlots, MIN_CLIENT_SOCK
<1> QED BY <1>3, <1>4, <1>5 DEF IInv

\* accept_connection adds a client.
LEMMA AcceptStep == IInv /\ (\E c \in Conns : accept_connection(c)) => IInv'
<1> SUFFICES ASSUME IInv, NEW c \in Conns, accept_connection(c) PROVE IInv'
  OBVIOUS
<1>1. /\ Running /\ FreeFds # {} /\ conn[c].peer \in {"idle", "knocking"}
      /\ conn' = [conn EXCEPT ![c].peer = "up"] /\ AddClient(c)
  BY DEF accept_connection, Backlog, HasPeer, AtServer
<1>2. /\ pc' = "client" /\ i' = 2 /\ msg' = 0
      /\ UNCHANGED <<status, error, quit, typed, message_queue, made, wire>>
  BY DEF accept_connection, NextSlot, exitVars, queueVars, MIN_CLIENT_SOCK
<1>3. /\ nfds' \in Nat \ {0} /\ nfds' >= nfds
      /\ fd_count' \in 2 .. nfds' /\ pfds' \in [0 .. nfds' - 1 -> Pfd]
      /\ client_list' \in Seq(Cells) /\ client' \in [Cells -> ClientType]
      /\ {active_client', shown'} \subseteq Cells \cup {NoClient}
      /\ conn' \in [Conns -> ConnType] /\ file' \in [Fds -> Conns \cup {NoConn}]
      /\ SocketsMatch' /\ PointersListed' /\ FreedHasNone' /\ OpenIsLive'
  BY <1>1, AddKeeps
<1>4. TypeOK'
  BY <1>2, <1>3 DEF IInv, TypeOK
<1>5. QueuedMade' /\ InSlots'
  BY <1>2 DEF IInv, QueuedMade, InSlots, MIN_CLIENT_SOCK
<1> QED BY <1>3, <1>4, <1>5 DEF IInv

\* The slot that the pass is at holds a client.
LEMMA AtClient == IInv /\ AtSlot => i \in ClientSlots /\ i < nfds
BY DEF IInv, TypeOK, InSlots, AtSlot, ClientSlots, MIN_CLIENT_SOCK

\* A hangup or an end of file removes the client of the slot.
LEMMA LeaveStep == IInv /\ (SlotHangup \/ SlotEof) => IInv'
<1> SUFFICES ASSUME IInv, SlotHangup \/ SlotEof PROVE IInv'
  OBVIOUS
<1>1. AtSlot /\ Running /\ client_disconnect(i)
  BY DEF SlotHangup, SlotEof, AtInput, AtSlot
<1>2. i \in Nat /\ i >= 2 /\ i < nfds /\ i \in ClientSlots
  BY <1>1, AtClient DEF IInv, TypeOK, ClientSlots, MIN_CLIENT_SOCK
<1>3. /\ UNCHANGED <<status, error, quit, typed, message_queue, made, wire>>
      /\ \/ pc' = "client" /\ i' = i + 2 /\ msg' = 0
         \/ pc' = "out" /\ i' = i /\ msg' = 1
  BY DEF SlotHangup, SlotEof, NextSlot, StartOutput, exitVars, queueVars
<1>4. InSlots'
  BY <1>1, <1>2, <1>3, DisconnectKeeps DEF InSlots, MIN_CLIENT_SOCK
<1>5. i' \in Nat /\ msg' \in Nat /\ pc' \in {"poll", "stdin", "server", "client", "out"}
  BY <1>2, <1>3
<1> QED BY <1>1, <1>2, <1>3, <1>4, <1>5, DisconnectKeeps DEF IInv, TypeOK, QueuedMade

\* packet_receive finds the client of the slot in the list.
LEMMA ReceiveStep == IInv /\ packet_receive => IInv'
<1> SUFFICES ASSUME IInv, packet_receive PROVE IInv'
  OBVIOUS
<1> DEFINE f     == pfds[i].fd
           c     == file[f]
           entry == [conn |-> c, id |-> 0]
<1>1. /\ AtSlot /\ Running /\ conn[c].inbox > 0
      /\ conn' = [conn EXCEPT ![c].inbox = @ - 1]
      /\ history_insert(ClientOf(f), entry)
      /\ pc' = "out" /\ msg' = 1 /\ UNCHANGED <<quit, i>>
      /\ UNCHANGED <<status, error, pfds, nfds, fd_count, message_queue, made, wire, file, typed>>
  BY DEF packet_receive, AtInput, AtSlot, Here, StartOutput, exitVars, pollVars, queueVars
<1>2. /\ i \in Nat /\ i >= 2 /\ i < nfds
      /\ ClientOf(f) \in ClientSet /\ c \in Conns
  <2>1. i \in ClientSlots /\ i < nfds
    BY <1>1, AtClient
  <2>2. i \in Nat /\ i >= 2
    BY <2>1 DEF IInv, TypeOK, ClientSlots, MIN_CLIENT_SOCK
  <2> QED BY <2>1, <2>2, SlotListed
<1> HIDE DEF f, c
<1>3. entry \in Entries
  BY <1>2 DEF Entries
<1> HIDE DEF entry
<1>4. /\ client' \in [Cells -> ClientType]
      /\ \A d \in Cells : client'[d].socket = client[d].socket
      /\ client_list' = client_list
      /\ {active_client', shown'} \subseteq ClientSet \cup {NoClient}
  BY <1>1, <1>2, <1>3, InsertKeeps
<1>5. conn \in [Conns -> ConnType]
  BY DEF IInv, TypeOK
<1>6. conn' \in [Conns -> ConnType] /\ \A d \in Conns : conn'[d].peer = conn[d].peer
  BY <1>1, <1>2, <1>5 DEF ConnType
<1>7. SocketsMatch' /\ FreedHasNone'
  BY <1>1, <1>4, MatchKept
<1>8. PointersListed' /\ {active_client', shown'} \subseteq Cells \cup {NoClient}
  BY <1>4, Listed DEF PointersListed, ClientSet
<1>9. TypeOK'
  BY <1>1, <1>2, <1>4, <1>6, <1>8 DEF IInv, TypeOK
<1>10. OpenIsLive'
  <2>1. \A g \in Fds : file[g] # NoConn => file[g] \in Conns
    BY DEF IInv, TypeOK
  <2> QED BY <1>1, <1>6, <2>1 DEF IInv, OpenIsLive
<1>11. QueuedMade' /\ InSlots'
  BY <1>1, <1>2 DEF IInv, QueuedMade, InSlots, MIN_CLIENT_SOCK
<1> QED BY <1>7, <1>8, <1>9, <1>10, <1>11 DEF IInv

\* The client of a due message is in the list: a freed cell owns no descriptor.
LEMMA DueListed ==
  ASSUME IInv, HasDue
  PROVE  /\ NextDue \in 1 .. Len(message_queue) /\ NextDue > 0
         /\ message_queue[NextDue].client \in ClientSet
         /\ i \in ClientSlots
<1>1. Due \subseteq Nat /\ Due # {}
  BY DEF HasDue, Due, IInv, TypeOK
<1>2. NextDue \in Due
  BY <1>1, NatMin DEF NextDue
<1>3. /\ NextDue \in msg .. Len(message_queue)
      /\ SocketOf(message_queue[NextDue].client) = pfds[i].fd
  BY <1>2 DEF Due
<1>4. msg \in Nat /\ msg > 0 /\ i \in Nat /\ i >= 2 /\ i < nfds /\ nfds \in Nat /\ fd_count \in 2 .. nfds
  BY DEF IInv, TypeOK, InSlots, HasDue, AtOutput, MIN_CLIENT_SOCK
<1>5. i \in ClientSlots
  <2>1. \A j \in fd_count .. nfds - 1 : pfds[j].revents = {}
    BY DEF IInv, SocketsMatch, NullPfd
  <2>2. i < fd_count
    BY <1>4, <2>1 DEF HasDue, Reports
  <2> QED BY <1>4, <2>2 DEF ClientSlots, MIN_CLIENT_SOCK
<1>6. NextDue \in 1 .. Len(message_queue) /\ NextDue > 0
  BY <1>3, <1>4
<1>7. message_queue[NextDue].client \in Cells
  <2>1. message_queue \in Seq([id : Nat, client : Cells, body : Bodies])
    BY DEF IInv, TypeOK
  <2>2. message_queue[NextDue] \in [id : Nat, client : Cells, body : Bodies]
    <3> HIDE DEF NextDue
    <3> QED BY <1>6, <2>1, ElementOfSeq
  <2> QED BY <2>2
<1>8. message_queue[NextDue].client \in ClientSet
  <2>1. SocketOf(message_queue[NextDue].client) \in Fds
    BY <1>3, <1>5, SlotListed
  <2> QED BY <1>7, <2>1, GarbageNoFd DEF IInv, FreedHasNone
<1> QED BY <1>5, <1>6, <1>8

\* packet_transmit takes a message of the queue whose client is in the list.
LEMMA TransmitStep == IInv /\ packet_transmit => IInv'
<1> SUFFICES ASSUME IInv, packet_transmit PROVE IInv'
  OBVIOUS
<1> DEFINE k     == NextDue
           m     == message_queue[k]
           c     == file[pfds[i].fd]
           entry == [conn |-> made[m.id].to, id |-> m.id]
<1>1. /\ HasDue /\ Running /\ conn[c].room > 0
      /\ conn' = [conn EXCEPT ![c].room = @ - 1]
      /\ wire' = [wire EXCEPT ![c] = Append(@, m.id)]
      /\ history_insert(m.client, entry)
      /\ message_destroy(k)
      /\ msg' = k
      /\ UNCHANGED <<status, error, quit, pc, i, pfds, nfds, fd_count, made, file, typed>>
  BY DEF packet_transmit, HasDue, AtOutput, Here, exitVars, pollVars
<1>2. /\ k \in 1 .. Len(message_queue) /\ k > 0 /\ m.client \in ClientSet /\ c \in Conns
  BY <1>1, DueListed, SlotListed
<1>3. /\ message_queue \in Seq([id : Nat, client : Cells, body : Bodies])
      /\ made \in Seq([body : Bodies, to : Conns]) /\ wire \in [Conns -> Seq(Nat)]
      /\ conn \in [Conns -> ConnType] /\ pc \in {"poll", "stdin", "server", "client", "out"}
  BY DEF IInv, TypeOK
<1> HIDE DEF k, c
<1>4. m.id \in Nat /\ m.id \in DOMAIN made /\ k \in Nat
  <2>1. m \in [id : Nat, client : Cells, body : Bodies]
    BY <1>2, <1>3, ElementOfSeq
  <2>2. k \in DOMAIN message_queue
    BY <1>2, <1>3, LenProperties
  <2> QED BY <1>2, <2>1, <2>2 DEF IInv, QueuedMade
<1>5. entry \in Entries
  <2>1. made[m.id] \in [body : Bodies, to : Conns]
    <3>1. m.id \in 1 .. Len(made)
      BY <1>3, <1>4, LenProperties
    <3> HIDE DEF m
    <3> QED BY <1>3, <3>1, ElementOfSeq
  <2> QED BY <1>4, <2>1 DEF Entries
<1> HIDE DEF entry, m
<1>6. /\ client' \in [Cells -> ClientType]
      /\ \A d \in Cells : client'[d].socket = client[d].socket
      /\ client_list' = client_list
      /\ {active_client', shown'} \subseteq ClientSet \cup {NoClient}
  BY <1>1, <1>2, <1>5, InsertKeeps
<1>7. conn' \in [Conns -> ConnType] /\ \A d \in Conns : conn'[d].peer = conn[d].peer
  <2>1. conn[c].room - 1 \in Nat /\ conn[c] \in ConnType
    BY <1>1, <1>2, <1>3 DEF ConnType
  <2>2. /\ [conn[c] EXCEPT !.room = conn[c].room - 1] \in ConnType
        /\ [conn[c] EXCEPT !.room = conn[c].room - 1].peer = conn[c].peer
    BY <2>1 DEF ConnType
  <2>3. conn' = [conn EXCEPT ![c] = [conn[c] EXCEPT !.room = conn[c].room - 1]]
    BY <1>1
  <2> HIDE DEF ConnType
  <2> QED BY <1>2, <1>3, <2>2, <2>3
<1>8. wire' \in [Conns -> Seq(Nat)]
  <2>1. Append(wire[c], m.id) \in Seq(Nat)
    BY <1>2, <1>3, <1>4, AppendProperties
  <2> QED BY <1>1, <1>2, <1>3, <2>1
<1>9. /\ message_queue' \in Seq([id : Nat, client : Cells, body : Bodies])
      /\ \A j \in DOMAIN message_queue' : \E l \in DOMAIN message_queue :
            message_queue'[j] = message_queue[l]
  BY <1>1, <1>2, <1>3, DestroyShortens
<1>10. QueuedMade'
  BY <1>1, <1>9 DEF IInv, QueuedMade
<1>11. SocketsMatch' /\ FreedHasNone'
  BY <1>1, <1>6, MatchKept
<1>12. PointersListed' /\ {active_client', shown'} \subseteq Cells \cup {NoClient}
  BY <1>6, Listed DEF PointersListed, ClientSet
<1>13. TypeOK'
  BY <1>1, <1>4, <1>6, <1>7, <1>8, <1>9, <1>12 DEF IInv, TypeOK
<1>14. OpenIsLive'
  <2>1. \A g \in Fds : file[g] # NoConn => file[g] \in Conns
    BY DEF IInv, TypeOK
  <2> QED BY <1>1, <1>7, <2>1 DEF IInv, OpenIsLive
<1>15. InSlots'
  BY <1>1, <1>2 DEF IInv, InSlots
<1> QED BY <1>10, <1>11, <1>12, <1>13, <1>14, <1>15 DEF IInv

\* The handlers that change nothing but the place in the pass.
LEMMA QuietStep ==
  IInv /\ (\/ Exit \/ NoInput \/ TypeQuit \/ TypeOther \/ NoPeer
           \/ EndPass \/ SlotIdle \/ EndOutput \/ Terminated) => IInv'
<1> SUFFICES ASSUME IInv,
                    \/ Exit \/ NoInput \/ TypeQuit \/ TypeOther \/ NoPeer
                    \/ EndPass \/ SlotIdle \/ EndOutput \/ Terminated
             PROVE  IInv'
  OBVIOUS
<1> USE DEF exitVars, loopVars, OnlyControl, Goto, NextSlot, MIN_CLIENT_SOCK
<1>1. /\ status \in Statuses /\ i \in Nat /\ msg \in Nat /\ typed \in Nat
      /\ error \in ErrorType
      /\ quit \in {0, 1} /\ pc \in {"poll", "stdin", "server", "client", "out"}
      /\ InSlots /\ nfds \in Nat
  BY DEF IInv, TypeOK, Statuses
<1>2. CASE Exit
  BY <1>1, <1>2, LoopStep DEF Exit, Running, Statuses, InSlots, pollVars
<1>3. CASE NoInput \/ TypeQuit \/ TypeOther
  BY <1>1, <1>3, LoopStep DEF NoInput, TypeQuit, TypeOther, HasLine, AtStdin, InSlots, pollVars
<1>4. CASE NoPeer
  BY <1>1, <1>4, LoopStep DEF NoPeer, InSlots, pollVars
<1>5. CASE EndPass
  BY <1>1, <1>5, LoopStep DEF EndPass, InSlots, pollVars
<1>6. CASE SlotIdle
  <2>1. i < nfds /\ pc = "client"
    BY <1>6, AtClient DEF SlotIdle, AtInput, AtSlot
  <2> QED BY <1>1, <1>6, <2>1, LoopStep DEF SlotIdle, StartOutput, InSlots, pollVars
<1>7. CASE EndOutput
  BY <1>1, <1>7, LoopStep DEF EndOutput, AtOutput, InSlots, pollVars
<1>8. CASE Terminated
  BY <1>1, <1>8, LoopStep DEF Terminated, vars, pollVars, InSlots
<1> QED BY <1>2, <1>3, <1>4, <1>5, <1>6, <1>7, <1>8

\* A line that overruns a field may leave any pointer behind, and stops the model.
LEMMA OverrunStep == IInv /\ TypeOverrun => IInv'
<1> SUFFICES ASSUME IInv, TypeOverrun PROVE IInv'
  OBVIOUS
<1> USE DEF TypeOverrun, Goto, pollVars, queueVars, netVars
<1>1. SocketsMatch' /\ FreedHasNone'
  BY MatchKept
<1>2. TypeOK'
  BY DEF IInv, TypeOK
<1>3. PointersListed' /\ OpenIsLive' /\ QueuedMade' /\ InSlots'
  BY DEF IInv, PointersListed, OpenIsLive, QueuedMade, InSlots
<1> QED BY <1>1, <1>2, <1>3 DEF IInv

\* SIGPIPE ends the program and changes nothing else.
LEMMA KillStep == IInv /\ TransmitKills => IInv'
<1> SUFFICES ASSUME IInv, TransmitKills PROVE IInv'
  OBVIOUS
<1>1. /\ UNCHANGED <<pollVars, clientVars, queueVars, netVars>>
      /\ UNCHANGED <<error, quit, pc, i, msg, typed>> /\ status' = "killed" /\ Running
  BY DEF TransmitKills, loopVars, HasDue, AtOutput
<1>2. InSlots'
  BY <1>1 DEF IInv, InSlots, pollVars
<1> QED BY <1>1, <1>2, LoopStep DEF IInv, TypeOK, Running, Statuses

\* The failures that end the program.
LEMMA FailStep ==
  IInv /\ (ConnectFails \/ AcceptFails \/ SlotError \/ ReceiveFails \/ TransmitFails) => IInv'
<1> SUFFICES ASSUME IInv,
                    ConnectFails \/ AcceptFails \/ SlotError \/ ReceiveFails \/ TransmitFails
             PROVE  IInv'
  OBVIOUS
<1>0. Running
  BY DEF ConnectFails, AcceptFails, SlotError, ReceiveFails, TransmitFails, HasLine, AtStdin,
         HasPeer, AtServer, AtInput, AtSlot, HasDue, AtOutput
<1>1. \E func \in {"connect", "accept", "revents", "recv", "send"},
         errno \in {"EMFILE", "ECONNREFUSED", "EAGAIN", "SO_ERROR", "ECONNRESET"} :
            handle_error(func, errno)
  BY DEF ConnectFails, AcceptFails, SlotError, ReceiveFails, TransmitFails
<1>2. /\ UNCHANGED <<pollVars, clientVars, queueVars, netVars>>
      /\ UNCHANGED <<quit, pc, i, msg, typed>> /\ status' = "failed"
      /\ error' \in ErrorType
  BY <1>1 DEF handle_error, loopVars, ErrorType
<1>3. InSlots'
  BY <1>2 DEF IInv, InSlots, pollVars
<1> QED BY <1>0, <1>2, <1>3, LoopStep DEF IInv, TypeOK, Running, Statuses

\* The peers neither undo a connection nor touch the process.
LEMMA PeersStep == IInv /\ Peers => IInv'
<1> SUFFICES ASSUME IInv, NEW c \in Conns,
                    \/ PeerConnects(c) \/ PeerGivesUp(c) \/ PeerSends(c) \/ PeerReads(c)
                    \/ PeerCloses(c) \/ PeerHangsUp(c) \/ PeerResets(c)
             PROVE  IInv'
  BY DEF Peers
<1>1. conn \in [Conns -> ConnType] /\ conn[c] \in ConnType
  BY DEF IInv, TypeOK
<1>2. ASSUME NEW from, NEW to, Peer(c, from, to), to \in {"knocking", "gone"} \cup Live,
             from \cap Live # {} => to \in Live
      PROVE  IInv'
  <2>1. conn' = [conn EXCEPT ![c].peer = to] /\ conn[c].peer \in from
    BY <1>2 DEF Peer
  <2>2. conn' \in [Conns -> ConnType]
    BY <1>1, <1>2, <2>1 DEF ConnType, Live
  <2>3. \A d \in Conns : conn[d].peer \in Live => conn'[d].peer \in Live
    BY <1>1, <1>2, <2>1 DEF ConnType
  <2> QED BY <1>2, <2>2, <2>3, NetStep DEF Peer
<1>3. CASE PeerSends(c)
  <2>1. conn' \in [Conns -> ConnType] /\ \A d \in Conns : conn'[d].peer = conn[d].peer
    BY <1>1, <1>3 DEF PeerSends, ConnType
  <2> QED BY <1>3, <2>1, NetStep DEF PeerSends
<1>4. CASE PeerReads(c)
  <2>1. conn' \in [Conns -> ConnType] /\ \A d \in Conns : conn'[d].peer = conn[d].peer
    BY <1>1, <1>4 DEF PeerReads, ConnType
  <2> QED BY <1>4, <2>1, NetStep DEF PeerReads
<1>5. CASE PeerConnects(c) \/ PeerGivesUp(c)
  BY <1>2, <1>5 DEF PeerConnects, PeerGivesUp, Live, Down
<1>6. CASE PeerCloses(c) \/ PeerHangsUp(c) \/ PeerResets(c)
  BY <1>2, <1>6 DEF PeerCloses, PeerHangsUp, PeerResets, Live, Down
<1> QED BY <1>3, <1>4, <1>5, <1>6

-----------------------------------------------------------------------------

\* Every step keeps the invariant.
LEMMA Inductive == IInv /\ [Next]_vars => IInv'
<1> SUFFICES ASSUME IInv, [Next]_vars PROVE IInv'
  OBVIOUS
<1>1. CASE UNCHANGED vars
  <2>1. /\ UNCHANGED <<pollVars, clientVars, queueVars, netVars>>
        /\ UNCHANGED <<status, error, quit, pc, i, msg, typed, nfds>>
    BY <1>1 DEF vars, exitVars, loopVars, pollVars
  <2>2. InSlots'
    BY <2>1 DEF IInv, InSlots
  <2> QED BY <2>1, <2>2, LoopStep DEF IInv, TypeOK, Statuses
<1>2. CASE Pass
  BY <1>2, PollStep, SelectStep, RenameStep, TextStep, ConnectStep, AcceptStep, LeaveStep,
     ReceiveStep, TransmitStep, QuietStep, OverrunStep, KillStep, FailStep DEF Pass, HandleInput
<1>3. CASE Peers
  BY <1>3, PeersStep
<1>4. CASE Terminated
  BY <1>4, QuietStep
<1> QED BY <1>1, <1>2, <1>3, <1>4 DEF Next

\* IInv holds in every reachable state.
THEOREM AlwaysIInv == Spec => []IInv
BY InitIInv, Inductive, PTL DEF Spec

\* Every variable of the loop stays in its type: no handler uses a socket, a cell
\* or a position that does not exist.
THEOREM TypeCorrect == Spec => []TypeOK
<1>1. IInv => TypeOK
  BY DEF IInv
<1> QED BY <1>1, AlwaysIInv, PTL

\* The list and the array describe the same clients, in every order of arrivals,
\* hangups and ends of file: the walks of client_disconnect and packet_receive end.
THEOREM MatchCorrect == Spec => []SocketsMatch
<1>1. IInv => SocketsMatch
  BY DEF IInv
<1> QED BY <1>1, AlwaysIInv, PTL

\* active_client and the client of the HISTORY window are never freed clients, as
\* long as no line overruns a field.
THEOREM PointersCorrect == Spec => []PointersListed
<1>1. IInv => PointersListed
  BY DEF IInv
<1> QED BY <1>1, AlwaysIInv, PTL
=============================================================================
