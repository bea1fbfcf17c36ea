----------------------------- MODULE Courier_proofs -----------------------------
(***************************************************************************)
(* For any peers, cells and lines: how often a message is sent, in which   *)
(* order, and that the outgoing queue implements Courier.                  *)
(***************************************************************************)
EXTENDS Delivery_proofs, FiniteSetTheorems

-----------------------------------------------------------------------------
(* The queue.                                                              *)

\* Messages wait in the order they were typed, with the text and for the cell they
\* were typed with; the cells of two messages for one connection are the same.
QueueRight ==
    /\ \A k \in DOMAIN message_queue :
          message_queue[k].body = made[message_queue[k].id].body
    /\ \A j, k \in DOMAIN message_queue : j < k => message_queue[j].id < message_queue[k].id
    /\ \A j, k \in DOMAIN message_queue :
          made[message_queue[j].id].to = made[message_queue[k].id].to
             => message_queue[j].client = message_queue[k].client

\* The walk leaves nothing for its slot behind, twins excepted.
Walked ==
    pc = "out" => \A j \in DOMAIN message_queue :
        j < msg => \/ SocketOf(message_queue[j].client) # pfds[i].fd
                   \/ HasTwin(message_queue[j].id)

\* Every message that was sent has left the queue.
NoMoreThanMade ==
    \A c \in Conns : Len(wire[c]) + Len(message_queue) <= Len(made)

\* Messages with the same text are twins of the same messages.
LEMMA TwinOfTwin ==
  ASSUME NEW a \in Ids, NEW b \in Ids, made[a].body = made[b].body, HasTwin(a)
  PROVE  HasTwin(b)
BY DEF HasTwin

\* A message is typed: one more on both sides.
LEMMA OneMore ==
  ASSUME NEW a \in Nat, NEW b \in Nat, NEW d \in Nat, a + b <= d
  PROVE  a + (b + 1) <= d + 1
OBVIOUS

\* What the queue and the log of typed messages hold.
LEMMA QueueTypes ==
  ASSUME IInv
  PROVE  /\ message_queue \in Seq([id : Nat, client : Cells, body : Bodies])
         /\ made \in Seq([body : Bodies, to : Conns]) /\ wire \in [Conns -> Seq(Nat)]
         /\ DOMAIN message_queue = 1 .. Len(message_queue) /\ Len(message_queue) \in Nat
         /\ Ids = 1 .. Len(made) /\ Len(made) \in Nat
         /\ \A c \in Conns : DOMAIN wire[c] = 1 .. Len(wire[c]) /\ Len(wire[c]) \in Nat
         /\ \A k \in DOMAIN message_queue :
               /\ message_queue[k].id \in Ids /\ message_queue[k].client \in Cells
               /\ message_queue[k].body \in Bodies
         /\ \A id \in Ids : made[id].body \in Bodies /\ made[id].to \in Conns
<1>1. /\ message_queue \in Seq([id : Nat, client : Cells, body : Bodies])
      /\ made \in Seq([body : Bodies, to : Conns]) /\ wire \in [Conns -> Seq(Nat)] /\ QueuedMade
  BY DEF IInv, TypeOK
<1>2. /\ DOMAIN message_queue = 1 .. Len(message_queue) /\ Len(message_queue) \in Nat
      /\ Ids = 1 .. Len(made) /\ Len(made) \in Nat
      /\ \A c \in Conns : DOMAIN wire[c] = 1 .. Len(wire[c]) /\ Len(wire[c]) \in Nat
  BY <1>1, LenProperties DEF Ids
<1>3. ASSUME NEW k \in DOMAIN message_queue
      PROVE  /\ message_queue[k].id \in Ids /\ message_queue[k].client \in Cells
             /\ message_queue[k].body \in Bodies
  <2>1. message_queue[k] \in [id : Nat, client : Cells, body : Bodies]
    BY <1>1, ElementOfSeq, LenProperties
  <2> QED BY <1>1, <2>1 DEF QueuedMade, Ids
<1>4. ASSUME NEW id \in Ids
      PROVE  made[id].body \in Bodies /\ made[id].to \in Conns
  <2>1. id \in 1 .. Len(made) /\ made \in Seq([body : Bodies, to : Conns])
    BY <1>1, <1>2
  <2>2. made[id] \in [body : Bodies, to : Conns]
    BY <2>1, ElementOfSeq
  <2> QED BY <2>2
<1> QED BY <1>1, <1>2, <1>3, <1>4

\* message_destroy takes out the first message with the text.
LEMMA Destroyed ==
  ASSUME IInv, NEW k \in DOMAIN message_queue, message_destroy(k)
  PROVE  \E same \in 1 .. k :
            /\ message_queue[same].body = message_queue[k].body
            /\ Len(message_queue') = Len(message_queue) - 1
            /\ DOMAIN message_queue' = 1 .. Len(message_queue) - 1
            /\ \A j \in 1 .. Len(message_queue) - 1 : message_queue'[j] =
                  IF j < same THEN message_queue[j] ELSE message_queue[j + 1]
<1> DEFINE I == {j \in 1 .. Len(message_queue) :
                    message_queue[j].body = message_queue[k].body}
           same == Min(I)
<1>1. k \in 1 .. Len(message_queue) /\ Len(message_queue) \in Nat
  BY QueueTypes
<1>2. I \subseteq Nat /\ k \in I
  BY <1>1
<1>3. same \in I /\ \A x \in I : same <= x
  BY <1>2, NatMin DEF Min
<1>4. message_queue' = RemoveAt(message_queue, same)
  BY <1>2 DEF message_destroy, SelectInSeq
<1>5. same \in 1 .. Len(message_queue) /\ same \in 1 .. k
      /\ message_queue[same].body = message_queue[k].body
  BY <1>1, <1>2, <1>3
<1> HIDE DEF same
<1>6. /\ message_queue' \in Seq([id : Nat, client : Cells, body : Bodies])
      /\ Len(message_queue') = Len(message_queue) - 1
      /\ \A j \in 1 .. Len(message_queue) - 1 : message_queue'[j] =
            IF j < same THEN message_queue[j] ELSE message_queue[j + 1]
  BY <1>4, <1>5, QueueTypes, RemoveAtProperties, Zenon
<1>7. DOMAIN message_queue' = 1 .. Len(message_queue) - 1
  BY <1>6, LenProperties
<1> QED BY <1>5, <1>6, <1>7

\* The state after message_create.
LEMMA Typed ==
  ASSUME IInv, NEW b \in Bodies, TypeText(b), active_client # NoClient
  PROVE  /\ Len(made') = Len(made) + 1 /\ Ids' = 1 .. Len(made) + 1
         /\ \A id \in Ids : made'[id] = made[id]
         /\ made'[Len(made) + 1] = [body |-> b, to |-> file[SocketOf(active_client)]]
         /\ Len(message_queue') = Len(message_queue) + 1
         /\ DOMAIN message_queue' = 1 .. Len(message_queue) + 1
         /\ \A k \in DOMAIN message_queue : message_queue'[k] = message_queue[k]
         /\ message_queue'[Len(message_queue) + 1] =
               [id |-> Len(made) + 1, client |-> active_client, body |-> b]
         /\ active_client \in ClientSet /\ file[SocketOf(active_client)] \in Conns
         /\ UNCHANGED <<wire, clientVars, conn, file>> /\ pc' = "server"
<1> DEFINE new == [id |-> Len(made) + 1, client |-> active_client, body |-> b]
           log == [body |-> b, to |-> file[SocketOf(active_client)]]
<1>1. /\ message_queue' = Append(message_queue, new) /\ made' = Append(made, log)
      /\ UNCHANGED <<wire, clientVars, conn, file>> /\ pc' = "server"
  BY DEF TypeText, netVars, Goto
<1>2. /\ active_client \in ClientSet /\ active_client \in Cells
      /\ file[SocketOf(active_client)] \in Conns
  BY Listed, PointersHold DEF TypeText, HasLine, AtStdin
<1>3. new \in [id : Nat, client : Cells, body : Bodies] /\ log \in [body : Bodies, to : Conns]
  BY <1>2, QueueTypes
<1> HIDE DEF new, log
<1>4. /\ made' \in Seq([body : Bodies, to : Conns]) /\ Len(made') = Len(made) + 1
      /\ made'[Len(made) + 1] = log
      /\ \A id \in 1 .. Len(made) : made'[id] = made[id]
  BY <1>1, <1>3, QueueTypes, AppendProperties
<1>5. /\ message_queue' \in Seq([id : Nat, client : Cells, body : Bodies])
      /\ Len(message_queue') = Len(message_queue) + 1
      /\ message_queue'[Len(message_queue) + 1] = new
      /\ \A k \in 1 .. Len(message_queue) : message_queue'[k] = message_queue[k]
  BY <1>1, <1>3, QueueTypes, AppendProperties
<1>6. DOMAIN made' = 1 .. Len(made) + 1 /\ DOMAIN message_queue' = 1 .. Len(message_queue) + 1
  BY <1>4, <1>5, LenProperties
<1> QED BY <1>1, <1>2, <1>4, <1>5, <1>6, QueueTypes DEF Ids, new, log

\* The state after packet_transmit: message NextDue is on the connection of its cell.
LEMMA Sent ==
  ASSUME IInv, packet_transmit
  PROVE  LET k == NextDue
             m == message_queue[k]
             c == file[pfds[i].fd]
         IN  /\ k \in DOMAIN message_queue /\ k \in Due /\ \A j \in Due : k <= j
             /\ m.id \in Ids /\ m.client \in ClientSet /\ SocketOf(m.client) = pfds[i].fd
             /\ c \in Conns /\ message_destroy(k) /\ msg' = k
             /\ Len(wire'[c]) = Len(wire[c]) + 1
             /\ wire'[c][Len(wire[c]) + 1] = m.id
             /\ \A j \in 1 .. Len(wire[c]) : wire'[c][j] = wire[c][j]
             /\ DOMAIN wire'[c] = 1 .. Len(wire[c]) + 1
             /\ \A d \in Conns : d # c => wire'[d] = wire[d]
             /\ UNCHANGED <<pc, i, pfds, made, file, client_list>>
             /\ \A d \in Cells : client'[d].socket = client[d].socket
             /\ \A d \in Conns : conn'[d].peer = conn[d].peer
<1> DEFINE k == NextDue
           m == message_queue[k]
           c == file[pfds[i].fd]
<1>1. /\ HasDue /\ message_destroy(k) /\ msg' = k
      /\ wire' = [wire EXCEPT ![c] = Append(wire[c], m.id)]
      /\ conn' = [conn EXCEPT ![c].room = @ - 1]
      /\ history_insert(m.client, [conn |-> made[m.id].to, id |-> m.id])
      /\ UNCHANGED <<pc, i, pfds, made, file>>
  BY DEF packet_transmit, pollVars
<1>2. k \in Due /\ \A j \in Due : k <= j
  <2>1. HasDue /\ msg \in Nat
    BY <1>1 DEF IInv, TypeOK
  <2>2. Due \subseteq Nat /\ Due # {}
    BY <2>1 DEF HasDue, Due
  <2> QED BY <2>2, NatMin DEF NextDue
<1>3. /\ k \in 1 .. Len(message_queue) /\ m.client \in ClientSet /\ c \in Conns
      /\ m.id \in DOMAIN made
      /\ [conn |-> made[m.id].to, id |-> m.id] \in Entries
  BY <1>1, DueListed, DueEntry, SlotListed
<1>4. SocketOf(m.client) = pfds[i].fd
  BY <1>2 DEF Due
<1> HIDE DEF k, m, c
<1>5. client_list' = client_list /\ \A d \in Cells : client'[d].socket = client[d].socket
  BY <1>1, <1>3, InsertKeeps DEF HasDue, AtOutput
<1>6. \A d \in Conns : conn'[d].peer = conn[d].peer
  <2>1. conn \in [Conns -> ConnType]
    BY DEF IInv, TypeOK
  <2> QED BY <1>1, <2>1 DEF ConnType
<1>7. wire'[c] = Append(wire[c], m.id) /\ \A d \in Conns : d # c => wire'[d] = wire[d]
  BY <1>1, <1>3, QueueTypes
<1>8. wire[c] \in Seq(Nat) /\ m.id \in Nat
  BY <1>3, QueueTypes DEF Ids
<1>9. /\ wire'[c] \in Seq(Nat) /\ Len(wire'[c]) = Len(wire[c]) + 1
      /\ wire'[c][Len(wire[c]) + 1] = m.id
      /\ \A j \in 1 .. Len(wire[c]) : wire'[c][j] = wire[c][j]
  BY <1>7, <1>8, AppendProperties
<1>10. DOMAIN wire'[c] = 1 .. Len(wire[c]) + 1
  BY <1>9, LenProperties
<1> QED BY <1>1, <1>2, <1>3, <1>4, <1>5, <1>6, <1>7, <1>9, <1>10, QueueTypes, Zenon DEF k, m, c, Ids

-----------------------------------------------------------------------------
(* What was sent.                                                          *)

\* Nothing is on a connection that is not made yet.
FreshWire == \A c \in Conns : Unmade(conn[c]) => wire[c] = <<>>

\* A message without twins is in the queue and on no connection, or has left the
\* queue and is on one, once.
SentOnce ==
    \A id \in Ids : HasTwin(id) \/
        /\ Queued(id) => \A c \in Conns : \A k \in DOMAIN wire[c] : wire[c][k] # id
        /\ Queued(id) \/ \E c \in Conns : \E k \in DOMAIN wire[c] : wire[c][k] = id
        /\ \A c, d \in Conns : \A k \in DOMAIN wire[c], l \in DOMAIN wire[d] :
              wire[c][k] = id /\ wire[d][l] = id => c = d /\ k = l

\* What waits for a client is later than what was sent to it.
SentOrdered ==
    \A c \in Conns : \A k \in DOMAIN wire[c] : \A j \in DOMAIN message_queue :
        message_queue[j].client \in ClientSet /\ file[SocketOf(message_queue[j].client)] = c =>
            wire[c][k] < message_queue[j].id
                \/ HasTwin(wire[c][k]) \/ HasTwin(message_queue[j].id)

\* All of it.
CourierInv ==
    /\ SentMade /\ QueuedAims /\ RightPeerUnlessGone
    /\ QueueRight /\ Walked /\ NoMoreThanMade
    /\ FreshWire /\ SentOnce /\ SentOrdered /\ InOrder

\* The walk goes on, or starts again.
LEMMA WalkQuiet ==
  ASSUME IInv, Walked, [Next]_vars, UNCHANGED queueVars
  PROVE  Walked'
<1>1. CASE pc' # "out"
  BY <1>1 DEF Walked
<1>2. CASE msg' = 1
  BY <1>2, QueueTypes DEF Walked, queueVars
<1>3. CASE UNCHANGED <<pc, msg, i, pfds, client>>
  BY <1>3 DEF Walked, queueVars, SocketOf, HasTwin, Ids
<1>4. pc' # "out" \/ msg' = 1 \/ UNCHANGED <<pc, msg, i, pfds, client>> \/ packet_transmit
  BY Zenon DEF Next, Pass, HandleInput, Peers, Terminated, Poll, Exit, NoInput, TypeQuit, TypeOther,
         TypeOverrun, TransmitKills,
         TypeSelect, TypeRename, TypeText, TypeConnect, ConnectFails, NoPeer, accept_connection,
         AcceptFails, EndPass, SlotError, SlotHangup, SlotEof, SlotIdle, packet_receive,
         ReceiveFails, TransmitFails, EndOutput, OnlyControl, handle_error, Peer,
         PeerConnects, PeerGivesUp, PeerSends, PeerReads, PeerCloses, PeerHangsUp, PeerResets,
         Goto, NextSlot, StartOutput, vars, loopVars, pollVars, clientVars
<1>5. CASE packet_transmit
  <2>1. wire' # wire
    BY <1>5, Sent
  <2> QED BY <2>1 DEF queueVars
<1> QED BY <1>1, <1>2, <1>3, <1>4, <1>5

\* Steps that neither type nor send.
LEMMA CourierQuiet ==
  ASSUME IInv, CourierInv, [Next]_vars, UNCHANGED queueVars
  PROVE  CourierInv'
<1>1. message_queue' = message_queue /\ made' = made /\ wire' = wire /\ Ids' = Ids
      /\ (\A id : HasTwin(id)' <=> HasTwin(id)) /\ (\A id : Queued(id)' <=> Queued(id))
  BY DEF queueVars, Ids, HasTwin, Queued
<1>2. SentMade' /\ QueuedAims' /\ RightPeerUnlessGone'
  BY AimsQuiet DEF CourierInv
<1>3. QueueRight' /\ NoMoreThanMade'
  BY <1>1 DEF CourierInv, QueueRight, NoMoreThanMade
<1>4. Walked'
  BY WalkQuiet DEF CourierInv
<1>5. FreshWire'
  <2> SUFFICES ASSUME NEW c \in Conns, Unmade(conn'[c]) PROVE wire[c] = <<>>
    BY <1>1 DEF FreshWire
  <2>1. Unmade(conn[c])
    BY PeerMoves DEF Unmade
  <2> QED BY <2>1 DEF CourierInv, FreshWire
<1>6. SentOnce' /\ InOrder'
  BY <1>1 DEF CourierInv, SentOnce, InOrder
<1>7. SentOrdered'
  <2> SUFFICES ASSUME NEW c \in Conns, NEW k \in DOMAIN wire[c], NEW j \in DOMAIN message_queue,
                      message_queue[j].client \in ClientSet',
                      file'[client'[message_queue[j].client].socket] = c
               PROVE  wire[c][k] < message_queue[j].id
                         \/ HasTwin(wire[c][k]) \/ HasTwin(message_queue[j].id)
    BY <1>1 DEF SentOrdered, SocketOf
  <2> DEFINE d == message_queue[j].client
  <2>1. Came(d)
    BY ClientsFollowed
  <2>2. CASE d \in ClientSet /\ file[client[d].socket] = c
    BY <2>2 DEF CourierInv, SentOrdered, SocketOf
  <2>3. CASE Unmade(conn[c])
    <3>1. wire[c] = <<>>
      BY <2>3 DEF CourierInv, FreshWire
    <3>2. DOMAIN wire[c] = 1 .. Len(wire[c]) /\ Len(<<>>) = 0
      BY QueueTypes
    <3>3. k \in 1 .. 0
      BY <3>1, <3>2
    <3> QED BY <3>3
  <2> QED BY <2>1, <2>2, <2>3 DEF Came
<1> QED BY <1>2, <1>3, <1>4, <1>5, <1>6, <1>7 DEF CourierInv

\* A new message is later than all others and on no connection.
LEMMA CourierTyped ==
  ASSUME IInv, CourierInv, NEW b \in Bodies, TypeText(b), active_client # NoClient
  PROVE  CourierInv'
<1> DEFINE n == Len(message_queue)
           new == Len(made) + 1
           act == active_client
<1>1. SentMade' /\ QueuedAims' /\ RightPeerUnlessGone'
  BY AimsTyped DEF CourierInv
<1>a. /\ Len(made') = new /\ Ids' = 1 .. new
      /\ \A id \in Ids : made'[id] = made[id]
      /\ made'[new] = [body |-> b, to |-> file[SocketOf(act)]]
      /\ Len(message_queue') = n + 1
      /\ DOMAIN message_queue' = 1 .. n + 1
      /\ \A k \in DOMAIN message_queue : message_queue'[k] = message_queue[k]
      /\ message_queue'[n + 1] = [id |-> new, client |-> act, body |-> b]
      /\ act \in ClientSet /\ file[SocketOf(act)] \in Conns
      /\ UNCHANGED <<wire, clientVars, conn, file>> /\ pc' = "server"
  BY Typed
<1>b. /\ Ids = 1 .. Len(made) /\ Len(made) \in Nat /\ n \in Nat
      /\ DOMAIN message_queue = 1 .. n
  BY QueueTypes
<1>2. /\ Len(made') = new /\ Ids' = 1 .. new /\ Ids = 1 .. new - 1 /\ new \in Nat /\ new > 0
      /\ \A id \in Ids : made'[id] = made[id]
      /\ made'[new].body = b /\ made'[new].to = file[SocketOf(act)]
      /\ Len(message_queue') = n + 1 /\ n \in Nat
      /\ DOMAIN message_queue' = 1 .. n + 1 /\ DOMAIN message_queue = 1 .. n
      /\ \A k \in DOMAIN message_queue : message_queue'[k] = message_queue[k]
      /\ message_queue'[n + 1].id = new /\ message_queue'[n + 1].client = act
      /\ message_queue'[n + 1].body = b
      /\ act \in ClientSet /\ file[SocketOf(act)] \in Conns
      /\ UNCHANGED <<wire, clientVars, conn, file>> /\ pc' = "server"
  BY <1>a, <1>b
<1>3. \A k \in DOMAIN message_queue : message_queue[k].id \in Ids
  BY QueueTypes
<1>4. /\ UNCHANGED <<client_list, client>> /\ ClientSet' = ClientSet
  BY <1>2 DEF clientVars, ClientSet
<1> HIDE DEF n, new, act
<1>5. Ids \subseteq Ids' /\ new \in Ids' /\ new \notin Ids
      /\ (\A id \in Ids' : id \in Ids \/ id = new) /\ (\A id \in Ids : id < new)
  BY <1>2
<1>6. \A k \in DOMAIN message_queue' : k \in DOMAIN message_queue \/ k = n + 1
  BY <1>2
<1>7. ASSUME NEW id \in Ids, HasTwin(id) PROVE HasTwin(id)'
  <2>1. PICK t \in Ids : made[t].body = made[id].body /\ made[t].to # made[id].to
    BY <1>7 DEF HasTwin
  <2> QED BY <1>2, <1>5, <2>1 DEF HasTwin
<1>8. \A c \in Conns : \A k \in DOMAIN wire[c] : wire[c][k] \in Ids
  BY DEF CourierInv, SentMade, Ids
<1>9. QueueRight'
  <2>1. \A k \in DOMAIN message_queue' :
           message_queue'[k].body = made'[message_queue'[k].id].body
    BY <1>2, <1>3, <1>6 DEF CourierInv, QueueRight
  <2>2. ASSUME NEW j \in DOMAIN message_queue', NEW k \in DOMAIN message_queue', j < k
        PROVE  message_queue'[j].id < message_queue'[k].id
    <3>1. j \in DOMAIN message_queue
      BY <1>2, <2>2
    <3>2. CASE k \in DOMAIN message_queue
      BY <1>2, <2>2, <3>1, <3>2 DEF CourierInv, QueueRight
    <3>3. CASE k = n + 1
      BY <1>2, <1>3, <1>5, <3>1, <3>3
    <3> QED BY <1>6, <3>2, <3>3
  <2>3. ASSUME NEW j \in DOMAIN message_queue, made[message_queue[j].id].to = file[SocketOf(act)]
        PROVE  message_queue[j].client = act
    <3>1. Aims(made[message_queue[j].id].to, message_queue[j].client)
      BY DEF CourierInv, QueuedAims
    <3>2. SocketOf(act) \in Fds /\ conn[file[SocketOf(act)]].peer # "gone"
      <4>1. SocketOf(act) \in Fds /\ file[SocketOf(act)] # NoConn
        BY <1>2, Listed, EventLoopAssumption
      <4> QED BY <4>1 DEF IInv, OpenIsLive, Down
    <3>3. /\ message_queue[j].client \in ClientSet
          /\ file[SocketOf(message_queue[j].client)] = file[SocketOf(act)]
      BY <2>3, <3>1, <3>2 DEF Aims, SocketOf
    <3>4. SocketOf(message_queue[j].client) \in Fds /\ file[SocketOf(act)] # NoConn
      BY <1>2, <3>3, Listed, EventLoopAssumption
    <3>5. SocketOf(message_queue[j].client) = SocketOf(act)
      BY <3>2, <3>3, <3>4 DEF IInv, SocketsMatch
    <3> QED BY <1>2, <3>3, <3>5, Listed
  <2>4. ASSUME NEW j \in DOMAIN message_queue', NEW k \in DOMAIN message_queue',
               made'[message_queue'[j].id].to = made'[message_queue'[k].id].to
        PROVE  message_queue'[j].client = message_queue'[k].client
    <3>1. CASE j \in DOMAIN message_queue /\ k \in DOMAIN message_queue
      BY <1>2, <1>3, <2>4, <3>1 DEF CourierInv, QueueRight
    <3>2. CASE j \in DOMAIN message_queue /\ k = n + 1
      BY <1>2, <1>3, <2>3, <2>4, <3>2
    <3>3. CASE j = n + 1 /\ k \in DOMAIN message_queue
      BY <1>2, <1>3, <2>3, <2>4, <3>3
    <3> QED BY <1>6, <3>1, <3>2, <3>3
  <2> QED BY <2>1, <2>2, <2>4 DEF QueueRight
<1>10. Walked'
  BY <1>2 DEF Walked
<1>11. NoMoreThanMade'
  <2>1. \A c \in Conns : Len(wire[c]) \in Nat /\ Len(made) \in Nat
    BY QueueTypes
  <2>2. \A c \in Conns : Len(wire[c]) + n <= Len(made)
    BY DEF CourierInv, NoMoreThanMade, n
  <2>3. Len(made') = Len(made) + 1
    BY <1>2 DEF new
  <2>4. Len(message_queue') = n + 1 /\ n \in Nat /\ wire' = wire
    BY <1>2
  <2>5. ASSUME NEW c \in Conns PROVE Len(wire'[c]) + Len(message_queue') <= Len(made')
    <3>1. wire'[c] = wire[c] /\ Len(wire[c]) \in Nat /\ Len(wire[c]) + n <= Len(made)
      BY <2>1, <2>2, <2>4
    <3>2. Len(wire'[c]) = Len(wire[c])
      BY <3>1
    <3>3. Len(made) \in Nat
      BY <2>1
    <3>4. n \in Nat
      BY <2>4
    <3>5. Len(wire[c]) + (n + 1) <= Len(made) + 1
      BY <3>1, <3>3, <3>4, OneMore
    <3> QED BY <2>3, <2>4, <3>2, <3>5
  <2> QED BY <2>5 DEF NoMoreThanMade
<1>12. FreshWire'
  BY <1>2 DEF CourierInv, FreshWire
<1>13. \A id \in Ids : Queued(id)' <=> Queued(id)
  BY <1>2, <1>5, <1>6 DEF Queued
<1>14. SentOnce'
  <2> SUFFICES ASSUME NEW id \in Ids', ~ HasTwin(id)'
               PROVE  /\ Queued(id)' => \A c \in Conns : \A k \in DOMAIN wire[c] : wire[c][k] # id
                      /\ Queued(id)' \/ \E c \in Conns : \E k \in DOMAIN wire[c] : wire[c][k] = id
                      /\ \A c, d \in Conns : \A k \in DOMAIN wire[c], l \in DOMAIN wire[d] :
                            wire[c][k] = id /\ wire[d][l] = id => c = d /\ k = l
    BY <1>2 DEF SentOnce
  <2>1. CASE id \in Ids
    BY <1>7, <1>13, <2>1 DEF CourierInv, SentOnce
  <2>2. CASE id = new
    <3>1. Queued(id)'
      BY <1>2, <2>2 DEF Queued
    <3> QED BY <1>5, <1>8, <2>2, <3>1
  <2> QED BY <1>5, <2>1, <2>2
<1>15. InOrder'
  <2> SUFFICES ASSUME NEW c \in Conns, NEW j \in DOMAIN wire[c], NEW k \in DOMAIN wire[c], j < k,
                      NEW x, NEW z, x = wire[c][j], z = wire[c][k]
               PROVE  x < z \/ HasTwin(x)' \/ HasTwin(z)'
    BY <1>2 DEF InOrder
  <2>1. x < z \/ HasTwin(x) \/ HasTwin(z)
    BY DEF CourierInv, InOrder
  <2> QED BY <1>7, <1>8, <2>1
<1>16. SentOrdered'
  <2> SUFFICES ASSUME NEW c \in Conns, NEW k \in DOMAIN wire'[c], NEW j \in DOMAIN message_queue',
                      message_queue'[j].client \in ClientSet',
                      (file[SocketOf(message_queue[j].client)] = c)',
                      NEW x, NEW z, x = wire'[c][k], z = message_queue'[j].id
               PROVE  x < z \/ HasTwin(x)' \/ HasTwin(z)'
    BY DEF SentOrdered
  <2>0. /\ k \in DOMAIN wire[c] /\ x = wire[c][k] /\ message_queue'[j].client \in ClientSet
        /\ file[SocketOf(message_queue'[j].client)] = c
    BY <1>2, <1>4 DEF SocketOf
  <2>1. CASE j \in DOMAIN message_queue
    <3>1. message_queue'[j] = message_queue[j]
      BY <1>2, <2>1
    <3>2. x < z \/ HasTwin(x) \/ HasTwin(z)
      BY <2>0, <2>1, <3>1 DEF CourierInv, SentOrdered
    <3>3. x \in Ids /\ z \in Ids
      BY <1>3, <1>8, <2>0, <2>1, <3>1
    <3> QED BY <1>7, <3>2, <3>3
  <2>2. CASE j = n + 1
    BY <1>2, <1>5, <1>8, <2>0, <2>2
  <2> QED BY <1>6, <2>1, <2>2
<1> QED BY <1>1, <1>9, <1>10, <1>11, <1>12, <1>14, <1>15, <1>16 DEF CourierInv

\* What is sent leaves the queue unless it has a twin, and nothing that was typed
\* earlier for its connection stays behind.
LEMMA CourierSent ==
  ASSUME IInv, CourierInv, [Next]_vars, packet_transmit
  PROVE  CourierInv'
<1> DEFINE k == NextDue
           m == message_queue[k]
           c == file[pfds[i].fd]
           n == Len(message_queue)
           w == Len(wire[c])
<1>1. SentMade' /\ QueuedAims' /\ RightPeerUnlessGone'
  BY AimsSent DEF CourierInv
<1>2. /\ k \in DOMAIN message_queue /\ k \in Due /\ \A j \in Due : k <= j
      /\ m.id \in Ids /\ m.client \in ClientSet /\ SocketOf(m.client) = pfds[i].fd
      /\ c \in Conns /\ message_destroy(k) /\ msg' = k
      /\ Len(wire'[c]) = w + 1 /\ wire'[c][w + 1] = m.id
      /\ \A j \in 1 .. w : wire'[c][j] = wire[c][j]
      /\ DOMAIN wire'[c] = 1 .. w + 1
      /\ \A d \in Conns : d # c => wire'[d] = wire[d]
      /\ UNCHANGED <<pc, i, pfds, made, file, client_list>>
      /\ \A d \in Cells : client'[d].socket = client[d].socket
      /\ \A d \in Conns : conn'[d].peer = conn[d].peer
  BY Sent, Zenon
<1>3. PICK same \in 1 .. k :
            /\ message_queue[same].body = m.body
            /\ Len(message_queue') = n - 1
            /\ DOMAIN message_queue' = 1 .. n - 1
            /\ \A j \in 1 .. n - 1 : message_queue'[j] =
                  IF j < same THEN message_queue[j] ELSE message_queue[j + 1]
  BY <1>2, Destroyed
<1>4. /\ DOMAIN message_queue = 1 .. n /\ n \in Nat /\ k \in 1 .. n
      /\ same \in 1 .. n /\ same <= k /\ DOMAIN wire[c] = 1 .. w /\ w \in Nat
      /\ \A j \in DOMAIN message_queue :
            message_queue[j].id \in Ids /\ message_queue[j].client \in Cells
      /\ Ids \subseteq Nat
  <2>1. /\ DOMAIN message_queue = 1 .. n /\ n \in Nat
        /\ \A d \in Conns : DOMAIN wire[d] = 1 .. Len(wire[d]) /\ Len(wire[d]) \in Nat
        /\ \A j \in DOMAIN message_queue :
              message_queue[j].id \in Ids /\ message_queue[j].client \in Cells
        /\ Ids \subseteq Nat
    BY QueueTypes
  <2>2. k \in DOMAIN message_queue /\ c \in Conns /\ same \in 1 .. k
    BY <1>2, <1>3
  <2> HIDE DEF k, c, n
  <2> QED BY <2>1, <2>2
<1>5. /\ pc = "out" /\ msg \in Nat /\ k >= msg
      /\ \A j \in DOMAIN message_queue : SocketOf(message_queue[j].client) = pfds[i].fd
            => j < msg \/ j >= k
  <2>1. pc = "out" /\ msg \in Nat
    BY DEF packet_transmit, HasDue, AtOutput, IInv, TypeOK
  <2>2. \A j \in DOMAIN message_queue : SocketOf(message_queue[j].client) = pfds[i].fd
            => j < msg \/ j \in Due
    BY <1>4, <2>1 DEF Due
  <2>3. k \in msg .. n
    BY <1>2 DEF Due
  <2> QED BY <1>2, <2>1, <2>2, <2>3
<1> HIDE DEF k, m, c, n, w
<1>6. /\ Ids' = Ids /\ (\A id : HasTwin(id)' <=> HasTwin(id)) /\ ClientSet' = ClientSet
      /\ \A d \in Cells : client'[d].socket = client[d].socket
  BY <1>2 DEF Ids, HasTwin, ClientSet
<1>7. ASSUME NEW j \in DOMAIN message_queue'
      PROVE  \/ j \in DOMAIN message_queue /\ j < same /\ message_queue'[j] = message_queue[j]
             \/ /\ j + 1 \in DOMAIN message_queue /\ j + 1 > same
                /\ message_queue'[j] = message_queue[j + 1] /\ j >= same
  BY <1>3, <1>4
<1>8. ASSUME NEW j \in DOMAIN message_queue'
      PROVE  \E l \in DOMAIN message_queue :
                l # same /\ message_queue'[j] = message_queue[l] /\ (l = j \/ l = j + 1)
  <2>1. j \in Nat /\ same \in Nat
    BY <1>3, <1>4
  <2> QED BY <1>7, <2>1
(* The message that goes is the one that was sent, or that one has a twin. *)
<1>9. same = k \/ HasTwin(m.id)
  <2> SUFFICES ASSUME same < k PROVE HasTwin(m.id)
    BY <1>4
  <2> DEFINE other == message_queue[same]
  <2>1. /\ same \in DOMAIN message_queue /\ k \in DOMAIN message_queue
        /\ other.id \in Ids /\ m.id \in Ids
    BY <1>2, <1>4
  <2>2. made[other.id].body = made[m.id].body
    BY <1>3, <2>1 DEF CourierInv, QueueRight, m
  <2>3. CASE made[other.id].to # made[m.id].to
    BY <2>1, <2>2, <2>3 DEF HasTwin
  <2>4. CASE made[other.id].to = made[m.id].to
    <3>1. other.client = m.client
      BY <2>1, <2>4 DEF CourierInv, QueueRight, m
    <3>2. same < msg
      BY <1>2, <1>4, <1>5, <2>1, <3>1
    <3>3. HasTwin(other.id)
      BY <1>2, <1>5, <2>1, <3>1, <3>2 DEF CourierInv, Walked
    <3> QED BY <2>1, <2>2, <3>3, TwinOfTwin
  <2> QED BY <2>3, <2>4
<1>10. HasTwin(m.id) => HasTwin(message_queue[same].id)
  <2>1. /\ same \in DOMAIN message_queue /\ k \in DOMAIN message_queue
        /\ message_queue[same].id \in Ids
    BY <1>2, <1>4
  <2>2. made[message_queue[same].id].body = made[m.id].body
    BY <1>3, <2>1 DEF CourierInv, QueueRight, m
  <2> QED BY <1>2, <2>1, <2>2, TwinOfTwin
<1>11. \A j, l \in DOMAIN message_queue : j < l => message_queue[j].id < message_queue[l].id
  BY DEF CourierInv, QueueRight
<1>12. \A j, l \in DOMAIN message_queue : message_queue[j].id = message_queue[l].id => j = l
  <2> SUFFICES ASSUME NEW j \in DOMAIN message_queue, NEW l \in DOMAIN message_queue,
                      message_queue[j].id = message_queue[l].id
               PROVE  ~ (j < l) /\ ~ (l < j)
    BY <1>4
  <2>1. message_queue[j].id \in Nat /\ message_queue[l].id \in Nat
    BY <1>4
  <2> QED BY <1>11, <2>1
<1>13. QueueRight'
  <2>1. \A j \in DOMAIN message_queue' :
           message_queue'[j].body = made[message_queue'[j].id].body
    BY <1>8 DEF CourierInv, QueueRight
  <2>2. ASSUME NEW j \in DOMAIN message_queue', NEW l \in DOMAIN message_queue', j < l
        PROVE  message_queue'[j].id < message_queue'[l].id
    <3>1. j \in Nat /\ l \in Nat /\ same \in Nat
      BY <1>3, <1>4
    <3> QED BY <1>7, <1>11, <2>2, <3>1
  <2>3. \A j, l \in DOMAIN message_queue' :
          made[message_queue'[j].id].to = made[message_queue'[l].id].to
             => message_queue'[j].client = message_queue'[l].client
    BY <1>8 DEF CourierInv, QueueRight
  <2> QED BY <1>2, <2>1, <2>2, <2>3 DEF QueueRight
<1>14. Walked'
  <2> SUFFICES ASSUME NEW j \in DOMAIN message_queue', j < k,
                      client'[message_queue'[j].client].socket = pfds[i].fd,
                      NEW x, x = message_queue'[j].id
               PROVE  HasTwin(x)'
    BY <1>2 DEF Walked, SocketOf
  <2>1. PICK l \in DOMAIN message_queue :
                l # same /\ message_queue'[j] = message_queue[l] /\ (l = j \/ l = j + 1)
    BY <1>8
  <2>2. SocketOf(message_queue[l].client) = pfds[i].fd
    BY <1>4, <1>6, <2>1 DEF SocketOf
  <2>3. j \in Nat /\ l \in Nat
    BY <1>3, <1>4
  <2>4. CASE l < msg
    <3>1. HasTwin(message_queue[l].id)
      BY <1>5, <2>2, <2>4 DEF CourierInv, Walked
    <3> QED BY <1>6, <2>1, <3>1
  <2>5. CASE l >= k
    <3>1. l = k
      BY <1>4, <2>1, <2>3, <2>5
    <3>2. HasTwin(m.id) /\ x = m.id
      BY <1>9, <2>1, <3>1 DEF m
    <3> QED BY <1>6, <3>2
  <2> QED BY <1>5, <2>2, <2>4, <2>5
<1>15. NoMoreThanMade'
  <2>1. \A d \in Conns : Len(wire[d]) \in Nat /\ Len(made) \in Nat /\ Len(wire[d]) + n <= Len(made)
    BY QueueTypes DEF CourierInv, NoMoreThanMade, n
  <2>2. \A d \in Conns : Len(wire'[d]) = IF d = c THEN w + 1 ELSE Len(wire[d])
    BY <1>2
  <2>3. Len(made') = Len(made) /\ Len(message_queue') = n - 1
    BY <1>2, <1>3
  <2>4. w = Len(wire[c]) /\ c \in Conns /\ n \in Nat
    BY <1>2, <1>4 DEF w
  <2>5. ASSUME NEW d \in Conns PROVE Len(wire'[d]) + (n - 1) <= Len(made)
    <3>1. /\ Len(wire[d]) \in Nat /\ Len(made) \in Nat /\ Len(wire[d]) + n <= Len(made)
          /\ Len(wire'[d]) = IF d = c THEN w + 1 ELSE Len(wire[d])
      BY <2>1, <2>2
    <3>2. CASE d = c
      BY <2>4, <3>1, <3>2
    <3>3. CASE d # c
      BY <2>4, <3>1, <3>3
    <3> QED BY <3>2, <3>3
  <2> QED BY <2>3, <2>5 DEF NoMoreThanMade
<1>16. FreshWire'
  <2>1. conn[c].peer \notin {"idle", "knocking"}
    <3>1. pfds[i].fd \in Fds /\ file[pfds[i].fd] # NoConn
      BY <1>2, Listed, EventLoopAssumption
    <3> QED BY <3>1 DEF IInv, OpenIsLive, Down, c
  <2>2. ASSUME NEW d \in Conns, Unmade(conn'[d]) PROVE wire'[d] = <<>>
    <3>1. conn[d].peer \in {"idle", "knocking"}
      BY <1>2, <2>2 DEF Unmade
    <3> QED BY <1>2, <2>1, <3>1 DEF CourierInv, FreshWire, Unmade
  <2> QED BY <2>2 DEF FreshWire
<1>17. ASSUME NEW d \in Conns, NEW l \in DOMAIN wire'[d]
       PROVE  \/ l \in DOMAIN wire[d] /\ wire'[d][l] = wire[d][l]
              \/ d = c /\ l = w + 1 /\ wire'[d][l] = m.id
  BY <1>2, <1>4
<1>18. ASSUME NEW d \in Conns, NEW l \in DOMAIN wire[d]
       PROVE  /\ l \in DOMAIN wire'[d] /\ wire'[d][l] = wire[d][l]
              /\ d = c => l # w + 1
  BY <1>2, <1>4
<1>19. w + 1 \in DOMAIN wire'[c] /\ wire'[c][w + 1] = m.id
  BY <1>2, <1>4
<1>20. SentOnce'
  <2> SUFFICES ASSUME NEW id \in Ids, ~ HasTwin(id)
        PROVE  /\ Queued(id)' => \A d \in Conns : \A l \in DOMAIN wire'[d] : wire'[d][l] # id
               /\ Queued(id)' \/ \E d \in Conns : \E l \in DOMAIN wire'[d] : wire'[d][l] = id
               /\ \A d, e \in Conns : \A l \in DOMAIN wire'[d], o \in DOMAIN wire'[e] :
                     wire'[d][l] = id /\ wire'[e][o] = id => d = e /\ l = o
    BY <1>6 DEF SentOnce
  <2>1. /\ Queued(id) => \A d \in Conns : \A l \in DOMAIN wire[d] : wire[d][l] # id
        /\ Queued(id) \/ \E d \in Conns : \E l \in DOMAIN wire[d] : wire[d][l] = id
        /\ \A d, e \in Conns : \A l \in DOMAIN wire[d], o \in DOMAIN wire[e] :
              wire[d][l] = id /\ wire[e][o] = id => d = e /\ l = o
    BY DEF CourierInv, SentOnce
  <2>2. CASE id = m.id
    <3>1. same = k
      BY <1>9, <2>2
    <3>2. Queued(id)
      BY <1>2, <2>2 DEF Queued, m
    <3>3. ~ Queued(id)'
      <4> SUFFICES ASSUME NEW j \in DOMAIN message_queue', message_queue'[j].id = id PROVE FALSE
        BY DEF Queued
      <4>1. PICK l \in DOMAIN message_queue : l # same /\ message_queue'[j] = message_queue[l]
        BY <1>8
      <4> QED BY <1>2, <1>12, <2>2, <3>1, <4>1 DEF m
    <3>4. \A d \in Conns : \A l \in DOMAIN wire'[d] : wire'[d][l] = id => d = c /\ l = w + 1
      BY <1>17, <2>1, <3>2
    <3> QED BY <1>2, <1>19, <2>2, <3>3, <3>4
  <2>3. CASE id # m.id
    <3>1. message_queue[same].id # id
      BY <1>9, <1>10, <2>3 DEF m
    <3>2. Queued(id)' <=> Queued(id)
      <4>1. Queued(id)' => Queued(id)
        BY <1>8 DEF Queued
      <4>2. ASSUME Queued(id) PROVE Queued(id)'
        <5>1. PICK l \in DOMAIN message_queue : message_queue[l].id = id
          BY <4>2 DEF Queued
        <5>2. CASE l < same
          <6>1. l \in DOMAIN message_queue' /\ message_queue'[l] = message_queue[l]
            BY <1>3, <1>4, <5>2
          <6> QED BY <5>1, <6>1 DEF Queued
        <5>3. CASE l > same
          <6>1. l - 1 \in DOMAIN message_queue' /\ message_queue'[l - 1] = message_queue[l]
            BY <1>3, <1>4, <5>3
          <6> QED BY <5>1, <6>1 DEF Queued
        <5>4. l # same
          BY <3>1, <5>1
        <5> QED BY <1>4, <5>2, <5>3, <5>4
      <4> QED BY <4>1, <4>2
    <3>3. ASSUME NEW d \in Conns, NEW l \in DOMAIN wire'[d], wire'[d][l] = id
          PROVE  l \in DOMAIN wire[d] /\ wire[d][l] = id
      BY <1>17, <2>3, <3>3
    <3> QED BY <1>18, <2>1, <3>2, <3>3
  <2> QED BY <2>2, <2>3
<1>21. file[SocketOf(m.client)] = c
  BY <1>2 DEF c
<1>22. InOrder'
  <2> SUFFICES ASSUME NEW d \in Conns, NEW j \in DOMAIN wire'[d], NEW l \in DOMAIN wire'[d], j < l,
                      NEW x, NEW z, x = wire'[d][j], z = wire'[d][l]
               PROVE  x < z \/ HasTwin(x) \/ HasTwin(z)
    BY <1>6 DEF InOrder
  <2>1. CASE l \in DOMAIN wire[d] /\ wire'[d][l] = wire[d][l]
    <3>1. j \in DOMAIN wire[d] /\ wire'[d][j] = wire[d][j]
      BY <1>2, <1>4, <1>17, <2>1
    <3> QED BY <2>1, <3>1 DEF CourierInv, InOrder
  <2>2. CASE d = c /\ l = w + 1 /\ z = m.id
    <3>1. j \in DOMAIN wire[c] /\ x = wire[c][j]
      BY <1>2, <1>4, <2>2
    <3> QED BY <1>2, <1>21, <2>2, <3>1 DEF CourierInv, SentOrdered, m
  <2> QED BY <1>17, <2>1, <2>2
<1>23. SentOrdered'
  <2> SUFFICES ASSUME NEW d \in Conns, NEW l \in DOMAIN wire'[d], NEW j \in DOMAIN message_queue',
                      message_queue'[j].client \in ClientSet,
                      file[client'[message_queue'[j].client].socket] = d,
                      NEW x, NEW z, x = wire'[d][l], z = message_queue'[j].id
               PROVE  x < z \/ HasTwin(x) \/ HasTwin(z)
    BY <1>2, <1>6 DEF SentOrdered, SocketOf
  <2>1. PICK o \in DOMAIN message_queue : o # same /\ message_queue'[j] = message_queue[o]
    BY <1>8
  <2>2. /\ message_queue[o].client \in ClientSet /\ z = message_queue[o].id
        /\ file[SocketOf(message_queue[o].client)] = d
    BY <1>4, <1>6, <2>1 DEF SocketOf
  <2>3. CASE l \in DOMAIN wire[d] /\ wire'[d][l] = wire[d][l]
    BY <2>2, <2>3 DEF CourierInv, SentOrdered
  <2>4. CASE d = c /\ x = m.id
    <3>1. SocketOf(message_queue[o].client) = pfds[i].fd
      <4>1. /\ SocketOf(message_queue[o].client) \in Fds /\ SocketOf(m.client) \in Fds
            /\ file[SocketOf(m.client)] # NoConn
        BY <1>2, <2>2, Listed, EventLoopAssumption
      <4>2. SocketOf(message_queue[o].client) = SocketOf(m.client)
        BY <1>21, <2>2, <2>4, <4>1 DEF IInv, SocketsMatch
      <4> QED BY <1>2, <4>2
    <3>2. CASE o < msg
      BY <1>5, <2>2, <3>1, <3>2 DEF CourierInv, Walked
    <3>3. CASE o = k
      BY <1>9, <2>1, <2>4, <3>3
    <3>4. CASE o > k
      BY <1>2, <1>11, <2>2, <2>4, <3>4 DEF m
    <3> QED BY <1>4, <1>5, <3>1, <3>2, <3>3, <3>4
  <2> QED BY <1>17, <2>3, <2>4
<1> QED BY <1>1, <1>13, <1>14, <1>15, <1>16, <1>20, <1>22, <1>23 DEF CourierInv

\* Every step keeps it.
LEMMA CourierStep == IInv /\ CourierInv /\ [Next]_vars => CourierInv'
<1> SUFFICES ASSUME IInv, CourierInv, [Next]_vars PROVE CourierInv'
  OBVIOUS
<1>1. CASE UNCHANGED queueVars
  BY <1>1, CourierQuiet
<1>2. ASSUME NEW b \in Bodies, TypeText(b) PROVE CourierInv'
  <2>1. active_client = NoClient => UNCHANGED queueVars
    BY <1>2 DEF TypeText
  <2> QED BY <1>1, <1>2, <2>1, CourierTyped
<1>3. CASE packet_transmit
  BY <1>3, CourierSent
<1>4. UNCHANGED queueVars \/ (\E b \in Bodies : TypeText(b)) \/ packet_transmit
  BY DEF Next, Pass, HandleInput, Peers, Terminated, Poll, Exit, NoInput, TypeQuit, TypeOther,
         TypeOverrun, TransmitKills,
         TypeSelect, TypeRename, TypeConnect, ConnectFails, NoPeer, accept_connection,
         AcceptFails, EndPass, SlotError, SlotHangup, SlotEof, SlotIdle, packet_receive,
         ReceiveFails, TransmitFails, EndOutput, OnlyControl, handle_error, Peer,
         PeerConnects, PeerGivesUp, PeerSends, PeerReads, PeerCloses, PeerHangsUp, PeerResets,
         vars
<1> QED BY <1>1, <1>2, <1>3, <1>4

\* It holds in every reachable state.
THEOREM AlwaysCourierInv == Spec => []CourierInv
<1>1. Init => CourierInv
  <2> SUFFICES ASSUME Init PROVE CourierInv
    OBVIOUS
  <2>1. /\ message_queue = <<>> /\ made = <<>> /\ wire = [c \in Conns |-> <<>>] /\ pc = "poll"
        /\ DOMAIN <<>> = {} /\ Len(<<>>) = 0
    BY DEF Init
  <2>2. DOMAIN message_queue = {} /\ Ids = {} /\ \A c \in Conns : wire[c] = <<>>
    BY <2>1 DEF Ids
  <2>3. SentMade /\ QueuedAims /\ RightPeerUnlessGone /\ QueueRight /\ Walked
    BY <2>1, <2>2 DEF SentMade, QueuedAims, RightPeerUnlessGone, QueueRight, Walked
  <2>4. NoMoreThanMade /\ FreshWire
    BY <2>1, <2>2 DEF NoMoreThanMade, FreshWire
  <2>5. SentOnce /\ SentOrdered /\ InOrder
    BY <2>1, <2>2 DEF SentOnce, SentOrdered, InOrder
  <2> QED BY <2>3, <2>4, <2>5 DEF CourierInv
<1> QED BY <1>1, CourierStep, AlwaysIInv, PTL DEF Spec

\* What reaches a peer is in the order it was typed, repeated texts excepted.
THEOREM OrderCorrect == Spec => []InOrder
<1>1. CourierInv => InOrder
  BY DEF CourierInv
<1> QED BY <1>1, AlwaysCourierInv, PTL

\* A text that was not typed for another connection too is sent once, and leaves the
\* queue when it is.
THEOREM OnceCorrect == Spec => []ExactlyOnceUnlessTwin
<1>1. IInv /\ CourierInv => ExactlyOnceUnlessTwin
  <2> SUFFICES ASSUME IInv, CourierInv, NEW id \in Ids, ~ HasTwin(id)
               PROVE  Cardinality(Sends(id)) = IF Queued(id) THEN 0 ELSE 1
    BY DEF ExactlyOnceUnlessTwin
  <2>1. /\ Queued(id) => \A c \in Conns : \A k \in DOMAIN wire[c] : wire[c][k] # id
        /\ Queued(id) \/ \E c \in Conns : \E k \in DOMAIN wire[c] : wire[c][k] = id
        /\ \A c, d \in Conns : \A k \in DOMAIN wire[c], l \in DOMAIN wire[d] :
              wire[c][k] = id /\ wire[d][l] = id => c = d /\ k = l
    BY DEF CourierInv, SentOnce
  <2>2. CASE Queued(id)
    <3>1. Sends(id) = {}
      BY <2>1, <2>2 DEF Sends
    <3> QED BY <2>2, <3>1, FS_EmptySet
  <2>3. CASE ~ Queued(id)
    <3>0. PICK c \in Conns : \E l \in DOMAIN wire[c] : wire[c][l] = id
      BY <2>1, <2>3
    <3>1. PICK k \in DOMAIN wire[c] : wire[c][k] = id
      BY <3>0
    <3>2. k \in Ids
      <4>1. /\ DOMAIN wire[c] = 1 .. Len(wire[c]) /\ Len(wire[c]) \in Nat
            /\ Ids = 1 .. Len(made) /\ Len(made) \in Nat /\ Len(message_queue) \in Nat
        BY QueueTypes
      <4>2. Len(wire[c]) + Len(message_queue) <= Len(made)
        BY DEF CourierInv, NoMoreThanMade
      <4> QED BY <4>1, <4>2
    <3>3. Sends(id) = {<<c, k>>}
      <4>1. <<c, k>> \in Sends(id)
        BY <3>1, <3>2 DEF Sends
      <4>2. ASSUME NEW p \in Sends(id) PROVE p = <<c, k>>
        <5>1. /\ p[1] \in Conns /\ p[2] \in DOMAIN wire[p[1]] /\ wire[p[1]][p[2]] = id
              /\ p = <<p[1], p[2]>>
          BY DEF Sends
        <5> QED BY <2>1, <3>1, <5>1
      <4> QED BY <4>1, <4>2
    <3> QED BY <2>3, <3>3, FS_Singleton
  <2> QED BY <2>2, <2>3
<1> QED BY <1>1, AlwaysIInv, AlwaysCourierInv, PTL

-----------------------------------------------------------------------------
(* The outgoing queue implements Courier.                                  *)

\* Taking one place out of a queue and closing the gap takes one place out of any
\* set of places.
LEMMA GapClosed ==
  ASSUME NEW n \in Nat, NEW same \in 1 .. n, NEW S \in SUBSET (1 .. n), NEW T,
         T = {j \in 1 .. n - 1 : (IF j < same THEN j ELSE j + 1) \in S}
  PROVE  IsFiniteSet(S) /\ Cardinality(T) = Cardinality(S \ {same})
<1> DEFINE R == S \ {same}
           f == [j \in T |-> IF j < same THEN j ELSE j + 1]
<1>1. IsFiniteSet(S) /\ IsFiniteSet(T) /\ IsFiniteSet(R)
  <2>1. IsFiniteSet(1 .. n) /\ IsFiniteSet(1 .. n - 1)
    BY FS_Interval
  <2>2. T \in SUBSET (1 .. n - 1)
    OBVIOUS
  <2>3. IsFiniteSet(S)
    BY <2>1, FS_Subset
  <2>4. IsFiniteSet(T)
    BY <2>1, <2>2, FS_Subset
  <2> QED BY <2>3, <2>4, FS_RemoveElement
<1>2. \A j \in T : j \in Nat /\ f[j] \in R
  OBVIOUS
<1>3. \A j, k \in T : f[j] = f[k] => j = k
  OBVIOUS
<1>4. ASSUME NEW r \in R PROVE \E j \in T : f[j] = r
  <2>0. r \in 1 .. n /\ r # same /\ r \in S
    OBVIOUS
  <2>1. CASE r < same
    <3>1. r \in T
      BY <2>1
    <3> QED BY <2>1, <3>1
  <2>2. CASE r > same
    <3>1. r - 1 \in 1 .. n - 1 /\ ~ (r - 1 < same) /\ (r - 1) + 1 = r
      BY <2>2
    <3>2. r - 1 \in T
      BY <3>1
    <3>3. f[r - 1] = r
      BY <3>1, <3>2
    <3> QED BY <3>2, <3>3
  <2>3. r < same \/ r > same
    BY <2>0
  <2> QED BY <2>1, <2>2, <2>3
<1>5. f \in [T -> R]
  BY <1>2
<1> HIDE DEF f, R
<1>6. f \in Injection(T, R) /\ f \in Surjection(T, R)
  BY <1>3, <1>4, <1>5 DEF Injection, Surjection, IsInjective
<1>7. ExistsBijection(T, R)
  BY <1>6 DEF ExistsBijection, Bijection
<1> QED BY <1>1, <1>7, FS_Bijection DEF R

\* The places a text has on the connections.
LEMMA PlacesSent ==
  ASSUME NEW b, NEW p
  PROVE  p \in SentAs(b) <=> \E c \in Conns : \E k \in DOMAIN wire[c] :
                                p = <<c, k>> /\ made[wire[c][k]].body = b
BY DEF SentAs, SentTo

\* Each text is on the connections finitely often.
FinitelySent == \A b \in Bodies : IsFiniteSet(SentAs(b))

\* How a step changes the places where a text waits and where it was sent.
Same(b) == UNCHANGED <<Waiting(b), SentAs(b)>>

\* A step that neither types nor sends changes no place.
LEMMA QuietPlaces ==
  ASSUME NEW b, UNCHANGED queueVars
  PROVE  Same(b)
BY DEF queueVars, Same, Waiting, SentAs, SentTo

\* A typed text gets the place behind the last.
LEMMA TypedPlaces ==
  ASSUME IInv, CourierInv, NEW b \in Bodies, TypeText(b), active_client # NoClient, NEW a
  PROVE  /\ SentAs(a)' = SentAs(a)
         /\ Waiting(a)' = IF a = b THEN Waiting(a) \cup {Len(message_queue) + 1} ELSE Waiting(a)
<1> DEFINE n == Len(message_queue)
<1>1. /\ \A id \in Ids : made'[id] = made[id]
      /\ DOMAIN message_queue' = 1 .. n + 1
      /\ \A k \in DOMAIN message_queue : message_queue'[k] = message_queue[k]
      /\ message_queue'[n + 1] = [id |-> Len(made) + 1, client |-> active_client, body |-> b]
      /\ wire' = wire
  BY Typed
<1>2. DOMAIN message_queue = 1 .. n /\ n \in Nat
  BY QueueTypes
<1>3. \A c \in Conns : SentTo(c, a)' = SentTo(c, a)
  <2>1. \A c \in Conns : \A k \in DOMAIN wire[c] : wire[c][k] \in Ids
    BY DEF CourierInv, SentMade, Ids
  <2> QED BY <1>1, <2>1 DEF SentTo
<1>4. SentAs(a)' = SentAs(a)
  BY <1>3 DEF SentAs
<1> HIDE DEF n
<1>5. 1 .. n + 1 = (1 .. n) \cup {n + 1}
  BY <1>2
<1>6. Waiting(a)' = IF a = b THEN Waiting(a) \cup {n + 1} ELSE Waiting(a)
  BY <1>1, <1>2, <1>5 DEF Waiting
<1> QED BY <1>4, <1>6 DEF n

\* A text that is sent gives up one place of the queue for one behind the last of
\* a connection, whichever of its copies goes.
LEMMA SentPlaces ==
  ASSUME IInv, CourierInv, packet_transmit, NEW a
  PROVE  LET b == message_queue[NextDue].body
             p == <<file[pfds[i].fd], Len(wire[file[pfds[i].fd]]) + 1>>
         IN  /\ b \in Bodies /\ p \notin SentAs(a)
             /\ SentAs(a)' = IF a = b THEN SentAs(a) \cup {p} ELSE SentAs(a)
             /\ \E same \in DOMAIN message_queue :
                   /\ same \in Waiting(b)
                   /\ Cardinality(Waiting(a)') = Cardinality(Waiting(a) \ {same})
<1> DEFINE k == NextDue
           m == message_queue[k]
           b == m.body
           c == file[pfds[i].fd]
           n == Len(message_queue)
           w == Len(wire[c])
<1>1. /\ k \in DOMAIN message_queue /\ m.id \in Ids /\ c \in Conns /\ message_destroy(k)
      /\ Len(wire'[c]) = w + 1 /\ wire'[c][w + 1] = m.id
      /\ \A j \in 1 .. w : wire'[c][j] = wire[c][j]
      /\ DOMAIN wire'[c] = 1 .. w + 1
      /\ \A d \in Conns : d # c => wire'[d] = wire[d]
      /\ made' = made
  BY Sent, Zenon
<1>2. PICK same \in 1 .. k :
            /\ message_queue[same].body = b
            /\ DOMAIN message_queue' = 1 .. n - 1
            /\ \A j \in 1 .. n - 1 : message_queue'[j] =
                  IF j < same THEN message_queue[j] ELSE message_queue[j + 1]
  BY <1>1, Destroyed
<1>3. /\ DOMAIN message_queue = 1 .. n /\ n \in Nat
      /\ \A d \in Conns : DOMAIN wire[d] = 1 .. Len(wire[d]) /\ Len(wire[d]) \in Nat
      /\ \A j \in DOMAIN message_queue : message_queue[j].body \in Bodies
  BY QueueTypes
<1>4. b = made[m.id].body /\ b \in Bodies
  BY <1>1, <1>3 DEF CourierInv, QueueRight
<1> HIDE DEF k, m, b, c, n, w
<1>5. DOMAIN wire[c] = 1 .. w /\ w \in Nat
  BY <1>1, <1>3 DEF w
<1>6. <<c, w + 1>> \notin SentAs(a)
  BY <1>5, PlacesSent
<1>7. ASSUME NEW d \in Conns, d # c PROVE SentTo(d, a)' = SentTo(d, a)
  BY <1>1, <1>7 DEF SentTo
<1>8. ASSUME NEW d \in Conns, d = c
      PROVE  SentTo(d, a)' = IF a = b THEN SentTo(d, a) \cup {w + 1} ELSE SentTo(d, a)
  <2>1. DOMAIN wire'[d] = DOMAIN wire[d] \cup {w + 1}
    BY <1>1, <1>5, <1>8
  <2>2. /\ \A j \in DOMAIN wire[d] : made'[wire'[d][j]].body = made[wire[d][j]].body
        /\ made'[wire'[d][w + 1]].body = b
    BY <1>1, <1>4, <1>5, <1>8
  <2>3. SentTo(d, a)' = {j \in DOMAIN wire[d] \cup {w + 1} : made'[wire'[d][j]].body = a}
    BY <2>1 DEF SentTo
  <2> QED BY <2>2, <2>3 DEF SentTo
<1>9. SentAs(a)' = IF a = b THEN SentAs(a) \cup {<<c, w + 1>>} ELSE SentAs(a)
  <2>1. CASE a = b
    <3>1. \A p : p \in SentAs(a) <=> \E d \in Conns : \E j \in SentTo(d, a) : p = <<d, j>>
      BY DEF SentAs
    <3>2. \A p : p \in SentAs(a)' <=> \E d \in Conns : \E j \in SentTo(d, a)' : p = <<d, j>>
      BY DEF SentAs
    <3>3. \A d \in Conns : d = c => SentTo(d, a)' = SentTo(d, a) \cup {w + 1}
      BY <1>8, <2>1
    <3>4. \A d \in Conns : d # c => SentTo(d, a)' = SentTo(d, a)
      BY <1>7
    <3>5. ASSUME NEW p, p \in SentAs(a)' PROVE p \in SentAs(a) \cup {<<c, w + 1>>}
      <4>1. PICK d \in Conns : \E j \in SentTo(d, a)' : p = <<d, j>>
        BY <3>2, <3>5
      <4>2. PICK j \in SentTo(d, a)' : p = <<d, j>>
        BY <4>1
      <4> QED BY <3>1, <3>3, <3>4, <4>2
    <3>6. ASSUME NEW p, p \in SentAs(a) PROVE p \in SentAs(a)'
      <4>1. PICK d \in Conns : \E j \in SentTo(d, a) : p = <<d, j>>
        BY <3>1, <3>6
      <4>2. PICK j \in SentTo(d, a) : p = <<d, j>>
        BY <4>1
      <4>3. j \in SentTo(d, a)'
        BY <3>3, <3>4, <4>2
      <4> QED BY <3>2, <4>2, <4>3
    <3>7. <<c, w + 1>> \in SentAs(a)'
      <4>1. PICK d \in Conns : d = c
        BY <1>1
      <4>2. w + 1 \in SentTo(d, a)'
        BY <3>3, <4>1
      <4> QED BY <3>2, <4>1, <4>2
    <3> QED BY <2>1, <3>5, <3>6, <3>7
  <2>2. CASE a # b
    <3>1. ASSUME NEW d \in Conns PROVE SentTo(d, a)' = SentTo(d, a)
      BY <1>7, <1>8, <2>2
    <3> QED BY <2>2, <3>1 DEF SentAs
  <2> QED BY <2>1, <2>2
<1>10. same \in 1 .. n /\ same \in DOMAIN message_queue
  BY <1>1, <1>2, <1>3
<1>11. same \in Waiting(b)
  BY <1>2, <1>10 DEF Waiting
<1>12. Waiting(a)' = {j \in 1 .. n - 1 : (IF j < same THEN j ELSE j + 1) \in Waiting(a)}
  <2>1. \A j \in 1 .. n - 1 : j \in DOMAIN message_queue /\ j + 1 \in DOMAIN message_queue
    BY <1>3
  <2>2. ASSUME NEW j \in 1 .. n - 1
        PROVE  message_queue'[j].body = a <=> (IF j < same THEN j ELSE j + 1) \in Waiting(a)
    <3>1. CASE j < same
      BY <1>2, <2>1, <3>1 DEF Waiting
    <3>2. CASE ~ (j < same)
      BY <1>2, <2>1, <3>2 DEF Waiting
    <3> QED BY <3>1, <3>2
  <2>3. Waiting(a)' = {j \in 1 .. n - 1 : message_queue'[j].body = a}
    BY <1>2 DEF Waiting
  <2> QED BY <2>2, <2>3
<1>13. Waiting(a) \in SUBSET (1 .. n)
  BY <1>3 DEF Waiting
<1>14. Cardinality(Waiting(a)') = Cardinality(Waiting(a) \ {same})
  BY <1>3, <1>10, <1>12, <1>13, GapClosed, Zenon
<1> QED BY <1>4, <1>6, <1>9, <1>10, <1>11, <1>14 DEF k, m, b, c, w

\* The queue is finite, and so is what was sent.
LEMMA WaitingFinite ==
  ASSUME IInv, NEW b
  PROVE  IsFiniteSet(Waiting(b)) /\ Cardinality(Waiting(b)) \in Nat
<1>1. Waiting(b) \in SUBSET (1 .. Len(message_queue)) /\ Len(message_queue) \in Nat
  BY QueueTypes DEF Waiting
<1>2. IsFiniteSet(1 .. Len(message_queue))
  BY <1>1, FS_Interval
<1> QED BY <1>1, <1>2, FS_Subset, FS_CardinalityType

\* Every step types, sends, or does neither.
LEMMA QueueSteps ==
  ASSUME [Next]_vars
  PROVE  \/ UNCHANGED queueVars
         \/ \E b \in Bodies : TypeText(b) /\ active_client # NoClient
         \/ packet_transmit
<1>1. UNCHANGED queueVars \/ (\E b \in Bodies : TypeText(b)) \/ packet_transmit
  BY DEF Next, Pass, HandleInput, Peers, Terminated, Poll, Exit, NoInput, TypeQuit, TypeOther,
         TypeOverrun, TransmitKills,
         TypeSelect, TypeRename, TypeConnect, ConnectFails, NoPeer, accept_connection,
         AcceptFails, EndPass, SlotError, SlotHangup, SlotEof, SlotIdle, packet_receive,
         ReceiveFails, TransmitFails, EndOutput, OnlyControl, handle_error, Peer,
         PeerConnects, PeerGivesUp, PeerSends, PeerReads, PeerCloses, PeerHangsUp, PeerResets,
         vars
<1> QED BY <1>1 DEF TypeText

\* Every text that is typed waits until it is sent, and is sent as often as it was
\* typed, whichever of several equal texts the queue gives up: the outgoing queue
\* of EventLoop implements Courier.
THEOREM QueueImplements == Spec => ImplementsCourier
<1> DEFINE W == [b \in Bodies |-> Cardinality(Waiting(b))]
           S == [b \in Bodies |-> Cardinality(SentAs(b))]
<1>1. Init => C!Init /\ FinitelySent
  <2> SUFFICES ASSUME Init PROVE C!Init /\ FinitelySent
    OBVIOUS
  <2>1. message_queue = <<>> /\ wire = [c \in Conns |-> <<>>] /\ DOMAIN <<>> = {}
    BY DEF Init
  <2>2. DOMAIN message_queue = {} /\ \A c \in Conns : DOMAIN wire[c] = {}
    BY <2>1
  <2>3. ASSUME NEW b PROVE Waiting(b) = {} /\ SentAs(b) = {}
    <3>1. Waiting(b) = {}
      BY <2>2 DEF Waiting
    <3>2. \A p : p \notin SentAs(b)
      BY <2>2, PlacesSent
    <3> QED BY <3>1, <3>2
  <2>4. W = [b \in Bodies |-> 0] /\ S = [b \in Bodies |-> 0] /\ FinitelySent
    BY <2>3, FS_EmptySet DEF FinitelySent
  <2> QED BY <2>4 DEF C!Init
<1>2. IInv /\ CourierInv /\ FinitelySent /\ [Next]_vars => [C!Next]_(C!vars) /\ FinitelySent'
  <2> SUFFICES ASSUME IInv, CourierInv, FinitelySent, [Next]_vars
               PROVE  [C!Next]_(C!vars) /\ FinitelySent'
    OBVIOUS
  <2>a. \A b \in Bodies : /\ IsFiniteSet(SentAs(b)) /\ IsFiniteSet(Waiting(b))
                          /\ Cardinality(SentAs(b)) \in Nat /\ Cardinality(Waiting(b)) \in Nat
    BY WaitingFinite, FS_CardinalityType DEF FinitelySent
  <2>b. /\ W' = [b \in Bodies |-> Cardinality(Waiting(b)')]
        /\ S' = [b \in Bodies |-> Cardinality(SentAs(b)')]
    OBVIOUS
  <2>1. CASE UNCHANGED queueVars
    <3>1. \A b : Waiting(b)' = Waiting(b) /\ SentAs(b)' = SentAs(b)
      BY <2>1, QuietPlaces DEF Same
    <3>2. FinitelySent'
      BY <3>1 DEF FinitelySent
    <3>3. W' = W /\ S' = S
      BY <3>1, <2>b
    <3> QED BY <3>2, <3>3 DEF C!vars
  <2>2. ASSUME NEW b \in Bodies, TypeText(b), active_client # NoClient
        PROVE  C!Type(b) /\ FinitelySent'
    <3>1. ASSUME NEW a
          PROVE  /\ SentAs(a)' = SentAs(a)
                 /\ Waiting(a)' = IF a = b THEN Waiting(a) \cup {Len(message_queue) + 1}
                                  ELSE Waiting(a)
      BY <2>2, TypedPlaces
    <3>2. FinitelySent'
      BY <3>1 DEF FinitelySent
    <3>3. S' = S
      BY <3>1, <2>b
    <3>4. Len(message_queue) + 1 \notin Waiting(b)
      BY QueueTypes DEF Waiting
    <3>5. Cardinality(Waiting(b)') = Cardinality(Waiting(b)) + 1
      BY <2>a, <3>1, <3>4, FS_AddElement
    <3>6. \A a \in Bodies : a # b => Cardinality(Waiting(a)') = Cardinality(Waiting(a))
      BY <3>1
    <3>7. W' = [W EXCEPT ![b] = @ + 1]
      BY <2>b, <3>5, <3>6
    <3> QED BY <3>2, <3>3, <3>7 DEF C!Type
  <2>3. CASE packet_transmit
    <3>0. PICK b : b = message_queue[NextDue].body
      OBVIOUS
    <3>1. PICK p : p = <<file[pfds[i].fd], Len(wire[file[pfds[i].fd]]) + 1>>
      OBVIOUS
    <3>2. ASSUME NEW a
          PROVE  /\ b \in Bodies /\ p \notin SentAs(a)
                 /\ SentAs(a)' = IF a = b THEN SentAs(a) \cup {p} ELSE SentAs(a)
                 /\ \E same \in DOMAIN message_queue :
                       /\ same \in Waiting(b)
                       /\ Cardinality(Waiting(a)') = Cardinality(Waiting(a) \ {same})
      BY <2>3, <3>0, <3>1, SentPlaces
    <3>3. b \in Bodies /\ IsFiniteSet(Waiting(b)) /\ IsFiniteSet(SentAs(b))
      BY <2>a, <3>2
    <3>4. FinitelySent'
      <4> SUFFICES ASSUME NEW a \in Bodies PROVE IsFiniteSet(SentAs(a)')
        BY DEF FinitelySent
      <4>1. IsFiniteSet(SentAs(a)) /\ IsFiniteSet(SentAs(a) \cup {p})
        BY <2>a, FS_AddElement
      <4> QED BY <3>2, <4>1
    <3>5. Cardinality(Waiting(b)') = Cardinality(Waiting(b)) - 1 /\ Waiting(b) # {}
      <4>1. PICK same \in DOMAIN message_queue :
                /\ same \in Waiting(b)
                /\ Cardinality(Waiting(b)') = Cardinality(Waiting(b) \ {same})
        BY <3>2
      <4> QED BY <3>3, <4>1, FS_RemoveElement
    <3>6. ASSUME NEW a \in Bodies, a # b
          PROVE  Cardinality(Waiting(a)') = Cardinality(Waiting(a))
      <4>1. PICK same \in DOMAIN message_queue :
                /\ same \in Waiting(b)
                /\ Cardinality(Waiting(a)') = Cardinality(Waiting(a) \ {same})
        BY <3>2
      <4>2. Waiting(a) \ {same} = Waiting(a)
        BY <3>6, <4>1 DEF Waiting
      <4> QED BY <4>1, <4>2
    <3>7. Cardinality(SentAs(b)') = Cardinality(SentAs(b)) + 1
      BY <3>2, <3>3, FS_AddElement
    <3>8. \A a \in Bodies : a # b => Cardinality(SentAs(a)') = Cardinality(SentAs(a))
      BY <3>2
    <3>9. Cardinality(Waiting(b)) > 0
      <4>1. Cardinality(Waiting(b)) # 0 /\ Cardinality(Waiting(b)) \in Nat
        BY <2>a, <3>3, <3>5, FS_EmptySet
      <4> QED BY <4>1
    <3>10. W[b] > 0 /\ W' = [W EXCEPT ![b] = @ - 1]
      BY <2>b, <3>3, <3>5, <3>6, <3>9
    <3>11. S' = [S EXCEPT ![b] = @ + 1]
      BY <2>b, <3>3, <3>7, <3>8
    <3>12. C!Send(b)
      BY <3>10, <3>11 DEF C!Send
    <3> QED BY <3>3, <3>4, <3>12 DEF C!Next
  <2> QED BY <2>1, <2>2, <2>3, QueueSteps DEF C!Next
<1> QED BY <1>1, <1>2, AlwaysIInv, AlwaysCourierInv, PTL DEF Spec, ImplementsCourier, C!Spec

-----------------------------------------------------------------------------
(* Histories.                                                              *)

\* Places one further down.
Up(S) == {k + 1 : k \in S}

\* Moving a set of places keeps their number, and leaves the first place free.
LEMMA MovedUp ==
  ASSUME NEW n \in Nat, NEW S \in SUBSET (1 .. n)
  PROVE  /\ IsFiniteSet(S) /\ IsFiniteSet(Up(S)) /\ 1 \notin Up(S)
         /\ Cardinality(Up(S)) = Cardinality(S) /\ Cardinality(S) \in Nat
<1> DEFINE T == Up(S)
           f == [k \in S |-> k + 1]
<1>1. IsFiniteSet(S)
  <2>1. IsFiniteSet(1 .. n)
    BY FS_Interval
  <2> QED BY <2>1, FS_Subset
<1>2. f \in [S -> T] /\ \A j, k \in S : f[j] = f[k] => j = k
  BY DEF Up
<1>3. (\A t \in T : \E k \in S : f[k] = t) /\ 1 \notin T
  BY DEF Up
<1> HIDE DEF f, T
<1>4. f \in Injection(S, T) /\ f \in Surjection(S, T)
  BY <1>2, <1>3 DEF Injection, Surjection, IsInjective
<1>5. ExistsBijection(S, T)
  BY <1>4 DEF ExistsBijection, Bijection
<1> QED BY <1>1, <1>3, <1>5, FS_Bijection, FS_CardinalityType DEF T

\* A new entry moves the others one up.
LEMMA EntryInFront ==
  ASSUME NEW h \in Seq(Entries), NEW e \in Entries
  PROVE  /\ Prepended(h, e) \in Seq(Entries)
         /\ DOMAIN h = 1 .. Len(h) /\ Len(h) \in Nat
         /\ DOMAIN Prepended(h, e) = 1 .. Len(h) + 1
         /\ Prepended(h, e)[1] = e
         /\ \A k \in 1 .. Len(h) : Prepended(h, e)[k + 1] = h[k]
<1>1. PICK u : u = <<e>>
  OBVIOUS
<1>2. u \in Seq(Entries) /\ Len(u) = 1 /\ u[1] = e
  BY <1>1
<1>3. Len(h) \in Nat /\ DOMAIN h = 1 .. Len(h)
  BY LenProperties
<1>4. /\ u \o h \in Seq(Entries) /\ Len(u \o h) = 1 + Len(h)
      /\ \A k \in 1 .. 1 + Len(h) : (u \o h)[k] = IF k <= 1 THEN u[k] ELSE h[k - 1]
  <2>1. /\ u \o h \in Seq(Entries) /\ Len(u \o h) = Len(u) + Len(h)
        /\ \A k \in 1 .. Len(u) + Len(h) :
              (u \o h)[k] = IF k <= Len(u) THEN u[k] ELSE h[k - Len(u)]
    BY <1>2, ConcatProperties
  <2> QED BY <1>2, <2>1
<1>5. DOMAIN (u \o h) = 1 .. Len(h) + 1
  BY <1>3, <1>4, LenProperties
<1>6. (u \o h)[1] = e
  <2>1. 1 \in 1 .. 1 + Len(h)
    BY <1>3
  <2> QED BY <1>2, <1>4, <2>1
<1>7. ASSUME NEW k \in 1 .. Len(h) PROVE (u \o h)[k + 1] = h[k]
  <2>1. k + 1 \in 1 .. 1 + Len(h) /\ ~ (k + 1 <= 1) /\ (k + 1) - 1 = k
    BY <1>3
  <2> QED BY <1>4, <2>1
<1> QED BY <1>1, <1>3, <1>4, <1>5, <1>6, <1>7 DEF Prepended

\* The message of an entry is one of those sent.
LEMMA PlaceInLog ==
  ASSUME NEW h \in Seq(Entries), NEW k \in SentIn(h)
  PROVE  /\ Cardinality(SentUpTo(h, k)) \in 1 .. Cardinality(SentIn(h))
         /\ Cardinality(SentIn(h)) \in Nat
<1>1. DOMAIN h = 1 .. Len(h) /\ Len(h) \in Nat
  BY LenProperties
<1>2. SentIn(h) \in SUBSET (1 .. Len(h))
  BY <1>1 DEF SentIn
<1>3. IsFiniteSet(SentIn(h)) /\ Cardinality(SentIn(h)) \in Nat
  BY <1>1, <1>2, MovedUp
<1>4. SentUpTo(h, k) \in SUBSET SentIn(h) /\ k \in SentUpTo(h, k)
  BY <1>2 DEF SentUpTo
<1>5. IsFiniteSet(SentUpTo(h, k)) /\ Cardinality(SentUpTo(h, k)) <= Cardinality(SentIn(h))
  BY <1>3, <1>4, FS_Subset
<1>6. Cardinality(SentUpTo(h, k)) \in Nat /\ Cardinality(SentUpTo(h, k)) # 0
  BY <1>4, <1>5, FS_CardinalityType, FS_EmptySet
<1> QED BY <1>3, <1>5, <1>6

\* A log stays one when more messages are typed.
LEMMA LogOfMore ==
  ASSUME NEW h \in Seq(Entries), NEW w \in Seq(Nat), NEW m, NEW l, NEW n, NEW f,
         IsLog(h, w, m, n, f), \A k \in 1 .. Len(w) : l[w[k]] = m[w[k]]
  PROVE  IsLog(h, w, l, n, f)
<1>1. ASSUME NEW k \in SentIn(h)
      PROVE  LET id == w[Cardinality(SentUpTo(h, k))]
             IN  h[k] = [conn |-> l[id].to, id |-> id]
  <2>1. Cardinality(SentUpTo(h, k)) \in 1 .. Len(w)
    BY PlaceInLog DEF IsLog
  <2>2. h[k] = [conn |-> m[w[Cardinality(SentUpTo(h, k))]].to,
                id   |-> w[Cardinality(SentUpTo(h, k))]]
    BY DEF IsLog
  <2> QED BY <2>1, <2>2
<1> QED BY <1>1 DEF IsLog

\* Where the entries are after a new one.
LEMMA PlacesMove ==
  ASSUME NEW h \in Seq(Entries), NEW e \in Entries
  PROVE  LET g == Prepended(h, e)
         IN  /\ e.id > 0 => /\ SentIn(g) = Up(SentIn(h)) \cup {1}
                            /\ DOMAIN g \ SentIn(g) = Up(DOMAIN h \ SentIn(h))
             /\ e.id = 0 => /\ SentIn(g) = Up(SentIn(h))
                            /\ DOMAIN g \ SentIn(g) = Up(DOMAIN h \ SentIn(h)) \cup {1}
             /\ \A k \in SentIn(h) :
                   Cardinality(SentUpTo(g, k + 1)) = Cardinality(SentUpTo(h, k))
<1> DEFINE g == Prepended(h, e)
<1>1. /\ g \in Seq(Entries) /\ DOMAIN h = 1 .. Len(h) /\ Len(h) \in Nat
      /\ DOMAIN g = 1 .. Len(h) + 1 /\ g[1] = e /\ \A k \in 1 .. Len(h) : g[k + 1] = h[k]
  BY EntryInFront
<1> HIDE DEF g
<1>2. \A k \in 1 .. Len(h) + 1 : k = 1 \/ (k - 1 \in 1 .. Len(h) /\ k = (k - 1) + 1)
  BY <1>1
<1>3. \A k \in 1 .. Len(h) : k + 1 \in 1 .. Len(h) + 1 /\ k + 1 # 1
  BY <1>1
<1>4. 1 \in 1 .. Len(h) + 1
  BY <1>1
<1>5. SentIn(h) \in SUBSET (1 .. Len(h))
  BY <1>1 DEF SentIn
<1>6. \A k \in 1 .. Len(h) : k + 1 \in SentIn(g) <=> k \in SentIn(h)
  BY <1>1, <1>3 DEF SentIn
<1>7. 1 \in SentIn(g) <=> e.id > 0
  BY <1>1, <1>4 DEF SentIn
<1>8. ASSUME NEW S, S \subseteq 1 .. Len(h), NEW T, T \subseteq 1 .. Len(h) + 1,
             \A k \in 1 .. Len(h) : k + 1 \in T <=> k \in S
      PROVE  T \ {1} = Up(S)
  <2>1. ASSUME NEW k \in T, k # 1 PROVE k \in Up(S)
    <3>1. k - 1 \in 1 .. Len(h) /\ k = (k - 1) + 1
      BY <1>2, <1>8, <2>1
    <3>2. k - 1 \in S
      BY <1>8, <2>1, <3>1
    <3> QED BY <3>1, <3>2 DEF Up
  <2>2. ASSUME NEW k \in S PROVE k + 1 \in T /\ k + 1 # 1
    BY <1>3, <1>8
  <2> QED BY <2>1, <2>2 DEF Up
<1>9. SentIn(g) \ {1} = Up(SentIn(h))
  <2>1. SentIn(g) \subseteq 1 .. Len(h) + 1 /\ SentIn(h) \subseteq 1 .. Len(h)
    BY <1>1 DEF SentIn
  <2> QED BY <1>6, <1>8, <2>1
<1>10. (DOMAIN g \ SentIn(g)) \ {1} = Up(DOMAIN h \ SentIn(h))
  <2> DEFINE S == DOMAIN h \ SentIn(h)
             T == DOMAIN g \ SentIn(g)
  <2>1. T \subseteq 1 .. Len(h) + 1 /\ S \subseteq 1 .. Len(h)
    BY <1>1
  <2>2. \A k \in 1 .. Len(h) : k + 1 \in T <=> k \in S
    BY <1>1, <1>3, <1>6
  <2> HIDE DEF S, T
  <2>3. T \ {1} = Up(S)
    BY <1>8, <2>1, <2>2
  <2> QED BY <2>3 DEF S, T
<1>11. ASSUME NEW k \in SentIn(h)
       PROVE  Cardinality(SentUpTo(g, k + 1)) = Cardinality(SentUpTo(h, k))
  <2>1. /\ SentUpTo(h, k) \in SUBSET (1 .. Len(h)) /\ k \in Nat /\ k >= 1
        /\ SentUpTo(g, k + 1) \in SUBSET (1 .. Len(h) + 1)
    BY <1>1, <1>5 DEF SentUpTo, SentIn
  <2>2. \A j \in 1 .. Len(h) : j + 1 \in SentUpTo(g, k + 1) <=> j \in SentUpTo(h, k)
    <3>1. \A j \in 1 .. Len(h) : j + 1 >= k + 1 <=> j >= k
      BY <2>1
    <3> QED BY <1>6, <3>1 DEF SentUpTo
  <2>3. 1 \notin SentUpTo(g, k + 1)
    BY <2>1 DEF SentUpTo
  <2>4. SentUpTo(g, k + 1) \ {1} = Up(SentUpTo(h, k))
    BY <1>8, <2>1, <2>2
  <2>5. SentUpTo(g, k + 1) = Up(SentUpTo(h, k))
    BY <2>3, <2>4
  <2> QED BY <1>1, <2>1, <2>5, MovedUp
<1>12. 1 \in DOMAIN g /\ (e.id = 0 => ~ (e.id > 0))
  BY <1>1, <1>4
<1> QED BY <1>7, <1>9, <1>10, <1>11, <1>12 DEF g

\* A message is sent: packet_transmit.
LEMMA LogOfSent ==
  ASSUME NEW h \in Seq(Entries), NEW w \in Seq(Nat), NEW m, NEW n, NEW f,
         IsLog(h, w, m, n, f), NEW id \in Nat, id > 0,
         [conn |-> m[id].to, id |-> id] \in Entries
  PROVE  IsLog(Prepended(h, [conn |-> m[id].to, id |-> id]), Append(w, id), m, n, f)
<1> DEFINE e == [conn |-> m[id].to, id |-> id]
           g == Prepended(h, e)
           v == Append(w, id)
<1>0. e \in Entries /\ e.id = id
  OBVIOUS
<1> HIDE DEF e
<1>1. /\ DOMAIN h = 1 .. Len(h) /\ Len(h) \in Nat /\ g[1] = e
      /\ DOMAIN g = 1 .. Len(h) + 1 /\ \A k \in 1 .. Len(h) : g[k + 1] = h[k]
  BY <1>0, EntryInFront
<1>2. /\ SentIn(g) = Up(SentIn(h)) \cup {1} /\ DOMAIN g \ SentIn(g) = Up(DOMAIN h \ SentIn(h))
      /\ \A k \in SentIn(h) : Cardinality(SentUpTo(g, k + 1)) = Cardinality(SentUpTo(h, k))
  BY <1>0, PlacesMove
<1>3. /\ Len(w) \in Nat /\ Len(v) = Len(w) + 1 /\ v[Len(w) + 1] = id
      /\ \A k \in 1 .. Len(w) : v[k] = w[k]
  BY AppendProperties, LenProperties
<1> HIDE DEF g, v
<1>4. SentIn(h) \in SUBSET (1 .. Len(h)) /\ DOMAIN h \ SentIn(h) \in SUBSET (1 .. Len(h))
  BY <1>1 DEF SentIn
<1>5. Cardinality(SentIn(g)) = Len(v)
  <2>1. /\ IsFiniteSet(Up(SentIn(h))) /\ 1 \notin Up(SentIn(h))
        /\ Cardinality(Up(SentIn(h))) = Cardinality(SentIn(h))
    BY <1>1, <1>4, MovedUp
  <2>2. Cardinality(SentIn(g)) = Cardinality(SentIn(h)) + 1
    BY <1>2, <2>1, FS_AddElement
  <2> QED BY <1>3, <2>2 DEF IsLog
<1>6. ASSUME NEW k \in SentIn(g)
      PROVE  LET a == v[Cardinality(SentUpTo(g, k))]
             IN  g[k] = [conn |-> m[a].to, id |-> a]
  <2>1. CASE k = 1
    <3>1. \A j \in SentIn(g) : j >= 1
      BY <1>1 DEF SentIn
    <3>2. SentUpTo(g, k) = SentIn(g)
      BY <2>1, <3>1 DEF SentUpTo
    <3>3. v[Cardinality(SentUpTo(g, k))] = id
      BY <1>3, <1>5, <3>2
    <3> QED BY <1>1, <2>1, <3>3 DEF e
  <2>2. CASE k # 1
    <3>1. PICK j \in SentIn(h) : k = j + 1
      BY <1>2, <2>2 DEF Up
    <3>2. g[k] = h[j]
      BY <1>1, <1>4, <3>1
    <3>3. Cardinality(SentUpTo(g, k)) = Cardinality(SentUpTo(h, j))
      BY <1>2, <3>1
    <3>4. Cardinality(SentUpTo(h, j)) \in 1 .. Len(w)
      BY PlaceInLog DEF IsLog
    <3>5. v[Cardinality(SentUpTo(g, k))] = w[Cardinality(SentUpTo(h, j))]
      BY <1>3, <3>3, <3>4
    <3>6. h[j] = [conn |-> m[w[Cardinality(SentUpTo(h, j))]].to,
                  id   |-> w[Cardinality(SentUpTo(h, j))]]
      BY DEF IsLog
    <3> QED BY <3>2, <3>5, <3>6
  <2> QED BY <2>1, <2>2
<1>7. Cardinality(DOMAIN g \ SentIn(g)) = n
  BY <1>1, <1>2, <1>4, MovedUp DEF IsLog
<1>8. \A k \in DOMAIN g \ SentIn(g) : g[k].conn = f
  BY <1>1, <1>2 DEF IsLog, Up
<1> QED BY <1>5, <1>6, <1>7, <1>8 DEF IsLog, e, g, v

\* A packet is read: packet_receive.
LEMMA LogOfReceived ==
  ASSUME NEW h \in Seq(Entries), NEW w \in Seq(Nat), NEW m, NEW n, NEW f \in Conns,
         IsLog(h, w, m, n, f)
  PROVE  IsLog(Prepended(h, [conn |-> f, id |-> 0]), w, m, n + 1, f)
<1> DEFINE e == [conn |-> f, id |-> 0]
           g == Prepended(h, e)
<1>0. e \in Entries /\ e.id = 0 /\ e.conn = f
  BY DEF Entries
<1> HIDE DEF e
<1>1. /\ DOMAIN h = 1 .. Len(h) /\ Len(h) \in Nat /\ g[1] = e
      /\ DOMAIN g = 1 .. Len(h) + 1 /\ \A k \in 1 .. Len(h) : g[k + 1] = h[k]
  BY <1>0, EntryInFront
<1>2. /\ SentIn(g) = Up(SentIn(h)) /\ DOMAIN g \ SentIn(g) = Up(DOMAIN h \ SentIn(h)) \cup {1}
      /\ \A k \in SentIn(h) : Cardinality(SentUpTo(g, k + 1)) = Cardinality(SentUpTo(h, k))
  BY <1>0, PlacesMove
<1> HIDE DEF g
<1>3. SentIn(h) \in SUBSET (1 .. Len(h)) /\ DOMAIN h \ SentIn(h) \in SUBSET (1 .. Len(h))
  BY <1>1 DEF SentIn
<1>4. Cardinality(SentIn(g)) = Len(w)
  BY <1>1, <1>2, <1>3, MovedUp DEF IsLog
<1>5. ASSUME NEW k \in SentIn(g)
      PROVE  LET a == w[Cardinality(SentUpTo(g, k))]
             IN  g[k] = [conn |-> m[a].to, id |-> a]
  <2>1. PICK j \in SentIn(h) : k = j + 1
    BY <1>2 DEF Up
  <2>2. g[k] = h[j]
    BY <1>1, <1>3, <2>1
  <2>3. Cardinality(SentUpTo(g, k)) = Cardinality(SentUpTo(h, j))
    BY <1>2, <2>1
  <2> QED BY <2>2, <2>3 DEF IsLog
<1>6. Cardinality(DOMAIN g \ SentIn(g)) = n + 1
  <2>1. /\ IsFiniteSet(Up(DOMAIN h \ SentIn(h))) /\ 1 \notin Up(DOMAIN h \ SentIn(h))
        /\ Cardinality(Up(DOMAIN h \ SentIn(h))) = n
    BY <1>1, <1>3, MovedUp DEF IsLog
  <2> QED BY <1>2, <2>1, FS_AddElement
<1>7. \A k \in DOMAIN g \ SentIn(g) : g[k].conn = f
  BY <1>0, <1>1, <1>2 DEF IsLog, Up
<1> QED BY <1>4, <1>5, <1>6, <1>7 DEF IsLog, e, g

\* history_print leaves the history as it is.
LEMMA PrintedHistory ==
  ASSUME NEW r \in ClientType
  PROVE  history_print(r).history = r.history /\ history_print(r).socket = r.socket
BY DEF ClientType, history_print

\* The packets read from connection c.
ReadFrom(c) == conn[c].sent - conn[c].inbox

\* The history of client d is the log of its connection.
Logged(d) ==
    IsLog(client[d].history, wire[file[client[d].socket]], made,
          ReadFrom(file[client[d].socket]), file[client[d].socket])

\* Nothing was read from a connection that is not made yet.
FreshRead == \A c \in Conns : Unmade(conn[c]) => ReadFrom(c) = 0

LogInv == (\A d \in ClientSet : Logged(d)) /\ FreshRead

\* A client of the next state has its history and connection, or is new.
Remembered(d) ==
    \/ /\ d \in ClientSet /\ client'[d].history = client[d].history
       /\ file'[client'[d].socket] = file[client[d].socket]
    \/ client'[d].history = <<>> /\ Unmade(conn[file'[client'[d].socket]])

\* What a new client takes is its own.
LEMMA AddRemembered ==
  ASSUME IInv, NEW c \in Conns, Unmade(conn[c]), FreeFds # {}, AddClient(c)
  PROVE  \A d \in ClientSet' : Remembered(d)
<1>1. /\ client \in [Cells -> ClientType] /\ client_list \in Seq(Cells)
      /\ ClientSet \subseteq Cells /\ file \in [Fds -> Conns \cup {NoConn}]
      /\ \A d \in ClientSet : client[d].socket \in Fds /\ file[client[d].socket] \in Conns
  BY Listed DEF IInv, TypeOK, SocketOf
<1>2. NewFd \in Fds /\ file[NewFd] = NoConn /\ DefaultName[NewFd] \in Names
  BY NewFdFree, EventLoopAssumption DEF FreeFds
<1>3. PICK cell \in Cells \ ClientSet :
          LET cl   == [client EXCEPT ![cell] = [FreedClient EXCEPT
                         !.socket = NewFd, !.username = DefaultName[NewFd]]]
              list == Append(client_list, cell)
              who  == FirstNamed(list, cl, DefaultName[NewFd])
          IN  /\ client_list' = list
              /\ file' = [file EXCEPT ![NewFd] = c]
              /\ client' = cl \/ client' = [cl EXCEPT ![who] = history_print(cl[who])]
  BY DEF AddClient
<1> DEFINE new  == [FreedClient EXCEPT !.socket = NewFd, !.username = DefaultName[NewFd]]
           cl   == [client EXCEPT ![cell] = new]
           list == Append(client_list, cell)
           who  == FirstNamed(list, cl, DefaultName[NewFd])
<1>4. new \in ClientType /\ new.socket = NewFd /\ new.history = <<>>
  BY <1>2, FreedClientType DEF ClientType, FreedClient
<1> HIDE DEF new
<1>5. cl \in [Cells -> ClientType] /\ \A d \in Cells : cl[d] = IF d = cell THEN new ELSE client[d]
  BY <1>1, <1>3, <1>4
<1>6. client' = cl \/ client' = [cl EXCEPT ![who] = history_print(cl[who])]
  BY <1>3 DEF new
<1> HIDE DEF cl, who
<1>7. \A d \in Cells : client'[d].socket = cl[d].socket /\ client'[d].history = cl[d].history
  <2>1. \A d \in Cells : /\ history_print(cl[d]).socket = cl[d].socket
                         /\ history_print(cl[d]).history = cl[d].history
    BY <1>5, PrintedHistory
  <2> QED BY <1>5, <1>6, <2>1
<1>8. ClientSet' = ClientSet \cup {cell}
  BY <1>1, <1>3, ToSetAppend DEF ClientSet
<1>9. ASSUME NEW d \in ClientSet PROVE Remembered(d)
  <2>1. d # cell /\ d \in Cells /\ client'[d].socket = client[d].socket
        /\ client'[d].history = client[d].history
    BY <1>1, <1>3, <1>5, <1>7
  <2>2. client[d].socket # NewFd
    BY <1>1, <1>2, EventLoopAssumption
  <2> QED BY <1>1, <1>3, <2>1, <2>2 DEF Remembered
<1>10. Remembered(cell)
  <2>1. client'[cell].socket = NewFd /\ client'[cell].history = <<>>
    BY <1>3, <1>4, <1>5, <1>7
  <2> QED BY <1>1, <1>2, <1>3, <2>1 DEF Remembered
<1> QED BY <1>8, <1>9, <1>10

\* The clients that stay when one leaves are as they were.
LEMMA LeaveRemembered ==
  ASSUME IInv, NEW k \in ClientSlots, client_disconnect(k)
  PROVE  \A d \in ClientSet' : Remembered(d)
<1> DEFINE f == pfds[k].fd
           p == Position(f)
           c == ClientOf(f)
<1>1. /\ client_list' = RemoveAt(client_list, p)
      /\ client' = [client EXCEPT ![c] = FreedClient]
      /\ file' = [file EXCEPT ![f] = NoConn]
  BY DEF client_disconnect
<1>2. /\ client \in [Cells -> ClientType] /\ client_list \in Seq(Cells)
      /\ ClientSet \subseteq Cells /\ c = client_list[p] /\ p \in 1 .. Len(client_list)
      /\ c \in ClientSet /\ client[c].socket = f /\ file[f] \in Conns
      /\ file \in [Fds -> Conns \cup {NoConn}]
      /\ \A d \in ClientSet : client[d].socket \in Fds
  BY Listed, SlotListed DEF IInv, TypeOK, ClientOf, SocketOf
<1>3. \A d \in ClientSet : d # c => client[d].socket # f
  BY <1>2, Listed DEF SocketOf
<1> HIDE DEF f, p, c
<1>4. ClientSet' = ClientSet \ {c}
  <2>1. \A j, l \in 1 .. Len(client_list) : client_list[j] = client_list[l] => j = l
    BY Listed
  <2> QED BY <1>1, <1>2, <2>1, ToSetRemoveAt DEF ClientSet
<1>5. ASSUME NEW d \in ClientSet, d # c PROVE Remembered(d)
  BY <1>1, <1>2, <1>3, <1>5 DEF Remembered
<1> QED BY <1>4, <1>5

\* history_insert puts the entry in front of the history of its client.
LEMMA InsertHistory ==
  ASSUME IInv, NEW c \in ClientSet, NEW e \in Entries, history_insert(c, e)
  PROVE  /\ client'[c].history = Prepended(client[c].history, e)
         /\ \A d \in Cells : d # c => client'[d].history = client[d].history
<1>1. c \in Cells /\ client \in [Cells -> ClientType]
  BY Listed DEF IInv, TypeOK
<1> DEFINE r == [client[c] EXCEPT !.history = Prepended(@, e)]
           p == history_print(r)
           u == [r EXCEPT !.unread_msg = 1]
<1>2. r \in ClientType /\ r.history = Prepended(client[c].history, e)
  <2>1. client[c] \in ClientType
    BY <1>1
  <2>2. Prepended(client[c].history, e) \in Seq(Entries)
    BY <2>1, NewHead DEF ClientType, Prepended
  <2> QED BY <2>1, <2>2 DEF ClientType
<1>3. client' = [client EXCEPT ![c] = p] \/ client' = [client EXCEPT ![c] = u]
  BY DEF history_insert
<1> HIDE DEF r
<1>4. p.history = r.history /\ u.history = r.history
  BY <1>2, PrintedHistory DEF ClientType
<1> HIDE DEF p, u
<1> QED BY <1>1, <1>2, <1>3, <1>4

\* Only packet_receive and packet_transmit touch a history.
LEMMA HistoriesKept ==
  ASSUME IInv, [Next]_vars, ~ packet_receive, ~ packet_transmit
  PROVE  \A d \in ClientSet' : Remembered(d)
<1> DEFINE Goal == \A d \in ClientSet' : Remembered(d)
<1>1. /\ client \in [Cells -> ClientType] /\ client_list \in Seq(Cells)
      /\ ClientSet \subseteq Cells
  BY Listed DEF IInv, TypeOK
<1>2. ASSUME UNCHANGED <<client_list, file>>,
             \A e \in Cells : /\ client'[e].socket = client[e].socket
                              /\ client'[e].history = client[e].history
      PROVE  Goal
  BY <1>1, <1>2 DEF Remembered, ClientSet
<1>3. CASE UNCHANGED <<client_list, client, file>>
  BY <1>2, <1>3
<1>4. ASSUME NEW n \in Names, TypeSelect(n) PROVE Goal
  <2> DEFINE who == FirstNamed(client_list, client, n)
  <2>1. /\ UNCHANGED <<client_list, file>>
        /\ client' = client \/ client' = [client EXCEPT ![who] = history_print(client[who])]
    BY <1>4 DEF TypeSelect, clientVars, netVars
  <2> HIDE DEF who
  <2>2. \A e \in Cells : /\ history_print(client[e]).socket = client[e].socket
                         /\ history_print(client[e]).history = client[e].history
    BY <1>1, PrintedHistory
  <2>3. \A e \in Cells : /\ client'[e].socket = client[e].socket
                         /\ client'[e].history = client[e].history
    BY <1>1, <2>1, <2>2
  <2> QED BY <1>2, <2>1, <2>3
<1>5. ASSUME NEW n \in Names, TypeRename(n) PROVE Goal
  <2>1. /\ UNCHANGED <<client_list, file>>
        /\ client' = client \/ client' = [client EXCEPT ![active_client].username = n]
    BY <1>5 DEF TypeRename, netVars
  <2>2. PICK r : r = [client[active_client] EXCEPT !.username = n]
    OBVIOUS
  <2>3. client' = client \/ client' = [client EXCEPT ![active_client] = r]
    BY <2>1, <2>2
  <2>4. active_client \in Cells => /\ r.socket = client[active_client].socket
                                  /\ r.history = client[active_client].history
    BY <1>1, <2>2 DEF ClientType
  <2>5. \A e \in Cells : /\ client'[e].socket = client[e].socket
                         /\ client'[e].history = client[e].history
    BY <1>1, <2>3, <2>4
  <2> QED BY <1>2, <2>1, <2>5
<1>6. ASSUME NEW c \in Conns, TypeConnect(c) \/ accept_connection(c) PROVE Goal
  BY <1>6, AddRemembered DEF TypeConnect, accept_connection, Backlog, Unmade
<1>7. CASE SlotHangup \/ SlotEof
  BY <1>7, AtClient, LeaveRemembered DEF SlotHangup, SlotEof, AtInput
<1>8. \/ UNCHANGED <<client_list, client, file>>
      \/ \E n \in Names : TypeSelect(n) \/ TypeRename(n)
      \/ \E c \in Conns : TypeConnect(c) \/ accept_connection(c)
      \/ SlotHangup \/ SlotEof
  BY DEF Next, Pass, HandleInput, Peers, Terminated, Poll, Exit, NoInput, TypeQuit, TypeOther,
         TypeOverrun, TransmitKills,
         TypeText, ConnectFails, NoPeer, AcceptFails, EndPass, SlotError, SlotIdle, ReceiveFails,
         TransmitFails, EndOutput, OnlyControl, handle_error, Peer, netVars,
         PeerConnects, PeerGivesUp, PeerSends, PeerReads, PeerCloses, PeerHangsUp, PeerResets,
         vars, clientVars
<1> QED BY <1>3, <1>4, <1>5, <1>6, <1>7, <1>8

\* Only packet_receive reads from a connection that is not given up.
LEMMA ReadKept ==
  ASSUME IInv, [Next]_vars, NEW c \in Conns, conn'[c].peer # "gone"
  PROVE  \/ ReadFrom(c)' = ReadFrom(c)
         \/ packet_receive /\ c = file[pfds[i].fd]
<1>1. conn \in [Conns -> ConnType]
  BY DEF IInv, TypeOK
<1>2. CASE UNCHANGED conn
  BY <1>2 DEF ReadFrom
<1>3. CASE Peers
  <2>1. PICK d \in Conns :
           \/ PeerConnects(d) \/ PeerGivesUp(d) \/ PeerSends(d) \/ PeerReads(d)
           \/ PeerCloses(d) \/ PeerHangsUp(d) \/ PeerResets(d)
    BY <1>3 DEF Peers
  <2>2. ASSUME NEW to, conn' = [conn EXCEPT ![d].peer = to]
        PROVE  ReadFrom(c)' = ReadFrom(c)
    BY <1>1, <2>2 DEF ReadFrom, ConnType
  <2>3. CASE PeerSends(d)
    <3>1. conn' = [conn EXCEPT ![d].inbox = @ + 1, ![d].sent = @ + 1]
      BY <2>3 DEF PeerSends
    <3>2. c = d => conn'[c].sent = conn[c].sent + 1 /\ conn'[c].inbox = conn[c].inbox + 1
      BY <1>1, <3>1 DEF ConnType
    <3>3. c # d => conn'[c] = conn[c]
      BY <1>1, <3>1
    <3>4. conn[c].sent \in Nat /\ conn[c].inbox \in Nat
      BY <1>1 DEF ConnType
    <3> QED BY <3>2, <3>3, <3>4 DEF ReadFrom
  <2>4. CASE PeerReads(d)
    BY <1>1, <2>4 DEF PeerReads, ReadFrom, ConnType
  <2> QED BY <2>1, <2>2, <2>3, <2>4
        DEF Peer, PeerConnects, PeerGivesUp, PeerCloses, PeerHangsUp, PeerResets
<1>4. CASE \E d \in Conns : TypeConnect(d) \/ accept_connection(d)
  <2>1. PICK d \in Conns : conn' = [conn EXCEPT ![d].peer = "up"]
    BY <1>4 DEF TypeConnect, accept_connection
  <2> QED BY <1>1, <2>1 DEF ReadFrom, ConnType
<1>5. CASE SlotHangup \/ SlotEof
  <2>1. conn' = [conn EXCEPT ![file[pfds[i].fd]] = Gone]
    BY <1>5 DEF SlotHangup, SlotEof, client_disconnect
  <2> QED BY <1>1, <2>1 DEF Gone, ReadFrom
<1>6. CASE packet_receive
  <2>1. conn' = [conn EXCEPT ![file[pfds[i].fd]].inbox = @ - 1]
    BY <1>6 DEF packet_receive
  <2> QED BY <1>1, <1>6, <2>1 DEF ReadFrom
<1>7. CASE packet_transmit
  <2>1. conn' = [conn EXCEPT ![file[pfds[i].fd]].room = @ - 1]
    BY <1>7 DEF packet_transmit
  <2> QED BY <1>1, <2>1 DEF ReadFrom, ConnType
<1>8. \/ UNCHANGED conn \/ Peers
      \/ \E d \in Conns : TypeConnect(d) \/ accept_connection(d)
      \/ SlotHangup \/ SlotEof \/ packet_receive \/ packet_transmit
  BY DEF Next, Pass, HandleInput, Terminated, Poll, Exit, NoInput, TypeQuit, TypeOther,
         TypeOverrun, TransmitKills,
         TypeSelect, TypeRename, TypeText, ConnectFails, NoPeer, AcceptFails, EndPass, SlotError,
         SlotIdle, ReceiveFails, TransmitFails, EndOutput, OnlyControl, handle_error, vars, netVars
<1> QED BY <1>2, <1>3, <1>4, <1>5, <1>6, <1>7, <1>8

\* Nothing sent and nothing read is an empty history.
LEMMA EmptyLog ==
  ASSUME NEW m, NEW f PROVE IsLog(<<>>, <<>>, m, 0, f)
<1>1. DOMAIN <<>> = {} /\ SentIn(<<>>) = {} /\ Len(<<>>) = 0
  BY DEF SentIn
<1> QED BY <1>1, FS_EmptySet DEF IsLog

\* The connection of a client is open in the next state, too.
LEMMA StaysOpen ==
  ASSUME IInv', NEW d \in ClientSet'
  PROVE  /\ file'[client'[d].socket] \in Conns
         /\ conn'[file'[client'[d].socket]].peer \in {"up", "shut"} \cup Down
<1> DEFINE f == client'[d].socket
<1>1. f \in Fds \ FreeFds'
  BY DEF IInv, SocketsMatch, SocketOf
<1>2. file'[f] # NoConn /\ file' \in [Fds -> Conns \cup {NoConn}]
  BY <1>1 DEF FreeFds, IInv, TypeOK
<1> QED BY <1>1, <1>2 DEF IInv, OpenIsLive, Down

-----------------------------------------------------------------------------
(* The history of a client is the log of its connection.                   *)

\* Steps that neither send nor receive.
LEMMA LogQuiet ==
  ASSUME IInv, IInv', CourierInv, LogInv, [Next]_vars, ~ packet_receive, ~ packet_transmit,
         NEW d \in ClientSet'
  PROVE  Logged(d)'
<1>g. PICK g : g = file'[client'[d].socket]
  OBVIOUS
<1>h. PICK h : h = client'[d].history
  OBVIOUS
<1>1. g \in Conns /\ ReadFrom(g)' = ReadFrom(g)
  <2>1. g \in Conns /\ conn'[g].peer # "gone"
    BY <1>g, StaysOpen DEF Down
  <2> QED BY <2>1, ReadKept
<1>2. wire' = wire /\ wire[g] \in Seq(Nat) /\ \A k \in DOMAIN wire[g] : made'[wire[g][k]] = made[wire[g][k]]
  <2>1. wire \in [Conns -> Seq(Nat)] /\ \A k \in DOMAIN wire[g] : wire[g][k] \in Ids
    BY <1>1 DEF IInv, TypeOK, CourierInv, SentMade, Ids
  <2>2. CASE UNCHANGED queueVars
    BY <1>1, <2>1, <2>2 DEF queueVars
  <2>3. ASSUME NEW b \in Bodies, TypeText(b), active_client # NoClient
        PROVE  wire' = wire /\ \A id \in Ids : made'[id] = made[id]
    BY <2>3, Typed
  <2> QED BY <1>1, <2>1, <2>2, <2>3, QueueSteps
<1>3. IsLog(h, wire[g], made, ReadFrom(g), g) /\ h \in Seq(Entries)
  <2>1. Remembered(d)
    BY HistoriesKept
  <2>2. CASE /\ d \in ClientSet /\ h = client[d].history
             /\ g = file[client[d].socket]
    <3>1. Logged(d)
      BY <2>2 DEF LogInv
    <3>2. client[d] \in ClientType
      BY <2>2, Listed DEF IInv, TypeOK
    <3> QED BY <2>2, <3>1, <3>2 DEF Logged, ClientType
  <2>3. CASE h = <<>> /\ Unmade(conn[g])
    <3>1. wire[g] = <<>> /\ ReadFrom(g) = 0
      BY <1>1, <2>3 DEF CourierInv, FreshWire, LogInv, FreshRead
    <3>2. <<>> \in Seq(Entries)
      BY EmptySeq
    <3> QED BY <2>3, <3>1, <3>2, EmptyLog
  <2> QED BY <1>g, <1>h, <2>1, <2>2, <2>3 DEF Remembered
<1>4. IsLog(h, wire[g], made', ReadFrom(g), g)
  <2>1. \A k \in 1 .. Len(wire[g]) : made'[wire[g][k]] = made[wire[g][k]]
    BY <1>2, LenProperties
  <2> QED BY <1>2, <1>3, <2>1, LogOfMore
<1>5. Logged(d)' <=> IsLog(h, wire'[g], made', ReadFrom(g)', g)
  BY <1>g, <1>h DEF Logged
<1> QED BY <1>1, <1>2, <1>4, <1>5

\* The step of packet_receive or packet_transmit for a client that it is not about.
LEMMA LogOther ==
  ASSUME IInv, IInv', LogInv, [Next]_vars, NEW d \in ClientSet, NEW c,
         made' = made, file' = file, client'[d].socket = client[d].socket,
         client'[d].history = client[d].history,
         c = file[pfds[i].fd], file[client[d].socket] # c,
         \A g \in Conns : g # c => wire'[g] = wire[g],
         d \in ClientSet'
  PROVE  Logged(d)'
<1> DEFINE g == file[client[d].socket]
<1>1. g \in Conns /\ ReadFrom(g)' = ReadFrom(g)
  BY StaysOpen, ReadKept DEF Down
<1>2. wire'[g] = wire[g]
  BY <1>1
<1>3. IsLog(client[d].history, wire[g], made, ReadFrom(g), g)
  BY DEF LogInv, Logged
<1> HIDE DEF g
<1>4. Logged(d)' <=> IsLog(client'[d].history, wire'[g], made', ReadFrom(g)', g)
  BY DEF Logged, g, IsLog
<1> QED BY <1>1, <1>2, <1>3, <1>4

\* Two clients have two connections.
LEMMA OwnConnection ==
  ASSUME IInv, NEW c \in ClientSet, NEW d \in ClientSet, c # d
  PROVE  file[client[c].socket] # file[client[d].socket]
<1>1. /\ client[c].socket \in Fds /\ client[d].socket \in Fds
      /\ file[client[c].socket] \in Conns /\ client[c].socket # client[d].socket
  BY Listed DEF SocketOf
<1> QED BY <1>1, EventLoopAssumption DEF IInv, SocketsMatch

\* packet_receive adds what it read to the history of the client it read from.
LEMMA LogReceived ==
  ASSUME IInv, IInv', LogInv, [Next]_vars, packet_receive, NEW d \in ClientSet'
  PROVE  Logged(d)'
<1>f. PICK f, c, g, e : /\ f = pfds[i].fd /\ c = ClientOf(f) /\ g = file[f]
                        /\ e = [conn |-> g, id |-> 0]
  OBVIOUS
<1>1. /\ AtSlot /\ conn[g].inbox > 0 /\ conn' = [conn EXCEPT ![g].inbox = @ - 1]
      /\ history_insert(c, e) /\ wire' = wire /\ made' = made /\ file' = file
  BY <1>f DEF packet_receive, AtInput, Here, queueVars
<1>2. c \in ClientSet /\ g \in Conns /\ client[c].socket = f
  BY <1>1, <1>f, AtClient, SlotListed DEF SocketOf
<1>3. e \in Entries
  BY <1>2, <1>f DEF Entries
<1>4. /\ client_list' = client_list /\ \A a \in Cells : client'[a].socket = client[a].socket
      /\ client'[c].history = Prepended(client[c].history, e)
      /\ \A a \in Cells : a # c => client'[a].history = client[a].history
  BY <1>1, <1>2, <1>3, InsertKeeps, InsertHistory DEF AtSlot
<1>5. ClientSet' = ClientSet /\ ClientSet \subseteq Cells
  BY <1>4, Listed DEF ClientSet
<1>6. CASE d # c
  BY <1>1, <1>2, <1>4, <1>5, <1>6, <1>f, LogOther, OwnConnection
<1>7. CASE d = c
  <2>1. ReadFrom(g)' = ReadFrom(g) + 1
    <3>1. conn[g] \in ConnType /\ conn \in [Conns -> ConnType]
      BY <1>2 DEF IInv, TypeOK
    <3>2. conn'[g].sent = conn[g].sent /\ conn'[g].inbox = conn[g].inbox - 1
      BY <1>1, <1>2, <3>1 DEF ConnType
    <3>3. conn[g].sent \in Nat /\ conn[g].inbox \in Nat
      BY <3>1 DEF ConnType
    <3> QED BY <3>2, <3>3 DEF ReadFrom
  <2>2. client[c].history \in Seq(Entries) /\ wire[g] \in Seq(Nat)
    <3>1. client[c] \in ClientType
      BY <1>2, <1>5 DEF IInv, TypeOK
    <3> QED BY <1>2, <3>1 DEF IInv, TypeOK, ClientType
  <2>3. IsLog(client[c].history, wire[g], made, ReadFrom(g), g)
    BY <1>2, <1>f DEF LogInv, Logged
  <2>4. IsLog(Prepended(client[c].history, e), wire[g], made, ReadFrom(g) + 1, g)
    <3>1. PICK h : h = client[c].history
      OBVIOUS
    <3>2. PICK n : n = ReadFrom(g)
      OBVIOUS
    <3>3. IsLog(Prepended(h, [conn |-> g, id |-> 0]), wire[g], made, n + 1, g)
      BY <1>2, <2>2, <2>3, <3>1, <3>2, LogOfReceived
    <3> QED BY <1>f, <3>1, <3>2, <3>3
  <2>5. file'[client'[d].socket] = g
    BY <1>1, <1>2, <1>4, <1>5, <1>7, <1>f
  <2>6. Logged(d)' <=> IsLog(client'[d].history, wire'[g], made', ReadFrom(g)', g)
    BY <2>5 DEF Logged
  <2> QED BY <1>1, <1>4, <1>7, <2>1, <2>4, <2>6
<1> QED BY <1>6, <1>7

\* packet_transmit adds what it sent to the history of the client it sent to.
LEMMA LogSent ==
  ASSUME IInv, IInv', LogInv, [Next]_vars, packet_transmit, NEW d \in ClientSet'
  PROVE  Logged(d)'
<1>f. PICK f, c, g, id, e : /\ f = pfds[i].fd /\ g = file[f]
                            /\ c = message_queue[NextDue].client
                            /\ id = message_queue[NextDue].id
                            /\ e = [conn |-> made[id].to, id |-> id]
  OBVIOUS
<1>1. /\ HasDue /\ wire' = [wire EXCEPT ![g] = Append(wire[g], id)]
      /\ history_insert(c, e) /\ made' = made /\ file' = file
  BY <1>f DEF packet_transmit
<1>2. /\ c \in ClientSet /\ g \in Conns /\ client[c].socket = f
      /\ id \in Nat /\ id > 0 /\ e \in Entries
  <2>1. c \in ClientSet /\ SocketOf(c) = f /\ g \in Conns /\ id \in Ids
    BY <1>f, Sent
  <2>2. e \in Entries
    BY <1>1, <1>f, DueEntry
  <2>3. Ids = 1 .. Len(made) /\ Len(made) \in Nat
    BY QueueTypes
  <2> QED BY <2>1, <2>2, <2>3 DEF SocketOf
<1>6. /\ client_list' = client_list /\ \A a \in Cells : client'[a].socket = client[a].socket
      /\ client'[c].history = Prepended(client[c].history, e)
      /\ \A a \in Cells : a # c => client'[a].history = client[a].history
  BY <1>1, <1>2, InsertKeeps, InsertHistory DEF packet_transmit, HasDue, AtOutput
<1>7. ClientSet' = ClientSet /\ ClientSet \subseteq Cells
  BY <1>6, Listed DEF ClientSet
<1>8. wire \in [Conns -> Seq(Nat)]
  BY DEF IInv, TypeOK
<1>9. CASE d # c
  <2>1. \A a \in Conns : a # g => wire'[a] = wire[a]
    BY <1>1, <1>8
  <2> QED BY <1>1, <1>2, <1>6, <1>7, <1>9, <1>f, <2>1, LogOther, OwnConnection
<1>10. CASE d = c
  <2>1. ReadFrom(g)' = ReadFrom(g)
    <3>1. file'[client'[d].socket] = g
      BY <1>1, <1>2, <1>6, <1>7, <1>10, <1>f
    <3>2. ~ packet_receive
      BY DEF packet_receive, AtInput, AtSlot, packet_transmit, HasDue, AtOutput
    <3> QED BY <3>1, <3>2, StaysOpen, ReadKept DEF Down
  <2>2. client[c].history \in Seq(Entries) /\ wire[g] \in Seq(Nat)
    <3>1. client[c] \in ClientType
      BY <1>2, <1>7 DEF IInv, TypeOK
    <3> QED BY <1>2, <1>8, <3>1 DEF ClientType
  <2>3. IsLog(client[c].history, wire[g], made, ReadFrom(g), g)
    BY <1>2, <1>f DEF LogInv, Logged
  <2>4. IsLog(Prepended(client[c].history, e), Append(wire[g], id), made, ReadFrom(g), g)
    <3>1. PICK h : h = client[c].history
      OBVIOUS
    <3>2. PICK n : n = ReadFrom(g)
      OBVIOUS
    <3>3. PICK w : w = wire[g]
      OBVIOUS
    <3>4. IsLog(Prepended(h, [conn |-> made[id].to, id |-> id]), Append(w, id), made, n, g)
      BY <1>2, <1>f, <2>2, <2>3, <3>1, <3>2, <3>3, LogOfSent
    <3> QED BY <1>f, <3>1, <3>2, <3>3, <3>4
  <2>5. file'[client'[d].socket] = g /\ wire'[g] = Append(wire[g], id)
    BY <1>1, <1>2, <1>6, <1>7, <1>8, <1>10, <1>f
  <2>6. Logged(d)' <=> IsLog(client'[d].history, wire'[g], made', ReadFrom(g)', g)
    BY <2>5 DEF Logged
  <2> QED BY <1>1, <1>6, <1>10, <2>1, <2>4, <2>5, <2>6
<1> QED BY <1>9, <1>10

\* Every step keeps the logs.
LEMMA LogStep == IInv /\ IInv' /\ CourierInv /\ LogInv /\ [Next]_vars => LogInv'
<1> SUFFICES ASSUME IInv, IInv', CourierInv, LogInv, [Next]_vars PROVE LogInv'
  OBVIOUS
<1>1. ASSUME NEW d \in ClientSet' PROVE Logged(d)'
  BY LogQuiet, LogReceived, LogSent
<1>2. ASSUME NEW c \in Conns, Unmade(conn'[c]) PROVE ReadFrom(c)' = 0
  <2>1. Unmade(conn[c])
    BY <1>2, PeerMoves DEF Unmade
  <2>2. ~ (packet_receive /\ c = file[pfds[i].fd])
    <3>1. packet_receive => pfds[i].fd \in Fds /\ file[pfds[i].fd] \in Conns
      BY AtClient, SlotListed DEF packet_receive, AtInput
    <3> QED BY <2>1, <3>1, EventLoopAssumption DEF Unmade, IInv, OpenIsLive, Down
  <2>3. ReadFrom(c)' = ReadFrom(c)
    BY <1>2, <2>2, ReadKept DEF Unmade
  <2> QED BY <2>1, <2>3 DEF LogInv, FreshRead
<1> QED BY <1>1, <1>2 DEF LogInv, FreshRead

\* What a client's history shows is what was sent on its connection, in that order,
\* and one entry for each packet read from it: whatever clients come, go and take
\* over cells and descriptors, no entry is lost, doubled or put under another client.
THEOREM LogCorrect == Spec => []HistoryIsLog
<1>1. Init => LogInv
  <2> SUFFICES ASSUME Init PROVE LogInv
    OBVIOUS
  <2>1. ClientSet = {}
    BY DEF Init, ClientSet, ToSet
  <2>2. \A c \in Conns : ReadFrom(c) = 0
    BY DEF Init, ReadFrom
  <2> QED BY <2>1, <2>2 DEF LogInv, FreshRead
<1>2. LogInv => HistoryIsLog
  BY DEF LogInv, Logged, ReadFrom, HistoryIsLog
<1> QED BY <1>1, <1>2, LogStep, AlwaysIInv, AlwaysCourierInv, PTL DEF Spec

=============================================================================
