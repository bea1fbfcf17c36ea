--------------------------- MODULE PollSet_proofs ---------------------------
(***************************************************************************)
(* For every set of descriptors and every sequence of calls: the array of  *)
(* pfds.c keeps its shape, no descriptor is in two slots, and the array    *)
(* implements WatchSet.                                                    *)
(***************************************************************************)
EXTENDS PollSet, TLAPS

\* The array keeps its shape: pfd_insert doubles it in time, pfd_destroy
\* never leaves it.
THEOREM TypeCorrect == Spec => []TypeOK
<1>1. Init => TypeOK
  BY DEF Init, TypeOK, N_PFDS, pfd_create_array, NullPfd, Pfd, Events
<1>2. TypeOK /\ [Next]_vars => TypeOK'
  <2> SUFFICES ASSUME TypeOK, [Next]_vars PROVE TypeOK'
    OBVIOUS
  <2> USE PollSetAssumption DEF TypeOK, Pfd
  <2>1. ASSUME NEW f \in Fds, Insert(f) PROVE TypeOK'
    <3>1. nfds' \in Nat \ {0} /\ fd_count' \in 0 .. nfds'
      BY <2>1 DEF Insert, Grown
    <3>2. pfds' \in [0 .. nfds' - 1 -> Pfd]
      BY <2>1 DEF Insert, pfd_insert, NullPfd, Grown
    <3> QED BY <3>1, <3>2
  <2>2. ASSUME NEW k \in 0 .. fd_count - 1, Destroy(k) PROVE TypeOK'
    <3>1. NullPfd \in Pfd
      BY DEF NullPfd
    <3>2. pfds[fd_count - 1] \in Pfd
      OBVIOUS
    <3>3. pfds' \in [0 .. nfds - 1 -> Pfd]
      <4> HIDE DEF Pfd
      <4> QED BY <2>2, <3>1, <3>2 DEF Destroy, pfd_destroy
    <3> QED BY <2>2, <3>3 DEF Destroy
  <2>3. CASE Poll
    <3>1. pfds' \in [0 .. nfds - 1 -> Pfd]
      BY <2>3 DEF Poll
    <3> QED BY <2>3, <3>1 DEF Poll
  <2>4. CASE UNCHANGED vars
    BY <2>4 DEF vars
  <2> QED BY <2>1, <2>2, <2>3, <2>4 DEF Next
<1> QED BY <1>1, <1>2, PTL DEF Spec

\* No descriptor is in two slots and every slot not in use is reset, whatever
\* slots were removed before.
THEOREM SlotsCorrect == Spec => []SlotsInv
<1>1. Init => SlotsInv
  BY DEF Init, SlotsInv, N_PFDS, pfd_create_array
<1>2. TypeOK /\ SlotsInv /\ [Next]_vars => SlotsInv'
  <2> SUFFICES ASSUME TypeOK, SlotsInv, [Next]_vars PROVE SlotsInv'
    OBVIOUS
  <2> USE PollSetAssumption DEF TypeOK, SlotsInv
  <2>1. ASSUME NEW f \in Fds, Insert(f) PROVE SlotsInv'
    <3>1. \A j \in 0 .. fd_count - 1 : pfds'[j] = pfds[j] /\ pfds'[j].fd # f
      BY <2>1 DEF Insert, pfd_insert, Grown, Watched
    <3>2. pfds'[fd_count].fd = f
      BY <2>1 DEF Insert, pfd_insert, Grown
    <3>3. \A j \in fd_count + 1 .. nfds' - 1 : pfds'[j] = NullPfd
      BY <2>1 DEF Insert, pfd_insert, Grown
    <3>4. fd_count' = fd_count + 1
      BY <2>1 DEF Insert
    <3> QED BY <3>1, <3>2, <3>3, <3>4
  <2>2. ASSUME NEW k \in 0 .. fd_count - 1, Destroy(k) PROVE SlotsInv'
    <3>1. \A j \in 0 .. fd_count - 2 :
             pfds'[j] = IF j = k THEN pfds[fd_count - 1] ELSE pfds[j]
      BY <2>2 DEF Destroy, pfd_destroy
    <3>2. \A j \in fd_count - 1 .. nfds - 1 : pfds'[j] = NullPfd
      BY <2>2 DEF Destroy, pfd_destroy
    <3>3. fd_count' = fd_count - 1 /\ nfds' = nfds
      BY <2>2 DEF Destroy
    <3> QED BY <3>1, <3>2, <3>3
  <2>3. CASE Poll
    <3>1. \A j \in 0 .. nfds - 1 :
             /\ pfds'[j].fd = pfds[j].fd
             /\ j >= fd_count => pfds'[j] = pfds[j]
      BY <2>3 DEF Poll, Pfd
    <3> QED BY <2>3, <3>1 DEF Poll
  <2>4. CASE UNCHANGED vars
    BY <2>4 DEF vars
  <2> QED BY <2>1, <2>2, <2>3, <2>4 DEF Next
<1> QED BY <1>1, <1>2, TypeCorrect, PTL DEF Spec

-----------------------------------------------------------------------------
(* The refinement.                                                         *)

\* The events of a watched descriptor are those of its slot, the only one.
LEMMA EventsInSlot ==
  ASSUME NEW p, NEW n \in Nat,
         \A a, b \in 0 .. n - 1 : p[a].fd = p[b].fd => a = b
  PROVE  \A j \in 0 .. n - 1 : EventsOf(p, n, p[j].fd) = p[j].revents
<1> TAKE j \in 0 .. n - 1
<1>1. {k \in 0 .. n - 1 : p[k].fd = p[j].fd} = {j}
  OBVIOUS
<1> QED BY <1>1 DEF EventsOf

\* A descriptor that is in no slot has no events.
LEMMA EventsNowhere ==
  ASSUME NEW p, NEW n \in Nat, NEW f, f \notin Watched(p, n)
  PROVE  EventsOf(p, n, f) = {}
BY DEF EventsOf, Watched

\* Every insertion, swap-removal and poll of the array is an Add, Remove or
\* Report of the set: none is lost, doubled or left with another's events.
THEOREM Implements == Spec => ImplementsWatchSet
<1> DEFINE W == Watched(pfds, fd_count)
           E(f) == EventsOf(pfds, fd_count, f)
           R == [f \in Fds |-> E(f)]
<1>1. Init => Set!Init
  BY DEF Init, Set!Init, Watched, EventsOf
<1>2. TypeOK /\ SlotsInv /\ [Next]_vars /\ TypeOK' /\ SlotsInv' => [Set!Next]_(Set!vars)
  <2> SUFFICES ASSUME TypeOK, SlotsInv, [Next]_vars, TypeOK', SlotsInv'
               PROVE  [Set!Next]_(Set!vars)
    OBVIOUS
  <2> USE PollSetAssumption
  <2>a. \A j \in 0 .. fd_count - 1 : pfds[j].fd \in W /\ E(pfds[j].fd) = pfds[j].revents
    <3>1. fd_count \in Nat
      BY DEF TypeOK
    <3>2. \A j, k \in 0 .. fd_count - 1 : pfds[j].fd = pfds[k].fd => j = k
      BY DEF SlotsInv
    <3>3. \A j \in 0 .. fd_count - 1 : E(pfds[j].fd) = pfds[j].revents
      BY <3>1, <3>2, EventsInSlot
    <3> QED BY <3>3 DEF Watched
  <2>b. \A j \in 0 .. fd_count' - 1 : pfds'[j].fd \in W' /\ E(pfds[j].fd)' = pfds'[j].revents
    <3>1. fd_count' \in Nat
      BY DEF TypeOK
    <3>2. \A j, k \in 0 .. fd_count' - 1 : pfds'[j].fd = pfds'[k].fd => j = k
      BY DEF SlotsInv
    <3>3. \A j \in 0 .. fd_count' - 1 : E(pfds[j].fd)' = pfds'[j].revents
      BY <3>1, <3>2, EventsInSlot
    <3> QED BY <3>3 DEF Watched
  <2>c. \A f \in Fds \ W : E(f) = {}
    BY EventsNowhere DEF TypeOK
  <2>d. \A f \in Fds \ W' : E(f)' = {}
    BY EventsNowhere DEF TypeOK
  <2>e. /\ \A f \in W : \E j \in 0 .. fd_count - 1 : pfds[j].fd = f
        /\ \A f \in W' : \E j \in 0 .. fd_count' - 1 : pfds'[j].fd = f
    BY DEF Watched
  <2>1. ASSUME NEW f \in Fds, Insert(f) PROVE Set!Add(f)
    <3>1. \A j \in 0 .. fd_count - 1 : pfds'[j] = pfds[j] /\ j \in 0 .. fd_count' - 1
      BY <2>1 DEF Insert, pfd_insert, Grown, TypeOK
    <3>2. /\ pfds'[fd_count] = [fd |-> f, revents |-> {}]
          /\ fd_count' = fd_count + 1 /\ fd_count \in 0 .. fd_count' - 1
      BY <2>1 DEF Insert, pfd_insert, Grown, TypeOK
    <3>3. W' = W \cup {f}
      <4>1. W' \subseteq W \cup {f}
        <5>1. \A j \in 0 .. fd_count' - 1 : j \in 0 .. fd_count - 1 \/ j = fd_count
          BY <3>2 DEF TypeOK
        <5>2. pfds'[fd_count].fd = f
          BY <3>2
        <5>3. \A j \in 0 .. fd_count' - 1 : pfds'[j].fd \in W \cup {f}
          BY <5>1, <5>2, <2>a, <3>1
        <5> QED BY <5>3, <2>e
      <4>2. W \cup {f} \subseteq W'
        BY <2>e, <2>b, <3>1, <3>2
      <4> QED BY <4>1, <4>2
    <3>4. ASSUME NEW g \in Fds PROVE E(g)' = E(g)
      <4>1. CASE g \in W
        <5>1. PICK j \in 0 .. fd_count - 1 : pfds[j].fd = g
          BY <4>1, <2>e
        <5> QED BY <5>1, <3>1, <2>a, <2>b
      <4>2. CASE g = f
        BY <4>2, <2>1, <3>2, <2>b, <2>c DEF Insert
      <4>3. CASE g \notin W'
        BY <4>3, <3>3, <2>c, <2>d
      <4> QED BY <4>1, <4>2, <4>3, <3>3
    <3>5. R' = R
      BY <3>4
    <3> QED BY <2>1, <3>3, <3>5 DEF Insert, Set!Add
  <2>2. ASSUME NEW k \in 0 .. fd_count - 1, Destroy(k) PROVE Set!Remove(pfds[k].fd)
    <3> DEFINE f == pfds[k].fd
    <3>1. f \in W /\ f \in Fds
      BY <2>a DEF SlotsInv
    <3>2. \A j \in 0 .. fd_count - 2 :
             pfds'[j] = IF j = k THEN pfds[fd_count - 1] ELSE pfds[j]
      BY <2>2 DEF Destroy, pfd_destroy, TypeOK
    <3>3. fd_count' = fd_count - 1 /\ fd_count \in Nat
      BY <2>2 DEF Destroy, TypeOK
    <3>4. ASSUME NEW j \in 0 .. fd_count - 1, j # k
          PROVE  \E m \in 0 .. fd_count' - 1 : pfds'[m] = pfds[j]
      <4>1. CASE j = fd_count - 1
        BY <4>1, <3>2, <3>3, <3>4
      <4>2. CASE j # fd_count - 1
        BY <4>2, <3>2, <3>3, <3>4
      <4> QED BY <4>1, <4>2
    <3>5. ASSUME NEW m \in 0 .. fd_count' - 1
          PROVE  \E j \in 0 .. fd_count - 1 : j # k /\ pfds'[m] = pfds[j]
      <4>1. CASE m = k
        BY <4>1, <3>2, <3>3
      <4>2. CASE m # k
        BY <4>2, <3>2, <3>3
      <4> QED BY <4>1, <4>2
    <3>6. W' = W \ {f}
      <4>1. W' \subseteq W \ {f}
        BY <2>e, <2>a, <3>5 DEF SlotsInv
      <4>2. W \ {f} \subseteq W'
        BY <2>e, <2>b, <3>4
      <4> QED BY <4>1, <4>2
    <3>7. ASSUME NEW g \in Fds PROVE E(g)' = IF g = f THEN {} ELSE E(g)
      <4>1. CASE g \in W'
        <5>1. PICK m \in 0 .. fd_count' - 1 : pfds'[m].fd = g
          BY <4>1, <2>e
        <5>2. PICK j \in 0 .. fd_count - 1 : j # k /\ pfds'[m] = pfds[j]
          BY <3>5
        <5> QED BY <5>1, <5>2, <2>a, <2>b, <3>6, <4>1
      <4>2. CASE g \notin W'
        BY <4>2, <2>c, <2>d, <3>6
      <4> QED BY <4>1, <4>2
    <3>8. R' = [R EXCEPT ![f] = {}]
      BY <3>7, <3>1
    <3> QED BY <3>1, <3>6, <3>8 DEF Set!Remove
  <2>3. CASE Poll
    <3>1. PICK r \in [0 .. fd_count - 1 -> SUBSET Flags] :
             pfds' = [j \in DOMAIN pfds |->
                        IF j < fd_count THEN [pfds[j] EXCEPT !.revents = r[j]] ELSE pfds[j]]
      BY <2>3 DEF Poll
    <3>2. fd_count' = fd_count /\ fd_count \in Nat
      BY <2>3 DEF Poll, TypeOK
    <3>3. \A j \in 0 .. fd_count - 1 : pfds'[j].fd = pfds[j].fd /\ pfds'[j].revents = r[j]
      BY <3>1 DEF TypeOK, Pfd
    <3>4. W' = W
      BY <3>2, <3>3 DEF Watched
    <3>5. ASSUME NEW f \in Fds PROVE E(f)' \in SUBSET Flags
      <4>1. CASE f \in W'
        <5>1. PICK j \in 0 .. fd_count' - 1 : pfds'[j].fd = f
          BY <4>1, <2>e
        <5> QED BY <5>1, <3>2, <3>3, <2>b
      <4>2. CASE f \notin W'
        BY <4>2, <2>d
      <4> QED BY <4>1, <4>2
    <3>6. R' \in [Fds -> SUBSET Flags]
      BY <3>5
    <3>7. \A f \in Fds \ W : R'[f] = {}
      BY <3>4, <2>d
    <3> QED BY <3>4, <3>6, <3>7 DEF Set!Next, Set!Report
  <2>4. CASE UNCHANGED vars
    BY <2>4 DEF vars, Set!vars, Watched, EventsOf
  <2>5. ASSUME NEW k \in 0 .. fd_count - 1, Destroy(k) PROVE Set!Next
    <3>1. pfds[k].fd \in Fds
      BY DEF SlotsInv
    <3> QED BY <3>1, <2>2, <2>5 DEF Set!Next
  <2> QED BY <2>1, <2>5, <2>3, <2>4 DEF Next, Set!Next
<1> QED BY <1>1, <1>2, TypeCorrect, SlotsCorrect, PTL DEF Spec, ImplementsWatchSet, Set!Spec

=============================================================================
