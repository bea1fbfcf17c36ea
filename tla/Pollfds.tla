------------------------------- MODULE Pollfds -------------------------------
(***************************************************************************)
(* The array of watched descriptors of pfds.c, as operators on its three   *)
(* parts: the array itself (indexed from 0 as in C), its size nfds and the *)
(* number fd_count of slots in use.  The events field is left out: it is   *)
(* POLLIN|POLLOUT in every slot that is in use and never read.             *)
(***************************************************************************)
EXTENDS Integers

N_PFDS == 3             \* main.h: the array's size at start
FirstSlotOff == 3       \* mutant of MIN_CLIENT_SOCK: off by one
MIN_CLIENT_SOCK == 2    \* main.h: slots 0 and 1 are stdin and the server

Events == {"POLLIN", "POLLOUT", "POLLERR", "POLLHUP"}

Pfd == [fd : Int, revents : SUBSET Events]

NullPfd == [fd |-> -1, revents |-> {}]

pfd_create_array(nfds) == [j \in 0 .. nfds - 1 |-> NullPfd]

\* Mutant of Grown: the test for a full array comes one insertion late.
GrownLate(nfds, fd_count) == IF fd_count > nfds THEN 2 * nfds ELSE nfds

\* The array doubles when every slot is in use.
Grown(nfds, fd_count) == IF fd_count = nfds THEN 2 * nfds ELSE nfds

\* The new descriptor takes the first unused slot, with nothing reported yet.
pfd_insert(pfds, nfds, fd_count, new_fd) ==
    [j \in 0 .. Grown(nfds, fd_count) - 1 |->
        IF j = fd_count THEN [fd |-> new_fd, revents |-> {}]
        ELSE IF j \in 0 .. nfds - 1 THEN pfds[j] ELSE NullPfd]

\* Mutants of pfd_destroy: the last slot is not copied; its events are not
\* copied; it is not reset.
DestroyLast(pfds, fd_count, k) == [pfds EXCEPT ![fd_count - 1] = NullPfd]

MoveFdOnly(pfds, fd_count, k) ==
    [pfds EXCEPT ![k].fd = pfds[fd_count - 1].fd, ![fd_count - 1] = NullPfd]

KeepLast(pfds, fd_count, k) == [pfds EXCEPT ![k] = pfds[fd_count - 1]]

\* The last slot in use moves over slot k, with what poll reported for it.
pfd_destroy(pfds, fd_count, k) ==
    [pfds EXCEPT ![k] = pfds[fd_count - 1], ![fd_count - 1] = NullPfd]

\* The descriptors that poll watches.
Watched(pfds, fd_count) == {pfds[j].fd : j \in 0 .. fd_count - 1}

\* The events of descriptor f: those of its slot.
EventsOf(pfds, fd_count, f) ==
    UNION {pfds[j].revents : j \in {k \in 0 .. fd_count - 1 : pfds[k].fd = f}}

=============================================================================
