------------------------------- MODULE PollSet -------------------------------
(***************************************************************************)
(* pfds.c driven on its own, as main.c, connect.c and client.c drive it:   *)
(* a caller inserts a descriptor that is not in the array, destroys a slot *)
(* that is in use, and polls the slots in use.  The array is shown to      *)
(* behave as the set of descriptors of WatchSet.                           *)
(***************************************************************************)
EXTENDS Pollfds

CONSTANTS Fds,   \* the descriptors the callers use
          Flags  \* the events that occur

ASSUME PollSetAssumption == Fds \subseteq Nat /\ Flags \subseteq Events

VARIABLES pfds,     \* the array
          nfds,     \* its size
          fd_count  \* how many of its slots are in use

vars == <<pfds, nfds, fd_count>>

Init ==
    /\ nfds = N_PFDS
    /\ fd_count = 0
    /\ pfds = pfd_create_array(N_PFDS)

Insert(f) ==
    /\ f \notin Watched(pfds, fd_count)
    /\ pfds' = pfd_insert(pfds, nfds, fd_count, f)
    /\ nfds' = Grown(nfds, fd_count)
    /\ fd_count' = fd_count + 1

Destroy(k) ==
    /\ pfds' = pfd_destroy(pfds, fd_count, k)
    /\ fd_count' = fd_count - 1
    /\ UNCHANGED nfds

\* poll(pfds, fd_count, 0) writes the revents of the slots in use.
Poll ==
    /\ \E r \in [0 .. fd_count - 1 -> SUBSET Flags] :
           pfds' = [j \in DOMAIN pfds |->
                       IF j < fd_count THEN [pfds[j] EXCEPT !.revents = r[j]] ELSE pfds[j]]
    /\ UNCHANGED <<nfds, fd_count>>

Next ==
    \/ \E f \in Fds : Insert(f)
    \/ \E k \in 0 .. fd_count - 1 : Destroy(k)
    \/ Poll

Spec == Init /\ [][Next]_vars

-------------------------------------------------------------------------------

\* The shape of the array: as many slots as nfds says, never more in use.
TypeOK ==
    /\ nfds \in Nat \ {0}
    /\ fd_count \in 0 .. nfds
    /\ pfds \in [0 .. nfds - 1 -> Pfd]

\* Slots in use hold descriptors of the callers, one slot each; every other
\* slot is reset, so that neither poll nor the client loop can take it for one.
SlotsInv ==
    /\ \A j \in 0 .. fd_count - 1 : pfds[j].fd \in Fds
    /\ \A j, k \in 0 .. fd_count - 1 : pfds[j].fd = pfds[k].fd => j = k
    /\ \A j \in fd_count .. nfds - 1 : pfds[j] = NullPfd

Set == INSTANCE WatchSet WITH watched <- Watched(pfds, fd_count),
                              reported <- [f \in Fds |-> EventsOf(pfds, fd_count, f)],
                              Events <- Flags

\* Every insert, swap-removal and poll of the array is an Add, Remove or Report
\* of the set: no descriptor is lost, doubled, or left with another's events.
ImplementsWatchSet == Set!Spec

=============================================================================
