------------------------------ MODULE WatchSet -------------------------------
(***************************************************************************)
(* What the rest of the program relies on in pfds.c: a set of descriptors, *)
(* each with the events that the last poll reported for it.  A descriptor  *)
(* that joins starts with no event, one that leaves takes its own events   *)
(* away, and neither disturbs what was reported for the others.            *)
(***************************************************************************)
CONSTANTS Fds,      \* the descriptors a caller may add
          Events    \* the flags poll may report

VARIABLES watched,  \* the set of descriptors
          reported  \* reported[f]: the events of f, {} when f is not watched

vars == <<watched, reported>>

TypeOK == watched \subseteq Fds /\ reported \in [Fds -> SUBSET Events]

Init == watched = {} /\ reported = [f \in Fds |-> {}]

Add(f) ==
    /\ f \notin watched
    /\ watched' = watched \cup {f}
    /\ UNCHANGED reported

Remove(f) ==
    /\ f \in watched
    /\ watched' = watched \ {f}
    /\ reported' = [reported EXCEPT ![f] = {}]

Report ==
    /\ reported' \in [Fds -> SUBSET Events]
    /\ \A f \in Fds \ watched : reported'[f] = {}
    /\ UNCHANGED watched

Next == (\E f \in Fds : Add(f) \/ Remove(f)) \/ Report

Spec == Init /\ [][Next]_vars

=============================================================================
