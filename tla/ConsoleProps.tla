---------------------------- MODULE ConsoleProps -----------------------------
(***************************************************************************)
(* What the user of Console may rely on: that the windows show the state,  *)
(* and that names lead to clients.  Nothing but TypeOK is said of the      *)
(* program after it has written past the end of a field (Overrun).         *)
(***************************************************************************)
EXTENDS Console

Line == Seq(STRING)

PacketType == [username : Line, body : Line]

ArgsType ==
    [quit : {0, 1}, host_username : Line, active_client : Fds \cup {NoClient, Wild},
     client_list : Seq(Fds),
     client : [Fds -> [username : Line, unread_msg : {0, 1}, history : Seq(PacketType)]],
     message_queue : Seq([client : Fds \cup {Wild}, packet : PacketType]),
     CLIENTS : Seq([username : Line, mark : {"standout", "*", " "}]),
     HISTORY : [of : Fds \cup {NoClient},
                rows : [TextRows -> {<<>>} \cup (PacketType \X (Nat \ {0}))]]]

\* Every variable stays in its type.
TypeOK ==
    /\ args \in ArgsType
    /\ status \in {"running", "exited", "failed", "undefined"} /\ typed \in 0 .. MaxTyped
    /\ renamed \in BOOLEAN /\ shared \in BOOLEAN

Defined == status # "undefined"

-----------------------------------------------------------------------------
(* The windows.                                                            *)

\* The CLIENTS window is never out of date: drawing it again would change nothing.
\* Every function that changes the list, a name, a mark or the active client has
\* its own call of client_print, and some have it before the last change.
ListShown == Defined => client_print(args) = args

\* The HISTORY window of the active client shows the newest messages that fit, on
\* adjacent rows with the newest at the bottom, and up to date.  The row of one is
\* covered only by an older one long enough to go on that far, be it one of those
\* that fit or the next, which begins on the border.
HistoryShown ==
    LET f == args.active_client
        h == args.client[f].history
        v == Fitting(Len(h))
    IN  Defined /\ f # NoClient /\ args.HISTORY.of = f =>
            \A k \in 1 .. v :
                \/ args.HISTORY.rows[v - k + 1] = <<h[k], 1>>
                \/ \E j \in k + 1 .. v + 1 : j <= Len(h) /\ Height(h[j]) > j - k

\* While no two clients have had the same name, the window is that of the active
\* client, unless there is nothing to show for it (history_print then leaves the
\* previous client's messages) or a client has left (which erases the window,
\* whoever is active).
WindowFollowsActive ==
    LET f == args.active_client
    IN  Defined /\ ~shared /\ f # NoClient /\ args.client[f].history # <<>> =>
            args.HISTORY.of \in {f, NoClient}

-----------------------------------------------------------------------------
(* Names.                                                                  *)

\* A client that arrives while none is active becomes active, or else one that was
\* there before and has its name: the default name passes valid_username and is
\* found in the list.
NewcomerActive ==
    [][Len(args'.client_list) > Len(args.client_list) =>
          /\ args'.active_client # NoClient
          /\ args.active_client = NoClient =>
                args'.client[args'.active_client].username =
                    args'.client[Last(args'.client_list)].username]_vars

\* Two clients have the same name only after the user renamed one, or when a
\* descriptor has more digits than fit in a default name.
SameNameHasACause ==
    Defined /\ SharesName(args) => renamed \/ \E f \in Clients(args) : f >= 1000

=============================================================================
