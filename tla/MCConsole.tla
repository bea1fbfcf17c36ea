------------------------------ MODULE MCConsole ------------------------------
(***************************************************************************)
(* Console in a window of two rows of text and eight columns, with three   *)
(* descriptors of which one has a default name that is cut.  Usernames     *)
(* have four characters at most, "user" being one.  One typed text takes   *)
(* three rows, and one host's name runs over the pointer behind its field. *)
(***************************************************************************)
EXTENDS ConsoleProps

CONSTANTS null, wild

MCLetters == {"user", "a", "h"}

Times(n, c) == [k \in 1 .. n |-> c]

MCTypable == {
    <<"/quit">>,
    Times(13, "a"),
    <<"@", "user", "1", "0", "1">>, <<"@", "a">>, <<"@", "a", "!">>,
    <<"#", "a">>, <<"#", "user", "1", "0", "1">>,
    <<"$">> \o Times(4, "h"), <<"$">> \o Times(6, "h"), <<"$">> \o Times(7, "h"),
    <<"!", "ip", " ", "8", "0">>, <<"!", "ip">>, <<"!", "ip", " ", "6", "5", "5", "3", "6">>}

MCReceived == {[username |-> <<"a">>, body |-> <<"hello">>]}

=============================================================================
