------------------------------ MODULE MCStartup ------------------------------
(***************************************************************************)
(* Startup with ports of up to two characters and around 65535 on a small  *)
(* screen, and with other command lines on screens of all kinds of sizes.  *)
(***************************************************************************)
EXTENDS StartupProps

Small == [LINES |-> 9, COLS |-> 21, cut |-> 0]

Screens == [LINES : {6, 7, 8, 9, 24}, COLS : {17, 18, 19, 20, 21, 60, 63, 90}, cut : {0, 1}]

Ports ==
    BoundedSeq({"0", "6", " ", "x"}, 2)
    \cup {Decimal(n) : n \in {655, 6553, 65535, 65536, 99999}}
    \cup {<<"0", "0", "8", "0">>, <<"8", "0", " ", "5">>, <<"6", "5", "5", "3", "5", "0">>}

P(s) == Option("p", s, 2)
Plain == P(<<"8", "0">>)
Word == Option("word", <<>>, 1)

CommandLines == {
    <<>>, <<Option("p", <<"8", "0">>, 1)>>, <<Plain>>, <<Word, Word>>,
    <<Plain, P(<<"9">>)>>, <<Plain, P(<<"x">>)>>,
    <<Option("h", <<>>, 1)>>, <<Plain, Option("v", <<>>, 1)>>,
    <<Option("?", <<>>, 1), Plain>>, <<Option(":", <<>>, 1)>>}

MCStarts ==
    [argv : {<<P(s)>> : s \in Ports} \cup CommandLines, screen : {Small}]
    \cup [argv : {<<Plain>>}, screen : Screens]

=============================================================================
