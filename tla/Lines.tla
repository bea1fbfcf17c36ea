-------------------------------- MODULE Lines --------------------------------
(***************************************************************************)
(* The string functions of utils.c and client.c on the lines a user types  *)
(* and on the arguments of the command line.  A line is a sequence of      *)
(* characters; a word that the code only ever compares as a whole ("/quit",*)
(* "user", a dotted address) counts as one character.                      *)
(***************************************************************************)
EXTENDS Digits

CONSTANTS
    USERNAME_LEN,   \* longest username, and the size of every username field
    Letters,        \* the characters that are letters
    Addresses       \* the characters that stand for an IPv4 address

isalnum(c) == isdigit(c) \/ c \in Letters

\* What a pointer into freed memory finds there: no digit, no address.
Clobbered == <<"?">>

-----------------------------------------------------------------------------

remove_first_char(s) ==
    IF s # <<>> /\ Head(s) \in {"!", "$", "@", "#"} THEN Tail(s) ELSE s

remove_newline(s) == IF s # <<>> /\ Last(s) = "\n" THEN Front(s) ELSE s

\* Mutant of valid_username: isalpha for isalnum.
OnlyLetters(s) == Len(s) \in 1 .. USERNAME_LEN /\ ToSet(s) \subseteq Letters

valid_username(s) == Len(s) \in 1 .. USERNAME_LEN /\ \A k \in DOMAIN s : isalnum(s[k])

\* Mutant of valid_port: a single 0 counts as only zeros.
NoZero(s) ==
    /\ Len(s) \in 1 .. 5
    /\ \A k \in DOMAIN s : isdigit(s[k]) \/ s[k] = Space
    /\ \E k \in DOMAIN s : s[k] \notin {"0", Space}
    /\ strtol(s) <= 65535

\* Mutant of valid_port: no upper bound.
AnyNumber(s) ==
    /\ Len(s) \in 1 .. 5
    /\ \A k \in DOMAIN s : isdigit(s[k]) \/ s[k] = Space
    /\ Len(s) = 1 \/ \E k \in DOMAIN s : s[k] \notin {"0", Space}

\* Blanks pass as digits and count as zeros; the test for a trailing blank reads
\* the terminating NUL, which is none.
valid_port(s) ==
    /\ Len(s) \in 1 .. 5
    /\ \A k \in DOMAIN s : isdigit(s[k]) \/ s[k] = Space
    /\ Len(s) = 1 \/ \E k \in DOMAIN s : s[k] \notin {"0", Space}
    /\ strtol(s) <= 65535

\* strsep at the first blank, on a copy that is freed before ip and port are read.
Blank(s) == SelectInSeq(s, LAMBDA c : c = Space)
ip_of(s)   == IF Blank(s) = 0 THEN s ELSE SubSeq(s, 1, Blank(s) - 1)
port_of(s) == SubSeq(s, Blank(s) + 1, Len(s))

inet_pton(s) == Len(s) = 1 /\ Head(s) \in Addresses

-----------------------------------------------------------------------------

\* Mutant of DefaultName: one character less fits.
ShorterName(f) ==
    <<"user">> \o SubSeq(Decimal(f), 1, IF Len(Decimal(f)) < 2 THEN Len(Decimal(f)) ELSE 2)

\* snprintf(username, 8, "user%i", f): three digits of the descriptor fit.
DefaultName(f) ==
    <<"user">> \o SubSeq(Decimal(f), 1, IF Len(Decimal(f)) < 3 THEN Len(Decimal(f)) ELSE 3)

=============================================================================
