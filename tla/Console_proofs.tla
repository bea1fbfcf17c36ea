---------------------------- MODULE Console_proofs ----------------------------
(***************************************************************************)
(* For any lines, packets, descriptors and sizes of the window: the        *)
(* windows show the state, until a name is written past its field.         *)
(***************************************************************************)
EXTENDS ConsoleProps, ListLemmas

-----------------------------------------------------------------------------
(* Names.                                                                  *)

\* The end of a line is no digit.
LEMMA NewlineNoDigit == ~isdigit("\n")
<1>1. DOMAIN DigitChars = 1 .. 10
  BY DEF DigitChars
<1>2. \A k \in 1 .. 10 : DigitChars[k] # "\n"
  BY DEF DigitChars
<1> QED BY <1>1, <1>2 DEF isdigit, ToSet

\* The digits are characters of a line.
LEMMA DigitsAreStrings == \A d \in 0 .. 9 : DigitChars[d + 1] \in STRING
<1>1. DOMAIN DigitChars = 1 .. 10
  BY DEF DigitChars
<1>2. \A d \in 0 .. 9 : DigitChars[d + 1] \in ToSet(DigitChars)
  BY <1>1 DEF ToSet
<1> QED BY <1>2, ConsoleAssumption

\* A default name is a username.
LEMMA DefaultNameProperties ==
  ASSUME NEW f \in Fds
  PROVE  /\ DefaultName(f) \in Line /\ Len(DefaultName(f)) \in 2 .. 4
         /\ DefaultName(f)[1] = "user"
         /\ \A k \in 2 .. Len(DefaultName(f)) : isdigit(DefaultName(f)[k])
<1>1. f \in Nat
  BY ConsoleAssumption
<1>2. PICK size \in 1 .. 10 : Decimal(f) = [k \in 1 .. size |-> DigitOf(f, size - k + 1)]
  BY <1>1, DecimalDigits DEF DigitOf
<1>3. \A k \in 1 .. size : DigitOf(f, size - k + 1) \in STRING /\ isdigit(DigitOf(f, size - k + 1))
  <2> TAKE k \in 1 .. size
  <2>1. size - k + 1 \in 1 .. 10
    OBVIOUS
  <2> QED BY <1>1, <2>1, DigitIn, DigitsAre, DigitsAreStrings DEF DigitOf
<1>4. /\ Decimal(f) \in Seq(STRING) /\ Len(Decimal(f)) = size
      /\ \A k \in 1 .. size : isdigit(Decimal(f)[k]) /\ Decimal(f)[k] \in STRING
  BY <1>2, <1>3
<1> DEFINE m == IF size < 3 THEN size ELSE 3
           d == SubSeq(Decimal(f), 1, m)
<1>5. /\ d \in Seq(STRING) /\ Len(d) = m /\ \A k \in 1 .. m : d[k] = Decimal(f)[k]
  <2>1. 1 \in Int /\ m \in Int /\ \A k \in 1 .. m : Decimal(f)[k] \in STRING
    BY <1>4
  <2> QED BY <2>1, SubSeqProperties
<1> DEFINE u == <<"user">>
<1>6. DefaultName(f) = u \o d
  BY <1>4 DEF DefaultName
<1> HIDE DEF d
<1>7. u \in Seq(STRING) /\ Len(u) = 1 /\ u[1] = "user"
  BY ConsoleAssumption
<1> HIDE DEF u
<1>8. /\ DefaultName(f) \in Seq(STRING) /\ Len(DefaultName(f)) = 1 + m
      /\ DefaultName(f)[1] = u[1]
      /\ \A k \in 2 .. 1 + m : DefaultName(f)[k] = d[k - 1]
  <2>1. /\ u \o d \in Seq(STRING) /\ Len(u \o d) = Len(u) + Len(d)
        /\ \A k \in 1 .. Len(u) + Len(d) :
              (u \o d)[k] = IF k <= Len(u) THEN u[k] ELSE d[k - Len(u)]
    BY <1>5, <1>7, ConcatProperties
  <2>2. m \in 1 .. 3
    OBVIOUS
  <2> HIDE DEF m
  <2> QED BY <1>5, <1>6, <1>7, <2>1, <2>2
<1>9. ASSUME NEW k \in 2 .. 1 + m PROVE isdigit(DefaultName(f)[k])
  <2>1. DefaultName(f)[k] = d[k - 1] /\ k - 1 \in 1 .. m /\ k - 1 \in 1 .. size
    BY <1>8
  <2> QED BY <1>4, <1>5, <2>1
<1> QED BY <1>7, <1>8, <1>9 DEF Line

\* A default name has no command in front, no newline at its end, and is valid.
LEMMA DefaultNameStays ==
  ASSUME NEW f \in Fds
  PROVE  /\ DefaultName(f) = remove_newline(remove_first_char(DefaultName(f)))
         /\ valid_username(DefaultName(f))
<1> DEFINE s == DefaultName(f)
<1>1. /\ s \in Seq(STRING) /\ Len(s) \in 2 .. 4 /\ s[1] = "user" /\ s # <<>>
      /\ \A k \in 2 .. Len(s) : isdigit(s[k])
  BY DefaultNameProperties DEF Line
<1>2. remove_first_char(s) = s
  BY <1>1 DEF remove_first_char
<1>3. remove_newline(s) = s
  <2>1. Last(s) = s[Len(s)] /\ Len(s) \in 2 .. Len(s)
    BY <1>1 DEF Last
  <2>2. isdigit(Last(s))
    BY <1>1, <2>1
  <2>3. ~isdigit("\n")
    BY NewlineNoDigit
  <2> QED BY <2>2, <2>3 DEF remove_newline
<1>4. valid_username(s)
  <2>1. DOMAIN s = 1 .. Len(s)
    BY <1>1, LenProperties
  <2>2. isalnum(s[1])
    BY <1>1, ConsoleAssumption DEF isalnum
  <2>3. \A k \in 1 .. Len(s) : isalnum(s[k])
    BY <1>1, <2>2 DEF isalnum
  <2>4. Len(s) \in 1 .. USERNAME_LEN
    BY <1>1, ConsoleAssumption
  <2> QED BY <2>1, <2>3, <2>4 DEF valid_username
<1> QED BY <1>2, <1>3, <1>4

\* The name of a descriptor of three digits at most has all of them.
LEMMA WholeName ==
  ASSUME NEW f \in Nat, f < 1000
  PROVE  \E size \in 1 .. 3 :
            /\ size = 1 \/ f >= Powers[size]
            /\ f < Powers[size + 1]
            /\ Len(DefaultName(f)) = size + 1
            /\ \A k \in 1 .. size : DefaultName(f)[k + 1] = DigitOf(f, size - k + 1)
<1>1. PICK size \in 1 .. 10 : /\ size = 1 \/ f >= Powers[size]
                              /\ size = 10 \/ f < Powers[size + 1]
                              /\ Decimal(f) = [k \in 1 .. size |-> DigitOf(f, size - k + 1)]
  BY DecimalDigits DEF DigitOf
<1>2. size \in 1 .. 3
  <2>1. \A k \in 4 .. 10 : Powers[k] >= 1000
    BY DEF Powers
  <2>2. \A k \in 4 .. 10 : Powers[k] \in Nat
    BY PowersPositive
  <2>3. size = 1 \/ f >= Powers[size]
    BY <1>1
  <2>4. size \notin 4 .. 10
    BY <2>1, <2>2, <2>3
  <2> QED BY <2>4
<1>3. \A k \in 1 .. size : DigitOf(f, size - k + 1) \in STRING
  <2> TAKE k \in 1 .. size
  <2>1. size - k + 1 \in 1 .. 10
    OBVIOUS
  <2> QED BY <2>1, DigitIn, DigitsAreStrings DEF DigitOf
<1> DEFINE d == Decimal(f)
<1>4. /\ d \in Seq(STRING) /\ Len(d) = size
      /\ \A k \in 1 .. size : d[k] = DigitOf(f, size - k + 1) /\ d[k] \in STRING
  BY <1>1, <1>3
<1> HIDE DEF d
<1> DEFINE e == SubSeq(d, 1, size)
<1>5. e \in Seq(STRING) /\ Len(e) = size /\ \A k \in 1 .. size : e[k] = d[k]
  <2>1. 1 \in Int /\ size \in Int
    OBVIOUS
  <2> QED BY <1>2, <1>4, <2>1, SubSeqProperties
<1> DEFINE u == <<"user">>
<1>6. DefaultName(f) = u \o e
  BY <1>2, <1>4 DEF DefaultName, d
<1> HIDE DEF e
<1>7. u \in Seq(STRING) /\ Len(u) = 1
  BY ConsoleAssumption
<1> HIDE DEF u
<1>8. /\ Len(DefaultName(f)) = 1 + size
      /\ \A k \in 2 .. 1 + size : DefaultName(f)[k] = e[k - 1]
  <2>1. /\ Len(u \o e) = Len(u) + Len(e)
        /\ \A k \in 1 .. Len(u) + Len(e) :
              (u \o e)[k] = IF k <= Len(u) THEN u[k] ELSE e[k - Len(u)]
    BY <1>5, <1>7, ConcatProperties
  <2> QED BY <1>5, <1>6, <1>7, <2>1
<1>9. ASSUME NEW k \in 1 .. size PROVE DefaultName(f)[k + 1] = DigitOf(f, size - k + 1)
  <2>1. k + 1 \in 2 .. 1 + size /\ (k + 1) - 1 = k
    OBVIOUS
  <2>2. DefaultName(f)[k + 1] = e[k]
    BY <1>8, <2>1
  <2> QED BY <1>4, <1>5, <2>2
<1> QED BY <1>1, <1>2, <1>8, <1>9

\* Two descriptors of three digits at most have two default names.
LEMMA DefaultNamesDiffer ==
  ASSUME NEW f \in Nat, NEW g \in Nat, f < 1000, g < 1000, DefaultName(f) = DefaultName(g)
  PROVE  f = g
<1>1. PICK size \in 1 .. 3 :
            /\ f < Powers[size + 1] /\ Len(DefaultName(f)) = size + 1
            /\ \A k \in 1 .. size : DefaultName(f)[k + 1] = DigitOf(f, size - k + 1)
  BY WholeName
<1>2. PICK other \in 1 .. 3 :
            /\ g < Powers[other + 1] /\ Len(DefaultName(g)) = other + 1
            /\ \A k \in 1 .. other : DefaultName(g)[k + 1] = DigitOf(g, other - k + 1)
  BY WholeName
<1>3. other = size
  BY <1>1, <1>2
<1>4. ASSUME NEW p \in 1 .. size
      PROVE  (f \div Powers[p]) % 10 = (g \div Powers[p]) % 10
  <2>1. PICK k \in 1 .. size : size - k + 1 = p
    <3>1. size - p + 1 \in 1 .. size /\ size - (size - p + 1) + 1 = p
      OBVIOUS
    <3> QED BY <3>1
  <2>2. DigitOf(f, p) = DigitOf(g, p)
    <3>1. DefaultName(f)[k + 1] = DigitOf(f, size - k + 1)
      BY <1>1
    <3>2. DefaultName(g)[k + 1] = DigitOf(g, size - k + 1)
      BY <1>2, <1>3
    <3> QED BY <2>1, <3>1, <3>2
  <2>3. (f \div Powers[p]) % 10 \in 0 .. 9 /\ (g \div Powers[p]) % 10 \in 0 .. 9
    BY DigitIn
  <2> QED BY <2>2, <2>3, DigitsAre DEF DigitOf
<1>5. Powers[1] = 1 /\ Powers[2] = 10 /\ Powers[3] = 100 /\ Powers[4] = 1000
  BY DEF Powers
<1>6. CASE size = 1
  <2>1. (f \div 1) % 10 = (g \div 1) % 10 /\ f < 10 /\ g < 10
    BY <1>1, <1>2, <1>3, <1>4, <1>5, <1>6
  <2> QED BY <2>1
<1>7. CASE size = 2
  <2>1. /\ (f \div 1) % 10 = (g \div 1) % 10 /\ (f \div 10) % 10 = (g \div 10) % 10
        /\ f < 100 /\ g < 100
    BY <1>1, <1>2, <1>3, <1>4, <1>5, <1>7
  <2> QED BY <2>1
<1>8. CASE size = 3
  <2>1. /\ (f \div 1) % 10 = (g \div 1) % 10 /\ (f \div 10) % 10 = (g \div 10) % 10
        /\ (f \div 100) % 10 = (g \div 100) % 10
    BY <1>4, <1>5, <1>8
  <2> QED BY <2>1
<1> QED BY <1>6, <1>7, <1>8

-----------------------------------------------------------------------------
(* The invariant.                                                          *)

\* The lines of the window CLIENTS that client_print would draw.
LineList(list, client, active) ==
    [k \in DOMAIN list |->
        [username |-> client[list[k]].username,
         mark |-> IF list[k] = active THEN "standout"
                  ELSE IF client[list[k]].unread_msg = 1 THEN "*" ELSE " "]]

ListOf(a) == LineList(a.client_list, a.client, a.active_client)

PeerType == [username : Line, unread_msg : {0, 1}, history : Seq(PacketType)]

MessageType == [client : Fds \cup {Wild}, packet : PacketType]

Types(a) ==
    /\ a = [quit |-> a.quit, host_username |-> a.host_username,
            active_client |-> a.active_client, client_list |-> a.client_list,
            client |-> a.client, message_queue |-> a.message_queue,
            CLIENTS |-> a.CLIENTS, HISTORY |-> a.HISTORY]
    /\ a.quit \in {0, 1} /\ a.host_username \in Line /\ a.active_client \in Fds \cup {NoClient}
    /\ a.client_list \in Seq(Fds) /\ a.client \in [Fds -> PeerType]
    /\ a.message_queue \in Seq(MessageType)

Shown(a) == a.CLIENTS = ListOf(a)

\* The list names each client once, and the active client and the one whose history
\* is shown are in it.
Listed(a) ==
    /\ \A j, k \in 1 .. Len(a.client_list) : a.client_list[j] = a.client_list[k] => j = k
    /\ {a.active_client, a.HISTORY.of} \subseteq Clients(a) \cup {NoClient}

ViewType ==
    [of : Fds \cup {NoClient}, rows : [TextRows -> {<<>>} \cup (PacketType \X (Nat \ {0}))]]

\* Only a history with messages is shown, and that of the active client up to date.
Viewed(a) ==
    /\ a.HISTORY \in ViewType
    /\ a.HISTORY.of # NoClient =>
           /\ a.client[a.HISTORY.of].history # <<>>
           /\ a.HISTORY.of = a.active_client =>
                  a.HISTORY.rows = Drawn(a.client[a.HISTORY.of].history)

\* WindowFollowsActive, of one value of args.
Follows(a) ==
    a.active_client # NoClient /\ a.client[a.active_client].history # <<>> =>
        a.HISTORY.of \in {a.active_client, NoClient}

Good(a) == Types(a) /\ Shown(a) /\ Listed(a) /\ Viewed(a)

\* From a to n, if no two clients share a name.
Leads(a, n) == Good(n) /\ (Follows(a) /\ ~SharesName(a) => Follows(n))

\* What drawing and reading leave alone.
Frame(a, n) ==
    /\ n.quit = a.quit /\ n.host_username = a.host_username /\ n.client_list = a.client_list
    /\ n.message_queue = a.message_queue
    /\ \A f \in Fds : n.client[f].username = a.client[f].username

-----------------------------------------------------------------------------
(* Drawing.                                                                *)

\* A message takes a row at least.
LEMMA HeightPositive ==
  ASSUME NEW p \in PacketType
  PROVE  Height(p) \in Nat \ {0}
<1> DEFINE u == Len(p.username)
           b == Len(p.body)
           x == 1 + u + 2 + b
<1>1. p.username \in Seq(STRING) /\ p.body \in Seq(STRING)
  BY DEF PacketType, Line
<1>2. u \in Nat /\ b \in Nat
  BY <1>1, LenProperties
<1> HIDE DEF u, b
<1>3. x \in Nat
  BY <1>2
<1>4. Height(p) = (x \div WIDTH) + 1
  BY DEF Height, u, b
<1> HIDE DEF x
<1>5. WIDTH \in Nat \ {0}
  BY ConsoleAssumption
<1>6. x \div WIDTH \in Nat
  BY <1>3, <1>5, Division
<1> QED BY <1>4, <1>6

\* What history_print draws is a view.
LEMMA DrawnIsView ==
  ASSUME NEW h \in Seq(PacketType), NEW f \in Fds
  PROVE  [of |-> f, rows |-> Drawn(h)] \in ViewType
<1> DEFINE n == Len(h)
           over(r) == {k \in DOMAIN h : /\ RowOf(k, n) >= 0
                                        /\ r \in RowOf(k, n) .. RowOf(k, n) + Height(h[k]) - 1}
           row(r) == IF over(r) = {} THEN <<>>
                     ELSE <<h[Max(over(r))], r - RowOf(Max(over(r)), n) + 1>>
<1>1. n \in Nat /\ DOMAIN h = 1 .. n
  BY LenProperties
<1>2. HISTORY_OFFSET \in Nat /\ w_offset(n) \in Int
  BY <1>1, HistoryViewAssumption DEF w_offset
<1>3. ASSUME NEW r \in TextRows, over(r) # {}
      PROVE  row(r) \in PacketType \X (Nat \ {0})
  <2> DEFINE k == Max(over(r))
  <2>1. over(r) \subseteq 1 .. n
    BY <1>1
  <2>2. k \in over(r)
    <3> HIDE DEF over
    <3> QED BY <1>1, <1>3, <2>1, MaxInSet
  <2>3. k \in 1 .. n /\ r \in RowOf(k, n) .. RowOf(k, n) + Height(h[k]) - 1
    BY <2>1, <2>2
  <2> HIDE DEF k
  <2>4. RowOf(k, n) \in Int
    BY <1>1, <1>2, <2>3 DEF RowOf
  <2>5. h[k] \in PacketType
    BY <1>1, <2>3, ElementOfSeq
  <2>6. r - RowOf(k, n) + 1 \in Nat \ {0}
    <3>1. Height(h[k]) \in Nat \ {0}
      BY <2>5, HeightPositive
    <3> QED BY <2>3, <2>4, <3>1
  <2> QED BY <1>3, <2>5, <2>6 DEF k
<1>4. Drawn(h) = [r \in TextRows |-> row(r)]
  BY DEF Drawn
<1>5. \A r \in TextRows : row(r) \in {<<>>} \cup (PacketType \X (Nat \ {0}))
  BY <1>3
<1> HIDE DEF row
<1>6. Drawn(h) \in [TextRows -> {<<>>} \cup (PacketType \X (Nat \ {0}))]
  BY <1>4, <1>5
<1> QED BY <1>6 DEF ViewType

\* client_print brings the list up to date and changes nothing else.
LEMMA PrintList ==
  ASSUME NEW a, Types(a)
  PROVE  LET n == client_print(a)
         IN  /\ Types(n) /\ Shown(n) /\ Frame(a, n) /\ n.active_client = a.active_client
             /\ n.client = a.client /\ n.HISTORY = a.HISTORY
<1> DEFINE L == ListOf(a)
           n == client_print(a)
<1>1. n = [a EXCEPT !.CLIENTS = L]
  BY DEF client_print, ListOf, LineList
<1> HIDE DEF L, n
<1>2. /\ n = [quit |-> a.quit, host_username |-> a.host_username,
              active_client |-> a.active_client, client_list |-> a.client_list,
              client |-> a.client, message_queue |-> a.message_queue,
              CLIENTS |-> L, HISTORY |-> a.HISTORY]
  BY <1>1 DEF Types
<1>3. /\ Frame(a, n) /\ n.active_client = a.active_client
      /\ n.client = a.client /\ n.HISTORY = a.HISTORY /\ n.CLIENTS = L /\ n.quit = a.quit
  BY <1>2 DEF Frame
<1>4. Types(n)
  BY <1>2, <1>3 DEF Types, Frame
<1>5. Shown(n)
  BY <1>3 DEF Shown, L, ListOf, Frame
<1> QED BY <1>3, <1>4, <1>5 DEF n

\* history_print of a client with messages.
LEMMA PrintHistory ==
  ASSUME NEW a, Types(a), NEW f \in Fds, a.client[f].history # <<>>
  PROVE  LET n == history_print(a, f)
         IN  /\ Types(n) /\ Shown(n) /\ Frame(a, n) /\ n.active_client = a.active_client
             /\ n.HISTORY = [of |-> f, rows |-> Drawn(a.client[f].history)]
             /\ \A g \in Fds : /\ n.client[g].history = a.client[g].history
                               /\ n.client[g].username = a.client[g].username
<1> DEFINE v == [of |-> f, rows |-> Drawn(a.client[f].history)]
           b == [a EXCEPT !.client[f].unread_msg = 0]
           p == client_print(b)
           n == history_print(a, f)
<1>1. n = [p EXCEPT !.HISTORY = v]
  BY DEF history_print
<1>2. b = [quit |-> a.quit, host_username |-> a.host_username,
           active_client |-> a.active_client, client_list |-> a.client_list,
           client |-> [a.client EXCEPT ![f].unread_msg = 0], message_queue |-> a.message_queue,
           CLIENTS |-> a.CLIENTS, HISTORY |-> a.HISTORY]
  <2> DEFINE c == [a.client EXCEPT ![f].unread_msg = 0]
  <2>1. b = [a EXCEPT !.client = c]
    BY DEF Types
  <2> HIDE DEF c, b
  <2>2. b = [quit |-> a.quit, host_username |-> a.host_username,
             active_client |-> a.active_client, client_list |-> a.client_list,
             client |-> c, message_queue |-> a.message_queue,
             CLIENTS |-> a.CLIENTS, HISTORY |-> a.HISTORY]
    BY <2>1 DEF Types
  <2> QED BY <2>2 DEF c
<1> HIDE DEF v, b
<1>3. a.client \in [Fds -> PeerType]
  BY DEF Types
<1>4. /\ b.client \in [Fds -> PeerType]
      /\ \A g \in Fds : /\ b.client[g].history = a.client[g].history
                        /\ b.client[g].username = a.client[g].username
  BY <1>2, <1>3 DEF PeerType
<1>5. Types(b) /\ Frame(a, b) /\ b.active_client = a.active_client
  BY <1>2, <1>4 DEF Types, Frame
<1>6. /\ Types(p) /\ Shown(p) /\ Frame(b, p) /\ p.active_client = b.active_client
      /\ p.client = b.client
  BY <1>5, PrintList
<1> HIDE DEF p, n
<1>7. n = [quit |-> p.quit, host_username |-> p.host_username,
           active_client |-> p.active_client, client_list |-> p.client_list,
           client |-> p.client, message_queue |-> p.message_queue,
           CLIENTS |-> p.CLIENTS, HISTORY |-> v]
  BY <1>1, <1>6 DEF Types
<1>8. /\ Frame(p, n) /\ n.active_client = p.active_client /\ n.client = p.client
      /\ n.HISTORY = v /\ n.CLIENTS = p.CLIENTS /\ n.quit = p.quit
  BY <1>7 DEF Frame
<1>9. Types(n)
  BY <1>6, <1>7, <1>8 DEF Types, Frame
<1>10. Shown(n)
  BY <1>6, <1>8 DEF Shown, ListOf, Frame
<1>11. Frame(a, n) /\ n.active_client = a.active_client
  BY <1>5, <1>6, <1>8 DEF Frame
<1>12. n.HISTORY = [of |-> f, rows |-> Drawn(a.client[f].history)]
  BY <1>8 DEF v
<1> QED BY <1>4, <1>6, <1>8, <1>9, <1>10, <1>11, <1>12 DEF n

\* The clients in the list are named by descriptors.
LEMMA ClientsAreFds ==
  ASSUME NEW a, Types(a)
  PROVE  /\ Clients(a) \subseteq Fds
         /\ DOMAIN a.client_list = 1 .. Len(a.client_list) /\ Len(a.client_list) \in Nat
         /\ \A f \in Clients(a) : \E k \in 1 .. Len(a.client_list) : f = a.client_list[k]
         /\ NoClient \notin Fds
<1>1. a.client_list \in Seq(Fds)
  BY DEF Types
<1>2. DOMAIN a.client_list = 1 .. Len(a.client_list) /\ Len(a.client_list) \in Nat
  BY <1>1, LenProperties
<1>3. \A k \in 1 .. Len(a.client_list) : a.client_list[k] \in Fds
  BY <1>1, ElementOfSeq
<1> QED BY <1>2, <1>3, ConsoleAssumption DEF Clients, ToSet

\* A message in front of a history.
LEMMA Longer ==
  ASSUME NEW h \in Seq(PacketType), NEW packet \in PacketType
  PROVE  <<packet>> \o h \in Seq(PacketType) /\ <<packet>> \o h # <<>>
<1>1. <<packet>> \in Seq(PacketType) /\ Len(<<packet>>) = 1
  OBVIOUS
<1>2. <<packet>> \o h \in Seq(PacketType) /\ Len(<<packet>> \o h) = 1 + Len(h) /\ Len(h) \in Nat
  BY <1>1, ConcatProperties, LenProperties
<1> QED BY <1>2, EmptySeq

\* history_insert: the new message is shown or marked, in the right place.
LEMMA InsertGood ==
  ASSUME NEW a, Good(a), NEW f \in Clients(a), NEW packet \in PacketType
  PROVE  Leads(a, history_insert(a, f, packet)) /\ Frame(a, history_insert(a, f, packet))
<1> DEFINE h == <<packet>> \o a.client[f].history
           act == IF a.active_client = NoClient THEN f ELSE a.active_client
           c == [a.client EXCEPT ![f].history = h]
           new == [a EXCEPT !.client[f].history = <<packet>> \o @,
                            !.active_client = IF @ = NoClient THEN f ELSE @]
           n == history_insert(a, f, packet)
<1>1. /\ f \in Fds /\ NoClient \notin Fds /\ a.client \in [Fds -> PeerType]
      /\ a.client[f] \in PeerType /\ a.client[f].history \in Seq(PacketType)
      /\ a.active_client \in Fds \cup {NoClient}
  BY ClientsAreFds DEF Good, Types, PeerType
<1>2. h \in Seq(PacketType) /\ h # <<>>
  BY <1>1, Longer
<1>3. new = [quit |-> a.quit, host_username |-> a.host_username,
             active_client |-> act, client_list |-> a.client_list,
             client |-> c, message_queue |-> a.message_queue,
             CLIENTS |-> a.CLIENTS, HISTORY |-> a.HISTORY]
  <2>1. new = [[a EXCEPT !.client = c] EXCEPT !.active_client = act]
    BY <1>1 DEF Good, Types
  <2> HIDE DEF c, act, new
  <2> QED BY <2>1 DEF Good, Types
<1>4. n = IF new.client[f].username = new.client[new.active_client].username
          THEN history_print(new, f)
          ELSE client_print([new EXCEPT !.client[f].unread_msg = 1])
  BY DEF history_insert
<1>5. act \in Clients(a) /\ act \in Fds /\ act # NoClient
  BY <1>1, ClientsAreFds DEF Good, Listed
<1>6. /\ c \in [Fds -> PeerType]
      /\ c[f].history = h
      /\ \A g \in Fds : c[g].username = a.client[g].username /\ (g # f => c[g] = a.client[g])
  <2> HIDE DEF h
  <2> QED BY <1>1, <1>2 DEF PeerType
<1> HIDE DEF c, act, new, h, n
<1>7. Types(new)
  BY <1>3, <1>5, <1>6 DEF Good, Types
<1>8. CASE new.client[f].username = new.client[new.active_client].username
  <2>1. n = history_print(new, f)
    BY <1>4, <1>8
  <2>2. /\ Types(n) /\ Shown(n) /\ Frame(new, n) /\ n.active_client = act
        /\ n.HISTORY = [of |-> f, rows |-> Drawn(h)] /\ n.client[f].history = h
    BY <1>1, <1>2, <1>3, <1>6, <1>7, <2>1, PrintHistory
  <2>3. Frame(a, n) /\ Clients(n) = Clients(a)
    BY <1>3, <1>6, <2>2 DEF Frame, Clients
  <2>4. Listed(n)
    BY <1>5, <2>2, <2>3 DEF Good, Listed, Frame
  <2>5. Viewed(n)
    BY <1>1, <1>2, <2>2, DrawnIsView DEF Viewed
  <2>6. ~SharesName(a) => Follows(n)
    <3>1. act = f \/ SharesName(a)
      BY <1>1, <1>3, <1>5, <1>6, <1>8 DEF SharesName
    <3> QED BY <2>2, <3>1 DEF Follows
  <2> QED BY <2>2, <2>3, <2>4, <2>5, <2>6 DEF Leads, Good, n
<1>9. CASE new.client[f].username # new.client[new.active_client].username
  <2> DEFINE d == [c EXCEPT ![f].unread_msg = 1]
             m == [new EXCEPT !.client[f].unread_msg = 1]
  <2>1. n = client_print(m)
    BY <1>4, <1>9
  <2>2. m = [quit |-> a.quit, host_username |-> a.host_username,
             active_client |-> act, client_list |-> a.client_list,
             client |-> d, message_queue |-> a.message_queue,
             CLIENTS |-> a.CLIENTS, HISTORY |-> a.HISTORY]
    <3>1. m = [new EXCEPT !.client = d]
      BY <1>3
    <3> HIDE DEF d, m
    <3> QED BY <1>3, <3>1
  <2>3. /\ d \in [Fds -> PeerType]
        /\ \A g \in Fds : d[g].history = c[g].history /\ d[g].username = c[g].username
    BY <1>1, <1>6 DEF PeerType
  <2> HIDE DEF d, m
  <2>4. Types(m)
    BY <1>5, <2>2, <2>3 DEF Good, Types
  <2>5. /\ Types(n) /\ Shown(n) /\ Frame(m, n) /\ n.active_client = act
        /\ n.client = d /\ n.HISTORY = a.HISTORY
    BY <2>1, <2>2, <2>4, PrintList
  <2>6. Frame(a, n) /\ Clients(n) = Clients(a)
    BY <1>6, <2>2, <2>3, <2>5 DEF Frame, Clients
  <2>7. act # f /\ act = a.active_client
    BY <1>3, <1>9 DEF act
  <2>8. Listed(n)
    BY <1>5, <2>5, <2>6 DEF Good, Listed, Frame
  <2>9. \A g \in Fds : g # f => n.client[g].history = a.client[g].history
    BY <1>6, <2>3, <2>5
  <2>10. n.client[f].history # <<>>
    BY <1>1, <1>2, <1>6, <2>3, <2>5
  <2>11. a.HISTORY.of \in Fds \cup {NoClient}
    BY ClientsAreFds DEF Good, Listed
  <2>12. Viewed(n)
    BY <2>5, <2>7, <2>9, <2>10, <2>11 DEF Good, Viewed
  <2>13. Follows(a) => Follows(n)
    BY <1>5, <2>5, <2>7, <2>9 DEF Follows
  <2> QED BY <2>5, <2>6, <2>8, <2>12, <2>13 DEF Leads, Good, n
<1> QED BY <1>8, <1>9

\* client_print alone keeps everything.
LEMMA PrintGood ==
  ASSUME NEW a, Types(a), Listed(a), Viewed(a)
  PROVE  /\ Good(client_print(a)) /\ Frame(a, client_print(a))
         /\ client_print(a).active_client = a.active_client
         /\ Follows(a) => Follows(client_print(a))
<1> DEFINE n == client_print(a)
<1>1. /\ Types(n) /\ Shown(n) /\ Frame(a, n) /\ n.active_client = a.active_client
      /\ n.client = a.client /\ n.HISTORY = a.HISTORY
  BY PrintList
<1> HIDE DEF n
<1>2. Listed(n) /\ Viewed(n) /\ (Follows(a) => Follows(n))
  BY <1>1 DEF Listed, Viewed, Follows, Frame, Clients
<1> QED BY <1>1, <1>2 DEF Good, n

\* set_active_client: the history of the client selected is shown, if it has one.
LEMMA SelectGood ==
  ASSUME NEW a, Good(a), NEW input, NEW name, name = remove_newline(remove_first_char(input))
  PROVE  LET n == set_active_client(a, input)
         IN  /\ Good(n) /\ Frame(a, n) /\ (Follows(a) => Follows(n))
             /\ valid_username(name) /\ (\E f \in Clients(a) : a.client[f].username = name) =>
                   /\ n.active_client \in Clients(a)
                   /\ a.client[n.active_client].username = name
<1> DEFINE I == {j \in 1 .. Len(a.client_list) :
                    a.client[a.client_list[j]].username = name}
           k == SelectInSeq(a.client_list, LAMBDA f : a.client[f].username = name)
           f == a.client_list[k]
           b == [a EXCEPT !.active_client = f]
           p == client_print(b)
           n == set_active_client(a, input)
<1>1. n = IF ~valid_username(name) \/ k = 0 THEN a ELSE history_print(p, f)
  BY DEF set_active_client
<1>2. k = IF I # {} THEN Min(I) ELSE 0
  BY DEF SelectInSeq
<1>3. I \subseteq Nat /\ I \subseteq 1 .. Len(a.client_list)
  OBVIOUS
<1>4. CASE ~valid_username(name) \/ k = 0
  <2>1. n = a
    BY <1>1, <1>4
  <2>2. k = 0 => ~\E g \in Clients(a) : a.client[g].username = name
    <3>1. I # {} => k \in 1 .. Len(a.client_list)
      BY <1>2, <1>3, MinInSet
    <3>2. k = 0 => I = {}
      <4> HIDE DEF k, I
      <4>1. 0 \notin 1 .. Len(a.client_list)
        OBVIOUS
      <4> QED BY <3>1, <4>1
    <3>3. \A g \in Clients(a) : \E j \in 1 .. Len(a.client_list) : g = a.client_list[j]
      BY ClientsAreFds DEF Good
    <3> HIDE DEF k
    <3> QED BY <3>2, <3>3
  <2> HIDE DEF n, k
  <2> QED BY <1>4, <2>1, <2>2 DEF Frame, n
<1>5. CASE valid_username(name) /\ k # 0
  <2>1. k \in 1 .. Len(a.client_list) /\ a.client[a.client_list[k]].username = name
    BY <1>2, <1>3, <1>5, MinInSet
  <2>1a. n = history_print(p, f)
    BY <1>1, <1>5
  <2> HIDE DEF k, n, I
  <2>2. /\ f \in Clients(a) /\ f \in Fds /\ f # NoClient
        /\ a.client[f].username = name
    BY <2>1, ClientsAreFds DEF Good, Clients, ToSet
  <2>3. b = [quit |-> a.quit, host_username |-> a.host_username,
             active_client |-> f, client_list |-> a.client_list,
             client |-> a.client, message_queue |-> a.message_queue,
             CLIENTS |-> a.CLIENTS, HISTORY |-> a.HISTORY]
    <3> HIDE DEF f
    <3> QED BY DEF Good, Types
  <2> HIDE DEF b, f
  <2>4. Types(b) /\ Frame(a, b)
    BY <2>2, <2>3 DEF Good, Types, Frame
  <2>5. /\ Types(p) /\ Shown(p) /\ Frame(b, p) /\ p.active_client = f
        /\ p.client = a.client /\ p.HISTORY = a.HISTORY
    BY <2>3, <2>4, PrintList
  <2> HIDE DEF p
  <2>6. CASE a.client[f].history = <<>>
    <3>1. n = p
      BY <2>1a, <2>5, <2>6 DEF history_print
    <3>2. Frame(a, p) /\ Clients(p) = Clients(a)
      BY <2>4, <2>5 DEF Frame, Clients
    <3>3. Listed(p)
      BY <2>2, <2>5, <3>2 DEF Good, Listed, Frame
    <3>4. Viewed(p) /\ Follows(p)
      BY <2>5, <2>6 DEF Good, Viewed, Follows
    <3> QED BY <2>2, <2>5, <3>1, <3>2, <3>3, <3>4 DEF Good, n
  <2>7. CASE a.client[f].history # <<>>
    <3>1. /\ Types(n) /\ Shown(n) /\ Frame(p, n) /\ n.active_client = f
          /\ n.HISTORY = [of |-> f, rows |-> Drawn(a.client[f].history)]
          /\ n.client[f].history = a.client[f].history
      BY <2>1a, <2>2, <2>5, <2>7, PrintHistory
    <3>2. Frame(a, n) /\ Clients(n) = Clients(a)
      BY <2>4, <2>5, <3>1 DEF Frame, Clients
    <3>3. Listed(n)
      BY <2>2, <3>1, <3>2 DEF Good, Listed, Frame
    <3>4. Viewed(n) /\ Follows(n)
      <4>1. n.HISTORY \in ViewType
        BY <2>2, <3>1, DrawnIsView DEF Good, Types, PeerType
      <4> QED BY <2>7, <3>1, <4>1 DEF Viewed, Follows
    <3> QED BY <2>2, <3>1, <3>2, <3>3, <3>4 DEF Good, n
  <2> QED BY <2>6, <2>7
<1> QED BY <1>4, <1>5

\* A new client: the list grows by one that is not in it.
LEMMA AddGood ==
  ASSUME NEW a, Good(a), NEW f \in Fds, f \notin Clients(a)
  PROVE  LET n == AddClient(a, f)
         IN  /\ Good(n) /\ (Follows(a) => Follows(n))
             /\ n.client_list = Append(a.client_list, f) /\ Len(n.client_list) = Len(a.client_list) + 1
             /\ Clients(n) = Clients(a) \cup {f}
             /\ \A g \in Clients(a) : n.client[g].username = a.client[g].username
             /\ n.client[f].username = DefaultName(f)
             /\ n.active_client # NoClient
             /\ a.active_client = NoClient =>
                    n.client[n.active_client].username = DefaultName(f)
<1> DEFINE r == [Nobody EXCEPT !.username = DefaultName(f)]
           list == Append(a.client_list, f)
           c == [a.client EXCEPT ![f] = r]
           b == [a EXCEPT !.client_list = Append(@, f), !.client[f] = r]
           new == client_create(a, f)
<1>1. r \in PeerType
  <2>1. r = [username |-> DefaultName(f), unread_msg |-> 0, history |-> <<>>]
    BY DEF Nobody
  <2>2. DefaultName(f) \in Line /\ <<>> \in Seq(PacketType)
    BY DefaultNameProperties
  <2> HIDE DEF r
  <2> QED BY <2>1, <2>2 DEF PeerType
<1>2. new = client_print(b)
  BY DEF client_create
<1> HIDE DEF r
<1>3. b = [quit |-> a.quit, host_username |-> a.host_username,
           active_client |-> a.active_client, client_list |-> list,
           client |-> c, message_queue |-> a.message_queue,
           CLIENTS |-> a.CLIENTS, HISTORY |-> a.HISTORY]
  <2>1. b = [[a EXCEPT !.client_list = list] EXCEPT !.client = c]
    BY DEF Good, Types
  <2> HIDE DEF c, list, b
  <2> QED BY <2>1 DEF Good, Types
<1>4. /\ a.client_list \in Seq(Fds) /\ a.client \in [Fds -> PeerType]
      /\ a.active_client \in Clients(a) \cup {NoClient}
      /\ a.HISTORY.of \in Clients(a) \cup {NoClient} /\ Clients(a) \subseteq Fds
      /\ NoClient \notin Fds
      /\ \A j, k \in 1 .. Len(a.client_list) : a.client_list[j] = a.client_list[k] => j = k
      /\ \A k \in 1 .. Len(a.client_list) : a.client_list[k] \in Clients(a)
      /\ Len(a.client_list) \in Nat
  <2>1. /\ a.client_list \in Seq(Fds) /\ a.client \in [Fds -> PeerType]
        /\ Clients(a) \subseteq Fds /\ NoClient \notin Fds
    BY ClientsAreFds DEF Good, Types
  <2>2. /\ a.active_client \in Clients(a) \cup {NoClient}
        /\ a.HISTORY.of \in Clients(a) \cup {NoClient}
        /\ \A j, k \in 1 .. Len(a.client_list) : a.client_list[j] = a.client_list[k] => j = k
    BY DEF Good, Listed
  <2>3. Len(a.client_list) \in Nat /\ DOMAIN a.client_list = 1 .. Len(a.client_list)
    BY <2>1, LenProperties
  <2>4. \A k \in 1 .. Len(a.client_list) : a.client_list[k] \in Clients(a)
    BY <2>3 DEF Clients, ToSet
  <2> QED BY <2>1, <2>2, <2>3, <2>4
<1>5. /\ list \in Seq(Fds) /\ Len(list) = Len(a.client_list) + 1
      /\ \A k \in 1 .. Len(a.client_list) : list[k] = a.client_list[k]
      /\ list[Len(a.client_list) + 1] = f
  BY <1>4, AppendProperties
<1>6. ToSet(list) = Clients(a) \cup {f}
  BY <1>4, ToSetAppend DEF Clients
<1>7. c \in [Fds -> PeerType] /\ \A g \in Clients(a) : c[g] = a.client[g]
  BY <1>1, <1>4
<1> HIDE DEF list, c, b, new
<1>8. Types(b) /\ b.message_queue = a.message_queue
  BY <1>3, <1>5, <1>7 DEF Good, Types
<1>9. Listed(b)
  <2>1. \A j, k \in 1 .. Len(list) : list[j] = list[k] => j = k
    BY <1>4, <1>5
  <2>2. Clients(b) = Clients(a) \cup {f}
    BY <1>3, <1>6 DEF Clients
  <2> QED BY <1>3, <1>4, <2>1, <2>2 DEF Listed
<1>10. Viewed(b)
  BY <1>3, <1>4, <1>7 DEF Good, Viewed
<1>11. Follows(a) => Follows(b)
  BY <1>3, <1>4, <1>7 DEF Follows
<1>12. /\ Good(new) /\ Frame(b, new) /\ (Follows(a) => Follows(new))
       /\ new.active_client = a.active_client
  BY <1>2, <1>3, <1>8, <1>9, <1>10, <1>11, PrintGood
<1>13. /\ new.client_list = list /\ Clients(new) = Clients(a) \cup {f}
       /\ \A g \in Clients(a) : new.client[g].username = a.client[g].username
       /\ new.client[f].username = DefaultName(f)
  <2>1. new.client_list = list /\ \A g \in Fds : new.client[g].username = c[g].username
    BY <1>3, <1>12 DEF Frame
  <2>2. c[f].username = DefaultName(f)
    BY <1>4 DEF c, r, Nobody
  <2> QED BY <1>4, <1>6, <1>7, <2>1, <2>2 DEF Clients
<1> DEFINE n == AddClient(a, f)
<1>14. n = IF a.active_client = NoClient THEN set_active_client(new, DefaultName(f)) ELSE new
  BY DEF AddClient, new
<1>15. CASE a.active_client = NoClient
  <2>1. n = set_active_client(new, DefaultName(f))
    BY <1>14, <1>15
  <2>2. /\ DefaultName(f) = remove_newline(remove_first_char(DefaultName(f)))
        /\ valid_username(DefaultName(f))
    BY DefaultNameStays
  <2>3. /\ Good(n) /\ Frame(new, n) /\ (Follows(new) => Follows(n))
        /\ n.active_client \in Clients(new)
        /\ new.client[n.active_client].username = DefaultName(f)
    BY <1>12, <1>13, <2>1, <2>2, SelectGood
  <2> HIDE DEF n
  <2>4. n.client_list = list /\ Clients(n) = Clients(a) \cup {f}
    BY <1>13, <2>3 DEF Frame, Clients
  <2>5. \A g \in Clients(new) : n.client[g].username = new.client[g].username
    BY <1>4, <1>13, <2>3 DEF Frame
  <2> QED BY <1>4, <1>5, <1>12, <1>13, <2>3, <2>4, <2>5 DEF n, list
<1>16. CASE a.active_client # NoClient
  <2>1. n = new
    BY <1>14, <1>16
  <2> HIDE DEF n
  <2> QED BY <1>5, <1>12, <1>13, <1>16, <2>1 DEF n, list
<1> QED BY <1>15, <1>16

\* A queue whose pointers to a client dangle is a queue.
LEMMA OrphanedTyped ==
  ASSUME NEW queue \in Seq(MessageType), NEW f
  PROVE  Orphaned(queue, f) \in Seq(MessageType)
<1> DEFINE m(k) == [client |-> IF queue[k].client = f THEN Wild ELSE queue[k].client,
                    packet |-> queue[k].packet]
<1>1. DOMAIN queue = 1 .. Len(queue) /\ Len(queue) \in Nat
  BY LenProperties
<1>2. ASSUME NEW k \in 1 .. Len(queue) PROVE m(k) \in MessageType
  <2>1. queue[k] \in MessageType
    BY <1>1, ElementOfSeq
  <2> QED BY <2>1 DEF MessageType
<1>3. Orphaned(queue, f) = [k \in 1 .. Len(queue) |-> m(k)]
  BY <1>1 DEF Orphaned
<1> HIDE DEF m
<1> QED BY <1>1, <1>2, <1>3

\* A client that leaves takes the window with it.
LEMMA LeaveGood ==
  ASSUME NEW a, Good(a), NEW f \in Clients(a)
  PROVE  LET n == client_disconnect(a, f)
         IN  /\ Good(n) /\ Follows(n)
             /\ Len(n.client_list) < Len(a.client_list) /\ Clients(n) = Clients(a) \ {f}
             /\ \A g \in Clients(n) : n.client[g].username = a.client[g].username
<1> DEFINE I == {j \in 1 .. Len(a.client_list) : a.client_list[j] = f}
           k == SelectInSeq(a.client_list, LAMBDA g : g = f)
           list == RemoveAt(a.client_list, k)
           c == [a.client EXCEPT ![f] = Nobody]
           act == IF a.active_client = f THEN NoClient ELSE a.active_client
           queue == Orphaned(a.message_queue, f)
           b == [a EXCEPT !.active_client = IF @ = f THEN NoClient ELSE @,
                          !.HISTORY = Erased,
                          !.message_queue = Orphaned(@, f),
                          !.client_list = RemoveAt(@, SelectInSeq(@, LAMBDA g : g = f)),
                          !.client[f] = Nobody]
<1>1. /\ a.client_list \in Seq(Fds) /\ a.client \in [Fds -> PeerType]
      /\ a.active_client \in Clients(a) \cup {NoClient}
      /\ Clients(a) \subseteq Fds /\ NoClient \notin Fds /\ Len(a.client_list) \in Nat
      /\ \A j, l \in 1 .. Len(a.client_list) : a.client_list[j] = a.client_list[l] => j = l
      /\ \E j \in 1 .. Len(a.client_list) : f = a.client_list[j]
  BY ClientsAreFds DEF Good, Types, Listed
<1>2. k \in 1 .. Len(a.client_list) /\ a.client_list[k] = f
  <2>1. k = IF I # {} THEN Min(I) ELSE 0
    BY DEF SelectInSeq
  <2>2. I \subseteq Nat /\ I # {}
    BY <1>1
  <2> QED BY <2>1, <2>2, MinInSet
<1>3. b = [quit |-> a.quit, host_username |-> a.host_username,
           active_client |-> act, client_list |-> list,
           client |-> c, message_queue |-> queue,
           CLIENTS |-> a.CLIENTS, HISTORY |-> Erased]
  <2>1. b = [[[[[a EXCEPT !.active_client = act] EXCEPT !.HISTORY = Erased]
                 EXCEPT !.message_queue = queue]
                 EXCEPT !.client_list = list] EXCEPT !.client = c]
    BY DEF Good, Types
  <2> HIDE DEF b, act, list, c, queue
  <2> QED BY <2>1 DEF Good, Types
<1>4. client_disconnect(a, f) = client_print(b)
  BY DEF client_disconnect
<1> HIDE DEF k, b
<1>5. /\ list \in Seq(Fds) /\ Len(list) = Len(a.client_list) - 1
      /\ \A j \in 1 .. Len(a.client_list) - 1 :
            list[j] = IF j < k THEN a.client_list[j] ELSE a.client_list[j + 1]
  BY <1>1, <1>2, RemoveAtProperties
<1>6. ToSet(list) = Clients(a) \ {f}
  BY <1>1, <1>2, ToSetRemoveAt DEF Clients
<1> HIDE DEF list
<1>7. c \in [Fds -> PeerType]
  <2>1. Nobody \in PeerType
    <3>1. <<>> \in Line /\ <<>> \in Seq(PacketType)
      BY DEF Line
    <3> QED BY <3>1 DEF Nobody, PeerType
  <2> QED BY <1>1, <2>1
<1>8. act \in (Clients(a) \ {f}) \cup {NoClient} /\ act \in Fds \cup {NoClient}
  BY <1>1
<1>8a. queue \in Seq(MessageType)
  BY OrphanedTyped DEF Good, Types
<1> HIDE DEF c, act, queue
<1>9. Types(b)
  BY <1>3, <1>5, <1>7, <1>8, <1>8a DEF Good, Types
<1>10. Erased.of = NoClient
  BY DEF Erased
<1>11. Listed(b)
  <2>1. ASSUME NEW j \in 1 .. Len(list), NEW l \in 1 .. Len(list), list[j] = list[l]
        PROVE  j = l
    <3>1. /\ list[j] = a.client_list[IF j < k THEN j ELSE j + 1]
          /\ list[l] = a.client_list[IF l < k THEN l ELSE l + 1]
          /\ (IF j < k THEN j ELSE j + 1) \in 1 .. Len(a.client_list)
          /\ (IF l < k THEN l ELSE l + 1) \in 1 .. Len(a.client_list)
      BY <1>1, <1>2, <1>5
    <3>2. (IF j < k THEN j ELSE j + 1) = (IF l < k THEN l ELSE l + 1)
      BY <1>1, <2>1, <3>1
    <3> QED BY <1>1, <1>2, <3>2
  <2>2. Clients(b) = Clients(a) \ {f}
    BY <1>3, <1>6 DEF Clients
  <2> QED BY <1>3, <1>8, <1>10, <2>1, <2>2 DEF Listed
<1>12. Viewed(b) /\ Follows(b)
  <2>1. Erased \in ViewType
    BY DEF Erased, ViewType
  <2> QED BY <1>3, <1>10, <2>1 DEF Viewed, Follows
<1> DEFINE n == client_disconnect(a, f)
<1>13. Good(n) /\ Frame(b, n) /\ (Follows(b) => Follows(n))
  BY <1>4, <1>9, <1>11, <1>12, PrintGood
<1> HIDE DEF n
<1>14. n.client_list = list /\ Clients(n) = Clients(a) \ {f}
  BY <1>3, <1>6, <1>13 DEF Frame, Clients
<1>15. \A g \in Clients(a) \ {f} : n.client[g].username = a.client[g].username
  <2>1. \A g \in Clients(a) \ {f} : c[g] = a.client[g]
    BY <1>1 DEF c
  <2> QED BY <1>1, <1>3, <1>13, <2>1 DEF Frame
<1>16. Len(n.client_list) < Len(a.client_list)
  BY <1>1, <1>5, <1>14
<1> QED BY <1>12, <1>13, <1>14, <1>15, <1>16 DEF n

-----------------------------------------------------------------------------
(* What a handler does.                                                    *)

\* As long as no client is renamed, each has the name of its descriptor.
Named(a) == \A f \in Clients(a) : a.client[f].username = DefaultName(f)

\* NewcomerActive, of two values of args.
Arrives(a, n) ==
    Len(n.client_list) > Len(a.client_list) =>
        /\ n.active_client # NoClient
        /\ a.active_client = NoClient =>
              n.client[n.active_client].username = n.client[Last(n.client_list)].username

Moves(a, n) == Leads(a, n) /\ Arrives(a, n)

\* With the same list and the same names nobody arrives.
LEMMA FrameKeeps ==
  ASSUME NEW a, NEW n, Good(a), Frame(a, n)
  PROVE  Arrives(a, n) /\ (Named(a) => Named(n)) /\ Clients(n) = Clients(a)
<1>1. n.client_list = a.client_list /\ Clients(n) = Clients(a)
  BY DEF Frame, Clients
<1>2. Arrives(a, n)
  <2>1. Len(a.client_list) \in Nat
    BY ClientsAreFds DEF Good
  <2> QED BY <1>1, <2>1 DEF Arrives
<1>3. Named(a) => Named(n)
  BY <1>1, ClientsAreFds DEF Named, Frame, Good
<1> QED BY <1>1, <1>2, <1>3

\* The fields that no window shows.
LEMMA OtherField ==
  ASSUME NEW a, NEW n, Good(a), Types(n),
         n.client_list = a.client_list, n.client = a.client,
         n.active_client = a.active_client, n.CLIENTS = a.CLIENTS, n.HISTORY = a.HISTORY
  PROVE  Moves(a, n) /\ (Named(a) => Named(n)) /\ (Follows(a) => Follows(n))
<1>1. Clients(n) = Clients(a)
  BY DEF Clients
<1>2. Shown(n) /\ Listed(n) /\ Viewed(n) /\ (Follows(a) => Follows(n)) /\ (Named(a) => Named(n))
  BY <1>1 DEF Good, Shown, ListOf, Listed, Viewed, Follows, Named
<1>3. Arrives(a, n)
  <2>1. Len(a.client_list) \in Nat
    BY ClientsAreFds DEF Good
  <2> QED BY <2>1 DEF Arrives
<1> QED BY <1>2, <1>3 DEF Moves, Leads, Good

\* The string functions give lines.
LEMMA LineKept ==
  ASSUME NEW s \in Line
  PROVE  remove_first_char(s) \in Line /\ remove_newline(s) \in Line
<1>1. remove_first_char(s) \in Line
  BY HeadTailProperties DEF Line, remove_first_char
<1>2. Len(s) \in Nat /\ \A k \in 1 .. Len(s) : s[k] \in STRING
  BY LenProperties, ElementOfSeq DEF Line
<1>3. Front(s) \in Line
  <2>1. 1 \in Int /\ Len(s) - 1 \in Int /\ \A k \in 1 .. Len(s) - 1 : s[k] \in STRING
    BY <1>2
  <2> QED BY <2>1, SubSeqProperties DEF Front, Line
<1> QED BY <1>1, <1>3 DEF remove_newline

\* '#': the active client has a new name, and only that.
LEMMA RenameMoves ==
  ASSUME NEW a, Good(a), NEW line \in Line
  PROVE  Moves(a, set_client_username(a, line))
<1> DEFINE name == remove_newline(remove_first_char(line))
           act == a.active_client
           c == [a.client EXCEPT ![act].username = name]
           b == [a EXCEPT !.client[a.active_client].username = name]
           n == set_client_username(a, line)
<1>1. n = IF act = NoClient \/ ~valid_username(name) THEN a ELSE client_print(b)
  BY DEF set_client_username
<1>2. CASE n = a
  <2>1. Moves(a, a)
    BY OtherField DEF Good
  <2> QED BY <1>2, <2>1
<1>3. CASE act # NoClient /\ n = client_print(b)
  <2>1. name \in Line
    BY LineKept
  <2> HIDE DEF name
  <2>2. act \in Fds /\ a.client \in [Fds -> PeerType]
    BY <1>3 DEF Good, Types
  <2>3. b = [quit |-> a.quit, host_username |-> a.host_username,
             active_client |-> a.active_client, client_list |-> a.client_list,
             client |-> c, message_queue |-> a.message_queue,
             CLIENTS |-> a.CLIENTS, HISTORY |-> a.HISTORY]
    <3>1. b = [a EXCEPT !.client = c]
      BY DEF Good, Types
    <3> HIDE DEF b, c
    <3> QED BY <3>1 DEF Good, Types
  <2>4. c \in [Fds -> PeerType] /\ \A f \in Fds : c[f].history = a.client[f].history
    BY <2>1, <2>2 DEF PeerType
  <2> HIDE DEF b, c, n
  <2>5. Types(b)
    BY <2>3, <2>4 DEF Good, Types
  <2>6. Clients(b) = Clients(a) /\ Clients(a) \subseteq Fds
    BY <2>3, ClientsAreFds DEF Clients, Good
  <2>7. Listed(b)
    BY <2>3, <2>6 DEF Good, Listed
  <2>8. Viewed(b)
    BY <2>3, <2>4, <2>6 DEF Good, Listed, Viewed
  <2>9. Follows(a) => Follows(b)
    BY <2>2, <2>3, <2>4 DEF Follows
  <2>10. Good(n) /\ Frame(b, n) /\ (Follows(a) => Follows(n))
    BY <1>3, <2>5, <2>7, <2>8, <2>9, PrintGood
  <2>11. Arrives(a, n)
    <3>1. n.client_list = a.client_list /\ Len(a.client_list) \in Nat
      BY <2>3, <2>10, ClientsAreFds DEF Frame, Good
    <3> QED BY <3>1 DEF Arrives
  <2> QED BY <2>10, <2>11 DEF Moves, Leads, n
<1> QED BY <1>1, <1>2, <1>3

\* '$' and '/quit'.
LEMMA HostMoves ==
  ASSUME NEW a, Good(a), NEW line \in Line
  PROVE  LET n == set_host_username(a, line)
         IN  Moves(a, n) /\ (Named(a) => Named(n))
<1> DEFINE name == remove_newline(remove_first_char(line))
           n == set_host_username(a, line)
<1>1. name \in Line
  BY LineKept
<1>2. n = [a EXCEPT !.host_username = name]
  BY DEF set_host_username
<1> HIDE DEF n, name
<1>3. n = [quit |-> a.quit, host_username |-> name,
           active_client |-> a.active_client, client_list |-> a.client_list,
           client |-> a.client, message_queue |-> a.message_queue,
           CLIENTS |-> a.CLIENTS, HISTORY |-> a.HISTORY]
  BY <1>2 DEF Good, Types
<1>4. Types(n)
  BY <1>1, <1>3 DEF Good, Types
<1> QED BY <1>3, <1>4, OtherField DEF n

LEMMA QuitMoves ==
  ASSUME NEW a, Good(a)
  PROVE  LET n == [a EXCEPT !.quit = 0]
         IN  Moves(a, n) /\ (Named(a) => Named(n))
<1> DEFINE n == [a EXCEPT !.quit = 0]
<1>1. n = [quit |-> 0, host_username |-> a.host_username,
           active_client |-> a.active_client, client_list |-> a.client_list,
           client |-> a.client, message_queue |-> a.message_queue,
           CLIENTS |-> a.CLIENTS, HISTORY |-> a.HISTORY]
  BY DEF Good, Types
<1> HIDE DEF n
<1>2. Types(n)
  BY <1>1 DEF Good, Types
<1> QED BY <1>1, <1>2, OtherField DEF n

\* Another queue of the same type.
LEMMA QueueMoves ==
  ASSUME NEW a, Good(a), NEW q \in Seq(MessageType), NEW n, n = [a EXCEPT !.message_queue = q]
  PROVE  Moves(a, n) /\ (Named(a) => Named(n)) /\ (Follows(a) => Follows(n))
         /\ n.client_list = a.client_list
<1>1. n = [quit |-> a.quit, host_username |-> a.host_username,
           active_client |-> a.active_client, client_list |-> a.client_list,
           client |-> a.client, message_queue |-> q,
           CLIENTS |-> a.CLIENTS, HISTORY |-> a.HISTORY]
  BY DEF Good, Types
<1>2. Types(n)
  BY <1>1 DEF Good, Types
<1> QED BY <1>1, <1>2, OtherField

\* A packet, its body overwritten or not.
LEMMA PacketTyped ==
  ASSUME NEW host \in Line, NEW text \in Line
  PROVE  Packet(host, text) \in PacketType
<1>1. Len(host) \in Nat /\ USERNAME_LEN \in Nat /\ \A k \in 1 .. Len(host) : host[k] \in STRING
  BY ConsoleAssumption, LenProperties, ElementOfSeq DEF Line
<1> DEFINE t == SubSeq(host, USERNAME_LEN + 1, Len(host))
<1>2. t \in Line
  <2>1. /\ USERNAME_LEN + 1 \in Int /\ Len(host) \in Int
        /\ \A k \in USERNAME_LEN + 1 .. Len(host) : host[k] \in STRING
    BY <1>1
  <2> QED BY <2>1, SubSeqProperties DEF Line
<1>3. Packet(host, text) \in {[username |-> host, body |-> text], [username |-> host, body |-> t]}
  BY DEF Packet
<1> HIDE DEF t
<1> QED BY <1>2, <1>3 DEF PacketType

\* A text for the active client.
LEMMA CreateMoves ==
  ASSUME NEW a, Good(a), NEW line \in Line
  PROVE  LET n == message_create(a, line)
         IN  Moves(a, n) /\ (Named(a) => Named(n))
<1> DEFINE n == message_create(a, line)
           text == remove_newline(line)
           m == [client |-> a.active_client, packet |-> Packet(a.host_username, text)]
           q == Append(a.message_queue, m)
<1>1. text \in Line
  BY LineKept
<1>2. n = IF a.active_client = NoClient THEN a ELSE [a EXCEPT !.message_queue = q]
  BY DEF message_create
<1> HIDE DEF text
<1>3. CASE a.active_client = NoClient
  BY <1>2, <1>3, OtherField DEF Good
<1>4. CASE a.active_client # NoClient
  <2>1. a.active_client \in Fds /\ a.host_username \in Line /\ a.message_queue \in Seq(MessageType)
    BY <1>4 DEF Good, Types
  <2>2. m \in MessageType
    BY <1>1, <2>1, PacketTyped DEF MessageType
  <2> HIDE DEF m
  <2>3. q \in Seq(MessageType)
    BY <2>1, <2>2, AppendProperties
  <2> HIDE DEF q
  <2> QED BY <1>2, <1>4, <2>3, QueueMoves
<1> QED BY <1>3, <1>4

\* history_insert, as the receipt of a packet.
LEMMA InsertMoves ==
  ASSUME NEW a, Good(a), NEW f \in Clients(a), NEW packet \in PacketType
  PROVE  LET n == history_insert(a, f, packet)
         IN  Moves(a, n) /\ (Named(a) => Named(n))
BY InsertGood, FrameKeeps DEF Moves

\* packet_transmit: the history of the addressee grows and the queue loses a message.
LEMMA TransmitMoves ==
  ASSUME NEW a, Good(a), NEW k \in DOMAIN a.message_queue, NEW f \in Clients(a)
  PROVE  LET n == packet_transmit(a, a.message_queue[k], f)
         IN  Moves(a, n) /\ (Named(a) => Named(n))
<1> DEFINE m == a.message_queue[k]
           h == history_insert(a, f, m.packet)
           I == {j \in 1 .. Len(h.message_queue) : h.message_queue[j].packet.body = m.packet.body}
           same == SelectInSeq(h.message_queue, LAMBDA q : q.packet.body = m.packet.body)
           q1 == RemoveAt(h.message_queue, same)
           n == packet_transmit(a, m, f)
<1>1. /\ a.message_queue \in Seq(MessageType) /\ k \in 1 .. Len(a.message_queue)
      /\ Len(a.message_queue) \in Nat
  BY LenProperties DEF Good, Types
<1>2. m \in MessageType
  BY <1>1, ElementOfSeq
<1>3. m.packet \in PacketType
  BY <1>2 DEF MessageType
<1>4. Leads(a, h) /\ Frame(a, h)
  BY <1>3, InsertGood
<1>5. Good(h) /\ h.message_queue = a.message_queue
  BY <1>4 DEF Leads, Frame
<1>6. same \in 1 .. Len(h.message_queue)
  <2>1. same = IF I # {} THEN Min(I) ELSE 0
    BY DEF SelectInSeq
  <2>2. I \subseteq Nat /\ I # {}
    BY <1>1, <1>5
  <2> HIDE DEF same
  <2> QED BY <2>1, <2>2, MinInSet
<1>7. n = [h EXCEPT !.message_queue = q1]
  BY DEF packet_transmit, message_destroy
<1> HIDE DEF same, h, n, m
<1>8. q1 \in Seq(MessageType)
  BY <1>1, <1>5, <1>6, RemoveAtProperties
<1> HIDE DEF q1
<1>9. /\ Moves(h, n) /\ (Named(h) => Named(n)) /\ (Follows(h) => Follows(n))
      /\ n.client_list = h.client_list
  BY <1>5, <1>7, <1>8, QueueMoves
<1>10. Leads(a, n)
  BY <1>4, <1>9 DEF Moves, Leads
<1>11. Arrives(a, n)
  <2>1. n.client_list = a.client_list /\ Len(a.client_list) \in Nat
    BY <1>4, <1>9, ClientsAreFds DEF Frame, Good
  <2> QED BY <2>1 DEF Arrives
<1>12. Named(a) => Named(n)
  BY <1>4, <1>9, FrameKeeps
<1> QED BY <1>10, <1>11, <1>12 DEF Moves, n, m

\* The arrival of a client, with or without one more client_print.
LEMMA AddMoves ==
  ASSUME NEW a, Good(a), NEW f \in Fds, f \notin Clients(a)
  PROVE  \A n \in {AddClient(a, f), client_print(AddClient(a, f))} :
            Moves(a, n) /\ (Named(a) => Named(n))
<1> DEFINE b == AddClient(a, f)
           p == client_print(b)
<1>1. /\ Good(b) /\ (Follows(a) => Follows(b))
      /\ b.client_list = Append(a.client_list, f) /\ Len(b.client_list) = Len(a.client_list) + 1
      /\ Clients(b) = Clients(a) \cup {f}
      /\ \A g \in Clients(a) : b.client[g].username = a.client[g].username
      /\ b.client[f].username = DefaultName(f)
      /\ b.active_client # NoClient
      /\ a.active_client = NoClient => b.client[b.active_client].username = DefaultName(f)
  BY AddGood
<1> HIDE DEF b
<1>2. /\ Good(p) /\ Frame(b, p) /\ p.active_client = b.active_client
      /\ Follows(b) => Follows(p)
  BY <1>1, PrintGood DEF Good
<1>3. Last(b.client_list) = f
  <2>1. a.client_list \in Seq(Fds)
    BY DEF Good, Types
  <2> QED BY <1>1, <2>1, AppendProperties DEF Last
<1>4. Moves(a, b) /\ (Named(a) => Named(b))
  BY <1>1, <1>3 DEF Moves, Leads, Arrives, Named
<1> HIDE DEF p
<1>5. Moves(a, p)
  <2>1. /\ p.client_list = b.client_list /\ p.active_client \in Fds
        /\ \A g \in Fds : p.client[g].username = b.client[g].username
    BY <1>1, <1>2 DEF Frame, Good, Types
  <2>2. Arrives(a, p)
    BY <1>1, <1>2, <1>3, <2>1 DEF Arrives
  <2> QED BY <1>1, <1>2, <2>2 DEF Moves, Leads
<1>6. Named(a) => Named(p)
  BY <1>1, <1>2, <1>4, FrameKeeps
<1> QED BY <1>4, <1>5, <1>6 DEF b, p

\* A departure.
LEMMA LeaveMoves ==
  ASSUME NEW a, Good(a), NEW f \in Clients(a)
  PROVE  LET n == client_disconnect(a, f)
         IN  Moves(a, n) /\ (Named(a) => Named(n))
<1> DEFINE n == client_disconnect(a, f)
<1>1. /\ Good(n) /\ Follows(n)
      /\ Len(n.client_list) < Len(a.client_list) /\ Clients(n) = Clients(a) \ {f}
      /\ \A g \in Clients(n) : n.client[g].username = a.client[g].username
  BY LeaveGood
<1> HIDE DEF n
<1>2. Len(n.client_list) \in Nat /\ Len(a.client_list) \in Nat
  BY <1>1, ClientsAreFds DEF Good
<1> QED BY <1>1, <1>2 DEF Moves, Leads, Arrives, Named, n

-----------------------------------------------------------------------------
(* The steps.                                                              *)

\* The windows and the lists are Good, and the history variables know of every
\* rename and of every name that two clients have had.
ConsoleInv ==
    /\ Good(args)
    /\ SharesName(args) => shared
    /\ ~shared => Follows(args)
    /\ ~renamed => Named(args)
    /\ status \in {"running", "exited", "failed"} /\ typed \in 0 .. MaxTyped
    /\ renamed \in BOOLEAN /\ shared \in BOOLEAN

\* What a step does to args, and to renamed.
Step ==
    /\ Moves(args, args') /\ (~renamed' => Named(args'))
    /\ shared' = (shared \/ SharesName(args'))

\* A handler that keeps the names.
LEMMA NamesKept ==
  ASSUME ConsoleInv, NEW n, Becomes(n), Moves(args, n), Named(args) => Named(n),
         renamed' = renamed
  PROVE  Step
BY DEF ConsoleInv, Becomes, Step

\* handle_input.
LEMMA InputMoves ==
  ASSUME NEW a, Good(a), NEW line \in Line
  PROVE  LET n == handle_input(a, line)
         IN  Moves(a, n) /\ (First(line) # "#" => (Named(a) => Named(n)))
<1> DEFINE n == handle_input(a, line)
<1>2. n = CASE line = <<"/quit">>  -> [a EXCEPT !.quit = 0]
            [] First(line) = "@"   -> set_active_client(a, line)
            [] First(line) = "$"   -> set_host_username(a, line)
            [] First(line) = "#"   -> set_client_username(a, line)
            [] OTHER               -> message_create(a, line)
  BY DEF handle_input
<1>3. First(<<"/quit">>) = "/quit"
  BY DEF First
<1> HIDE DEF n
<1>4. CASE line = <<"/quit">>
  <2>1. n = [a EXCEPT !.quit = 0]
    BY <1>2, <1>3, <1>4
  <2> QED BY <2>1, QuitMoves DEF n
<1>5. CASE First(line) = "@"
  <2>1. n = set_active_client(a, line)
    BY <1>2, <1>3, <1>5
  <2>2. Good(n) /\ Frame(a, n) /\ (Follows(a) => Follows(n))
    BY <2>1, SelectGood
  <2> QED BY <2>2, FrameKeeps DEF Moves, Leads, n
<1>6. CASE First(line) = "$"
  <2>1. n = set_host_username(a, line)
    BY <1>2, <1>3, <1>6
  <2> QED BY <2>1, HostMoves DEF n
<1>7. CASE First(line) = "#"
  <2>1. n = set_client_username(a, line)
    BY <1>2, <1>3, <1>7
  <2> QED BY <1>7, <2>1, RenameMoves DEF n
<1>8. CASE line # <<"/quit">> /\ First(line) \notin {"@", "$", "#"}
  <2>1. n = message_create(a, line)
    BY <1>2, <1>8
  <2> QED BY <2>1, CreateMoves DEF n
<1> QED BY <1>4, <1>5, <1>6, <1>7, <1>8

\* The descriptor of a new client is none of a client.
LEMMA NewFdFree ==
  ASSUME ConsoleInv, FreeFds # {}
  PROVE  NewFd \in Fds /\ NewFd \notin Clients(args)
<1>1. FreeFds \subseteq Nat
  BY ConsoleAssumption DEF FreeFds
<1>2. \E f \in FreeFds : \A g \in FreeFds : f <= g
  BY <1>1, NatMin
<1>3. NewFd \in FreeFds
  BY <1>2 DEF NewFd
<1> QED BY <1>3 DEF FreeFds

\* No change is no arrival, and breaks nothing.
LEMMA StaysMoves ==
  ASSUME NEW a, Good(a)
  PROVE  Moves(a, a)
BY OtherField DEF Good

\* Every step is a Step.
LEMMA EveryStep ==
  ASSUME ConsoleInv, [Next]_vars, status' # "undefined"
  PROVE  Step
<1>1. Good(args) /\ Moves(args, args)
  BY StaysMoves DEF ConsoleInv
<1>2. ASSUME UNCHANGED <<args, shared, renamed>> PROVE Step
  BY <1>1, <1>2 DEF ConsoleInv, Step
<1>3. ASSUME NEW line \in Typable, get_input(line) PROVE Step
  <2> DEFINE n == handle_input(args, line)
  <2>1. Moves(args, n) /\ (First(line) # "#" => (Named(args) => Named(n)))
    BY <1>1, InputMoves, ConsoleAssumption DEF Line
  <2>2. Becomes(n) /\ renamed' = (renamed \/ First(line) = "#")
    BY <1>3 DEF get_input
  <2> HIDE DEF n
  <2>3. args' = n /\ shared' = (shared \/ SharesName(n))
    BY <2>2 DEF Becomes
  <2>4. ~renamed' => Named(n)
    BY <2>1, <2>2 DEF ConsoleInv
  <2> QED BY <2>1, <2>3, <2>4 DEF Step
<1>4. ASSUME NEW line \in Typable, client_connect(line) PROVE Step
  <2>1. renamed' = renamed
    BY <1>4 DEF client_connect
  <2>2. Becomes(args) \/ (FreeFds # {} /\ Becomes(AddClient(args, NewFd)))
    BY <1>4 DEF client_connect
  <2>3. CASE Becomes(args)
    BY <1>1, <2>1, <2>3, NamesKept
  <2>4. CASE FreeFds # {} /\ Becomes(AddClient(args, NewFd))
    <3>1. /\ Moves(args, AddClient(args, NewFd))
          /\ Named(args) => Named(AddClient(args, NewFd))
      BY <1>1, <2>4, NewFdFree, AddMoves
    <3> QED BY <2>1, <2>4, <3>1, NamesKept
  <2> QED BY <2>2, <2>3, <2>4
<1>5. ASSUME Accept PROVE Step
  <2> DEFINE n == client_print(AddClient(args, NewFd))
  <2>1. FreeFds # {} /\ Becomes(n) /\ renamed' = renamed
    BY <1>5 DEF Accept
  <2>2. Moves(args, n) /\ (Named(args) => Named(n))
    BY <1>1, <2>1, NewFdFree, AddMoves
  <2> HIDE DEF n
  <2> QED BY <2>1, <2>2, NamesKept
<1>6. ASSUME NEW f \in Fds, NEW p \in Received, Receive(f, p) PROVE Step
  <2> DEFINE n == history_insert(args, f, p)
  <2>1. f \in Clients(args) /\ Becomes(n) /\ renamed' = renamed
    BY <1>6 DEF Receive
  <2>2. p \in PacketType
    BY ConsoleAssumption DEF PacketType, Line
  <2>3. Moves(args, n) /\ (Named(args) => Named(n))
    BY <1>1, <2>1, <2>2, InsertMoves
  <2> HIDE DEF n
  <2> QED BY <2>1, <2>3, NamesKept
<1>7. ASSUME NEW k \in DOMAIN args.message_queue, NEW f \in Fds, Transmit(k, f) PROVE Step
  <2> DEFINE n == packet_transmit(args, args.message_queue[k], f)
  <2>1. f \in Clients(args) /\ Becomes(n) /\ renamed' = renamed
    BY <1>7 DEF Transmit
  <2>2. Moves(args, n) /\ (Named(args) => Named(n))
    BY <1>1, <2>1, TransmitMoves
  <2> HIDE DEF n
  <2> QED BY <2>1, <2>2, NamesKept
<1>8. ASSUME NEW f \in Fds, Disconnect(f) PROVE Step
  <2> DEFINE n == client_disconnect(args, f)
  <2>1. f \in Clients(args) /\ Becomes(n) /\ renamed' = renamed
    BY <1>8 DEF Disconnect
  <2>2. Moves(args, n) /\ (Named(args) => Named(n))
    BY <1>1, <2>1, LeaveMoves
  <2> HIDE DEF n
  <2> QED BY <2>1, <2>2, NamesKept
<1>9. CASE Exit
  BY <1>2, <1>9 DEF Exit
<1>10. CASE UNCHANGED vars
  BY <1>2, <1>10 DEF vars
<1>11. ASSUME NEW line \in Typable, Overrun(line) PROVE FALSE
  BY <1>11 DEF Overrun
<1> QED BY <1>3, <1>4, <1>5, <1>6, <1>7, <1>8, <1>9, <1>10, <1>11 DEF Next, Terminated

\* The scalar variables keep their types.
LEMMA EveryScalar ==
  ASSUME ConsoleInv, [Next]_vars, status' # "undefined"
  PROVE  /\ status' \in {"running", "exited", "failed"} /\ typed' \in 0 .. MaxTyped
         /\ renamed' \in BOOLEAN /\ shared' \in BOOLEAN
<1>1. MaxTyped \in Nat
  BY ConsoleAssumption
<1>2. ASSUME NEW line \in Typable, get_input(line) \/ client_connect(line)
      PROVE  /\ status' \in {"running", "exited", "failed"} /\ typed' \in 0 .. MaxTyped
             /\ renamed' \in BOOLEAN
  <2>1. typed' = typed + 1 /\ typed < MaxTyped
    BY <1>2 DEF get_input, client_connect, Reads
  <2>2. typed' \in 0 .. MaxTyped
    BY <1>1, <2>1 DEF ConsoleInv
  <2>3. status' \in {status, "failed"} /\ renamed' \in BOOLEAN
    BY <1>2 DEF get_input, client_connect, ConsoleInv
  <2> QED BY <2>2, <2>3 DEF ConsoleInv
<1>3. ASSUME UNCHANGED <<typed, renamed>>, status' \in {status, "exited"}
      PROVE  /\ status' \in {"running", "exited", "failed"} /\ typed' \in 0 .. MaxTyped
             /\ renamed' \in BOOLEAN
  BY <1>3 DEF ConsoleInv
<1>4. \/ \E line \in Typable : get_input(line) \/ client_connect(line)
      \/ UNCHANGED <<typed, renamed>> /\ status' \in {status, "exited"}
  BY DEF Next, vars, Overrun, Accept, Exit, Terminated, Disconnect, Receive, Transmit
<1>5. shared' \in BOOLEAN
  BY EveryStep DEF Step
<1> QED BY <1>2, <1>3, <1>4, <1>5

\* The inductive invariant.
LEMMA ConsoleInvInit == Init => ConsoleInv
<1> SUFFICES ASSUME Init PROVE ConsoleInv
  OBVIOUS
<1>1. /\ args = [quit |-> 1, host_username |-> <<"0.0.0.0">>, active_client |-> NoClient,
                 client_list |-> <<>>, client |-> [f \in Fds |-> Nobody],
                 message_queue |-> <<>>, CLIENTS |-> <<>>, HISTORY |-> Erased]
      /\ status = "running" /\ typed = 0 /\ renamed = FALSE /\ shared = FALSE
  BY DEF Init
<1>2. /\ <<"0.0.0.0">> \in Line /\ <<>> \in Line /\ <<>> \in Seq(Fds) /\ <<>> \in Seq(MessageType)
      /\ <<>> \in Seq(PacketType)
  BY ConsoleAssumption DEF Line
<1>3. Nobody \in PeerType
  BY <1>2 DEF Nobody, PeerType
<1>4. Types(args)
  BY <1>1, <1>2, <1>3 DEF Types
<1>5. Clients(args) = {} /\ Len(args.client_list) = 0 /\ DOMAIN args.client_list = {}
  BY <1>1 DEF Clients, ToSet
<1>6. Shown(args)
  BY <1>1, <1>5 DEF Shown, ListOf, LineList
<1>7. Erased \in ViewType /\ Erased.of = NoClient
  BY DEF Erased, ViewType
<1>8. Listed(args) /\ Viewed(args) /\ Follows(args) /\ Named(args) /\ ~SharesName(args)
  BY <1>1, <1>5, <1>7 DEF Listed, Viewed, Follows, Named, SharesName
<1>9. /\ status \in {"running", "exited", "failed"} /\ typed \in 0 .. MaxTyped
      /\ renamed \in BOOLEAN /\ shared \in BOOLEAN
  <2>1. 0 \in 0 .. MaxTyped
    BY ConsoleAssumption
  <2> QED BY <1>1, <2>1
<1> QED BY <1>4, <1>6, <1>8, <1>9 DEF ConsoleInv, Good

LEMMA ConsoleInvNext == ConsoleInv /\ [Next]_vars /\ status' # "undefined" => ConsoleInv'
<1> SUFFICES ASSUME ConsoleInv, [Next]_vars, status' # "undefined" PROVE ConsoleInv'
  OBVIOUS
<1>1. Step
  BY EveryStep
<1>2. Good(args')
  BY <1>1 DEF Step, Moves, Leads
<1>3. SharesName(args') => shared'
  BY <1>1 DEF Step
<1>4. ~shared' => Follows(args')
  <2>1. ~shared' => ~shared /\ ~SharesName(args)
    BY <1>1 DEF Step, ConsoleInv
  <2> QED BY <1>1, <2>1 DEF Step, Moves, Leads, ConsoleInv
<1>5. ~renamed' => Named(args')
  BY <1>1 DEF Step
<1> QED BY <1>2, <1>3, <1>4, <1>5, EveryScalar DEF ConsoleInv

\* What is Good has its type.
LEMMA GoodTyped ==
  ASSUME NEW a, Good(a)
  PROVE  a \in ArgsType
<1> DEFINE LineType == [username : Line, mark : {"standout", "*", " "}]
<1>1. /\ Types(a) /\ a.HISTORY \in ViewType /\ a.CLIENTS = ListOf(a)
      /\ Len(a.client_list) \in Nat /\ a.client_list \in Seq(Fds)
      /\ DOMAIN a.client_list = 1 .. Len(a.client_list)
  BY ClientsAreFds DEF Good, Viewed, Shown, Types
<1>2. a.client \in [Fds -> PeerType]
  BY <1>1 DEF Types
<1>3. ListOf(a) \in Seq(LineType)
  <2> DEFINE line(k) ==
               [username |-> a.client[a.client_list[k]].username,
                mark |-> IF a.client_list[k] = a.active_client THEN "standout"
                         ELSE IF a.client[a.client_list[k]].unread_msg = 1 THEN "*" ELSE " "]
  <2>1. ListOf(a) = [k \in 1 .. Len(a.client_list) |-> line(k)]
    BY <1>1 DEF ListOf, LineList
  <2>2. ASSUME NEW k \in 1 .. Len(a.client_list) PROVE line(k) \in LineType
    <3>1. a.client_list[k] \in Fds
      BY <1>1, ElementOfSeq
    <3>2. a.client[a.client_list[k]].username \in Line
      BY <1>2, <3>1 DEF PeerType
    <3> QED BY <3>2
  <2> HIDE DEF line, LineType
  <2> QED BY <1>1, <2>1, <2>2
<1> HIDE DEF LineType
<1> QED BY <1>1, <1>2, <1>3 DEF Types, ArgsType, PeerType, MessageType, ViewType, LineType

\* Another host's name and another active client are of their types, too.
LEMMA Overwritten ==
  ASSUME NEW a \in ArgsType
  PROVE  [a EXCEPT !.active_client = Wild] \in ArgsType
<1> DEFINE R == [of : Fds \cup {NoClient},
                 rows : [TextRows -> {<<>>} \cup (PacketType \X (Nat \ {0}))]]
           C == [Fds -> [username : Line, unread_msg : {0, 1}, history : Seq(PacketType)]]
           Q == Seq([client : Fds \cup {Wild}, packet : PacketType])
           W == Seq([username : Line, mark : {"standout", "*", " "}])
           L == Seq(Fds)
           P == Fds \cup {NoClient, Wild}
           n == [a EXCEPT !.active_client = Wild]
<1>1. ArgsType = [quit : {0, 1}, host_username : Line, active_client : P, client_list : L,
                  client : C, message_queue : Q, CLIENTS : W, HISTORY : R]
  BY DEF ArgsType
<1>2. Wild \in P
  OBVIOUS
<1> HIDE DEF R, C, Q, W, L, P
<1>3. n = [quit |-> a.quit, host_username |-> a.host_username, active_client |-> Wild,
           client_list |-> a.client_list, client |-> a.client,
           message_queue |-> a.message_queue, CLIENTS |-> a.CLIENTS, HISTORY |-> a.HISTORY]
  BY <1>1
<1> HIDE DEF n
<1>4. n \in ArgsType
  BY <1>1, <1>2, <1>3
<1> QED BY <1>4 DEF n

\* A write past the end of a field leaves the values in their types and the list as it is.
LEMMA OverrunTyped ==
  ASSUME ConsoleInv, NEW line \in Typable, Overrun(line)
  PROVE  TypeOK' /\ args'.client_list = args.client_list
<1> DEFINE a == handle_input(args, line)
<1>1. line \in Line /\ MaxTyped \in Nat
  BY ConsoleAssumption DEF Line
<1>2. Good(args)
  BY DEF ConsoleInv
<1>3. Good(a)
  BY <1>1, <1>2, InputMoves DEF Moves, Leads
<1>4. a \in ArgsType
  BY <1>3, GoodTyped
<1>5. a.client_list = args.client_list
  <2>1. First(line) \in {"$", "#"}
    BY DEF Overrun, Overruns, MayOverrun
  <2>2. line # <<"/quit">>
    BY <2>1 DEF First
  <2>3. a \in {set_host_username(args, line), set_client_username(args, line)}
    BY <2>1, <2>2 DEF handle_input
  <2>4. set_host_username(args, line).client_list = args.client_list
    BY <1>2 DEF set_host_username, Good, Types
  <2>5. set_client_username(args, line).client_list = args.client_list
    BY <1>2 DEF set_client_username, client_print, Good, Types
  <2> QED BY <2>3, <2>4, <2>5
<1>6. args' = [a EXCEPT !.active_client = Wild] \/ args' = a
  BY DEF Overrun, Becomes
<1> HIDE DEF a
<1>7. args' \in ArgsType
  BY <1>4, <1>6, Overwritten
<1>8. args'.client_list = args.client_list
  BY <1>4, <1>5, <1>6 DEF ArgsType
<1>9. typed' \in 0 .. MaxTyped
  BY <1>1 DEF Overrun, Reads, ConsoleInv
<1>10. status' = "undefined" /\ renamed' \in BOOLEAN /\ shared' \in BOOLEAN
  BY DEF Overrun, Becomes, ConsoleInv
<1> QED BY <1>7, <1>8, <1>9, <1>10 DEF TypeOK

\* Until something is written past the end of a field, all of ConsoleInv holds, and
\* after that the types do.
WholeInv == IF Defined THEN ConsoleInv ELSE TypeOK

LEMMA WholeInvNext == WholeInv /\ [Next]_vars => WholeInv'
<1> SUFFICES ASSUME WholeInv, [Next]_vars PROVE WholeInv'
  OBVIOUS
<1>1. CASE ~Defined
  <2>1. status = "undefined" /\ ~Running
    BY <1>1 DEF Defined, Running
  <2>2. UNCHANGED vars
    BY <2>1 DEF Next, get_input, Overrun, client_connect, Reads, Accept, Exit, Terminated,
                Disconnect, Receive, Transmit
  <2>3. TypeOK
    BY <1>1 DEF WholeInv
  <2> QED BY <1>1, <2>2, <2>3 DEF WholeInv, Defined, vars, TypeOK
<1>2. CASE Defined /\ status' # "undefined"
  BY <1>2, ConsoleInvNext DEF WholeInv, Defined
<1>3. CASE Defined /\ status' = "undefined"
  <2>1. ConsoleInv
    BY <1>3 DEF WholeInv
  <2>2. PICK line \in Typable : Overrun(line)
    <3>1. status # "undefined"
      BY <1>3 DEF Defined
    <3> QED BY <1>3, <3>1 DEF Next, vars, get_input, client_connect, Accept, Exit, Terminated,
                              Disconnect, Receive, Transmit
  <2> QED BY <1>3, <2>1, <2>2, OverrunTyped DEF WholeInv, Defined
<1> QED BY <1>1, <1>2, <1>3

LEMMA WholeInvHolds == Spec => []WholeInv
<1>1. Init => WholeInv
  BY ConsoleInvInit DEF WholeInv, Defined, Init
<1> QED BY <1>1, WholeInvNext, PTL DEF Spec

-----------------------------------------------------------------------------
(* The theorems.                                                           *)

\* Drawing the list of clients again would change nothing: every handler redraws
\* it after its last change, or before changes that it does not show.
THEOREM ListCorrect == Spec => []ListShown
<1>1. WholeInv => ListShown
  <2> SUFFICES ASSUME ConsoleInv PROVE client_print(args) = args
    BY DEF WholeInv, ListShown
  <2>1. client_print(args) = [args EXCEPT !.CLIENTS = ListOf(args)]
    BY DEF client_print, ListOf, LineList
  <2>2. Types(args) /\ args.CLIENTS = ListOf(args)
    BY DEF ConsoleInv, Good, Shown
  <2> QED BY <2>1, <2>2 DEF Types
<1> QED BY <1>1, WholeInvHolds, PTL

\* The row of a message that fits, and what is drawn over it.
LEMMA DrawnRow ==
  ASSUME NEW h \in Seq(PacketType), NEW k \in 1 .. Fitting(Len(h))
  PROVE  LET r == Fitting(Len(h)) - k + 1
         IN  \/ Drawn(h)[r] = <<h[k], 1>>
             \/ \E j \in k + 1 .. Fitting(Len(h)) + 1 : j <= Len(h) /\ Height(h[j]) > j - k
<1> DEFINE n == Len(h)
           v == Fitting(n)
           r == v - k + 1
           over == {j \in DOMAIN h : /\ RowOf(j, n) >= 0
                                     /\ r \in RowOf(j, n) .. RowOf(j, n) + Height(h[j]) - 1}
<1>1. n \in Nat /\ DOMAIN h = 1 .. n /\ HISTORY_OFFSET \in Nat
  BY LenProperties, HistoryViewAssumption
<1>2. v \in Nat /\ v <= n /\ v <= HISTORY_OFFSET + 1 /\ k \in 1 .. n
  BY <1>1 DEF Fitting
<1>3. \A j \in 1 .. n : RowOf(j, n) = v - j + 1
  <2>1. w_offset(n) = HISTORY_OFFSET - v
    BY DEF w_offset, Fitting
  <2> HIDE DEF v
  <2> QED BY <1>1, <1>2, <2>1 DEF RowOf
<1>4. r \in TextRows
  BY <1>1, <1>2 DEF TextRows
<1>5. \A j \in 1 .. n : Height(h[j]) \in Nat \ {0}
  BY <1>1, ElementOfSeq, HeightPositive
<1>6. k \in over
  <2>1. Height(h[k]) \in Nat \ {0} /\ RowOf(k, n) = r /\ r >= 0 /\ r \in Int
    BY <1>1, <1>2, <1>3, <1>5
  <2> QED BY <1>1, <1>2, <2>1
<1>7. over \subseteq 1 .. n
  BY <1>1
<1>8. Max(over) \in over /\ \A j \in over : j <= Max(over)
  <2> HIDE DEF over
  <2> QED BY <1>1, <1>6, <1>7, MaxInSet
<1> DEFINE m == Max(over)
<1>9. Drawn(h)[r] = <<h[m], r - RowOf(m, n) + 1>>
  BY <1>4, <1>6 DEF Drawn
<1>10. m \in 1 .. n /\ k <= m /\ RowOf(m, n) >= 0 /\ r <= RowOf(m, n) + Height(h[m]) - 1
  BY <1>6, <1>7, <1>8
<1> HIDE DEF m, over
<1>11. RowOf(m, n) = v - m + 1 /\ Height(h[m]) \in Nat
  BY <1>3, <1>5, <1>10
<1>12. CASE m = k
  BY <1>2, <1>3, <1>9, <1>12
<1>13. CASE m # k
  <2>1. m \in k + 1 .. v + 1 /\ m <= n /\ Height(h[m]) > m - k
    BY <1>2, <1>10, <1>11, <1>13
  <2> QED BY <2>1
<1> QED BY <1>12, <1>13

\* The newest messages of the active client are on the rows where they belong, but
\* for those over which an older one is long enough to go on.
THEOREM HistoryCorrect == Spec => []HistoryShown
<1>1. WholeInv => HistoryShown
  <2> SUFFICES ASSUME ConsoleInv,
                      args.active_client # NoClient, args.HISTORY.of = args.active_client
               PROVE  LET f == args.active_client
                          h == args.client[f].history
                          v == Fitting(Len(h))
                      IN  \A k \in 1 .. v :
                              \/ args.HISTORY.rows[v - k + 1] = <<h[k], 1>>
                              \/ \E j \in k + 1 .. v + 1 :
                                     j <= Len(h) /\ Height(h[j]) > j - k
    BY DEF WholeInv, HistoryShown
  <2> DEFINE h == args.client[args.active_client].history
  <2>1. h \in Seq(PacketType)
    BY DEF ConsoleInv, Good, Types, PeerType
  <2>2. args.HISTORY.rows = Drawn(h)
    BY DEF ConsoleInv, Good, Viewed
  <2> HIDE DEF h
  <2> QED BY <2>1, <2>2, DrawnRow DEF h
<1> QED BY <1>1, WholeInvHolds, PTL

\* The window is that of the active client or of none, as long as no two clients
\* have had the same name and there is something to show.
THEOREM WindowCorrect == Spec => []WindowFollowsActive
<1>1. WholeInv => WindowFollowsActive
  BY DEF WholeInv, ConsoleInv, Follows, WindowFollowsActive
<1> QED BY <1>1, WholeInvHolds, PTL

\* Two clients have one name only after a rename, or if one of them has a descriptor
\* of four digits: below, default names differ.
THEOREM NamesCorrect == Spec => []SameNameHasACause
<1>1. WholeInv => SameNameHasACause
  <2> SUFFICES ASSUME ConsoleInv, ~renamed, \A f \in Clients(args) : ~(f >= 1000),
                      NEW f \in Clients(args), NEW g \in Clients(args), f # g,
                      args.client[f].username = args.client[g].username
               PROVE  FALSE
    BY DEF WholeInv, SameNameHasACause, SharesName
  <2>1. f \in Nat /\ g \in Nat
    <3>0. Good(args)
      BY DEF ConsoleInv
    <3>1. Clients(args) \subseteq Fds
      BY <3>0, ClientsAreFds DEF Good
    <3>2. f \in Fds /\ g \in Fds
      BY <3>1
    <3> QED BY <3>2, ConsoleAssumption
  <2>1a. f < 1000 /\ g < 1000
    BY <2>1
  <2>2. DefaultName(f) = DefaultName(g)
    BY DEF ConsoleInv, Named
  <2> QED BY <2>1, <2>1a, <2>2, DefaultNamesDiffer
<1> QED BY <1>1, WholeInvHolds, PTL

\* A client that arrives while none is active is found by its default name and
\* becomes active, or one of the same name does.
THEOREM NewcomerCorrect == Spec => NewcomerActive
<1>1. WholeInv /\ [Next]_vars =>
         [Len(args'.client_list) > Len(args.client_list) =>
            /\ args'.active_client # NoClient
            /\ args.active_client = NoClient =>
                  args'.client[args'.active_client].username =
                      args'.client[Last(args'.client_list)].username]_vars
  <2> SUFFICES ASSUME WholeInv, Next
               PROVE  Arrives(args, args')
    BY DEF Arrives
  <2>1. CASE ConsoleInv /\ status' # "undefined"
    BY <2>1, EveryStep DEF Step, Moves
  <2>2. ASSUME args'.client_list = args.client_list, args \in ArgsType
        PROVE  Arrives(args, args')
    <3>1. Len(args.client_list) \in Nat
      BY <2>2, LenProperties DEF ArgsType
    <3> QED BY <2>2, <3>1 DEF Arrives
  <2>3. ASSUME ConsoleInv, NEW line \in Typable, Overrun(line) PROVE Arrives(args, args')
    BY <2>2, <2>3, OverrunTyped, GoodTyped DEF ConsoleInv
  <2>4. CASE ~Defined
    <3>1. status = "undefined" /\ ~Running
      BY <2>4 DEF Defined, Running
    <3>2. UNCHANGED vars
      BY <3>1 DEF Next, get_input, Overrun, client_connect, Reads, Accept, Exit, Terminated,
                  Disconnect, Receive, Transmit
    <3> QED BY <2>2, <2>4, <3>2 DEF WholeInv, TypeOK, vars
  <2>5. CASE Defined /\ status' = "undefined"
    <3>1. PICK line \in Typable : Overrun(line)
      <4>1. status # "undefined"
        BY <2>5 DEF Defined
      <4> QED BY <2>5, <4>1 DEF Next, vars, get_input, client_connect, Accept, Exit, Terminated,
                                Disconnect, Receive, Transmit
    <3> QED BY <2>3, <2>5, <3>1 DEF WholeInv
  <2> QED BY <2>1, <2>4, <2>5 DEF WholeInv
<1> QED BY <1>1, WholeInvHolds, PTL DEF Spec, NewcomerActive

\* Every variable stays in its type, also where a name runs over the pointer to the
\* active client; that the lines of the window are in theirs follows from what they show.
THEOREM TypeCorrect == Spec => []TypeOK
<1>1. WholeInv => TypeOK
  BY GoodTyped DEF WholeInv, ConsoleInv, TypeOK
<1> QED BY <1>1, WholeInvHolds, PTL

=============================================================================
