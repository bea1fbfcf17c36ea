# chatr in TLA+

chatr is a chat client for the terminal: one process, one thread, one loop. It listens on a
port, connects to other instances on request, and shows one conversation at a time in a curses
window. This directory holds TLA+ models of that program and of the framework its unit tests are
linked with, TLC runs that check them, and TLAPS proofs. References such as `client.c:207` are to
files under `src/src/`, those to `unity.c` to files under `src/unity/`.

## 1. The system

| component | state it keeps | operations | correct when |
|---|---|---|---|
| **pfds** (`pfds.c`) | array of `pollfd`, its size `nfds`, `fd_count` slots in use | create, insert (doubles the array), destroy (the last slot moves over the removed one) | it behaves as a set of descriptors, each with the events reported for it |
| **main loop** (`main.c:84-144`) | `quit`, place in the pass | poll; standard input; listening socket; each slot: error, hangup, input, output | each report is used while it is true; nobody is starved; `/quit` ends it |
| **set-up and ends** (`main.c`, `utils.c:179`) | options, curses mode, the heap | getopt, the calls before the loop, the clean-up after it, `handle_error` | the port asked for is served; the terminal comes back; nothing is freed twice |
| **client list** (`client.c`) | list of `client_t` (socket, name, unread mark, history), `active_client` | create, connect, select, rename, disconnect, destroy | it names the same sockets as pfds; the active client is in it |
| **connections** (`connect.c`) | the sockets | `server_init`, accept, receive one packet, transmit one message | a packet ends up in the history of the client it came from or went to |
| **messages** (`message.c`) | queue of outgoing messages, histories | create, destroy, insert in history, print history | each text is sent once, to whom it was typed for, in order |
| **input** (`utils.c`) | the typed line, `host_username` | `handle_input`, validation, string helpers | a line does what the README says, invalid ones nothing |
| **ui** (`ui.c`, `ui.h`) | six curses windows | `init_ui`, `window_create`, `window_free` | the windows fit on the screen and show the state |
| **Unity** (`src/unity/`) | counters and flags of the run of the tests | the runner, the assertions, reports | an assertion fails exactly when it is false; each test has one verdict |
| **environment** | TCP connections, send buffers, descriptors, typed lines | peers connect, send, read, close, hang up, reset, give up | (assumed) |

The parts interact by direct calls and through the structure `args`, which every function gets.
A client exists three times: as a node of the client list, as a slot of pfds and as a descriptor
of the kernel. A queued message points at the node of its client. The node is found from the
slot by a walk along the list that compares sockets and tests for no end (`client.c:207`,
`connect.c:47`). The windows are redrawn by calls in the middle of the handlers: `client_print` is
called in seven places, `history_print` in two.

Hard behaviour: the report of `poll` is a snapshot used over a whole pass, in which clients are
added, removed and moved between slots; the peers act between any two system calls; every `-1`
of a system call ends the program, also "would block"; memory that was freed is read
(`main.c:137` after a disconnection, `main.c:140` after a transmission, `client.c:43` while a line is
parsed); a send on a connection that is down raises SIGPIPE, which nothing handles; a long line runs over
the fields behind it; messages are removed by text and windows refreshed by name; a redrawing call comes before
the last change; `handle_error` frees everything from wherever it is called. `PROJECT.json` lists
these hazards line by line.

## 2. Modules

| module | what it is |
|---|---|
| `Pollfds` | the operators of `pfds.c` on an array: `pfd_create_array`, `pfd_insert`, `pfd_destroy` |
| `WatchSet` | abstract specification: a set of descriptors, each with its reported events |
| `PollSet` | `Pollfds` driven by any caller that keeps to its contract; implements `WatchSet` |
| `EventLoop` | the loop of `main.c` with all handlers, clients, queue, and the environment |
| `EventLoopProps` | the properties of `EventLoop` |
| `Courier` | abstract specification of the outgoing queue: copies of texts that wait and were sent |
| `Digits` | numbers and decimal digits, as the C library reads and prints them |
| `Lines` | the string functions of `utils.c` and `client.c` on typed lines and arguments |
| `HistoryView` | the rows on which `history_print` draws |
| `Console`, `ConsoleProps` | lines typed, names, texts and the windows CLIENTS and HISTORY |
| `Layout` | where `init_ui` puts the six windows |
| `Startup`, `StartupProps` | from the command line to the exit: getopt, set-up, heap, both ends |
| `Asserts` | the assertions of Unity with the widths of their integers |
| `Unity`, `UnityProps` | a run of the tests: runner, jumps out of a test, verdicts |
| `ListLemmas` | TLAPS: facts about walks, removals, appends and pieces of sequences; induction and recursion over the numbers; quotients and decimal digits |
| `PollSet_proofs`, `EventLoop_proofs`, `Delivery_proofs`, `Courier_proofs`, `Console_proofs`, `Startup_proofs`, `Unity_proofs` | TLAPS: see section 4 |
| `MCPollSet`, `MCEventLoop`, `MCConsole`, `MCStartup`, `MCUnity` | instances for TLC |

`EventLoop` uses the operators of `Pollfds`; `Console` those of `Lines` and `HistoryView`; `Startup` those of
`Lines` and `Layout`; `Lines` those of `Digits`; `Unity` those of `Asserts`. `EventLoop` and `Console` model the same handlers at two
grains: `EventLoop` has sockets, reports and memory cells and treats names and texts as opaque; `Console` has
characters, rows and marks, and lets the network act in any order, `EventLoop`'s orders among them: a message whose
client was freed (its pointer is `Wild` then) may go to any client, as it does when the memory was given to another.
Neither has a history written into memory that is still free: the walk of `main.c:137` matches it to no slot (see Memory
below).

### EventLoop and the code

One step is one handler with everything it calls, or one system call of the loop where the
environment may act before the next.

* `Poll` writes the `revents` of the slots in use from the state of the kernel (`Readiness`).
* `NoInput`, `TypeQuit`, `TypeSelect`, `TypeRename`, `TypeText`, `TypeConnect`, `ConnectFails`,
  `TypeOther`, `TypeOverrun` are `get_input` and `handle_input`. A terminal in line mode is readable when a
  line is complete, so reading it does not block. `TypeOther` is a line that changes nothing here. `TypeOverrun`
  is one that is written past the end of a field: `$` and 32 characters or more overwrite `active_client`
  (which is then `Wild`) and what follows it, and two others go one byte too far (`client.c:190`, `utils.c:9`).
  C does not say what the program does then; the status is "undefined" and the run ends.
* `NoPeer`, `accept_connection`, `AcceptFails` serve the listening socket.
* For slot `i`: `SlotError`, `SlotHangup` (which skips a slot, as `i++; continue` does),
  `SlotIdle`, `packet_receive`, `SlotEof`, `ReceiveFails`; then the walk along the queue:
  `packet_transmit`, `TransmitFails` and `TransmitKills` for the next message whose client owns the
  descriptor of the slot, `EndOutput` when there is none.
* `handle_error` and `Exit` end the run: `status` and `error` say how. `error` is what the code
  writes to `logfile.txt`. `TransmitKills` is the SIGPIPE of a `send` on a connection that is down: the process
  ends without either, in curses mode.
* The peers' steps are `PeerConnects`, `PeerGivesUp`, `PeerSends`, `PeerReads`, `PeerCloses` (end of
  file), `PeerHangsUp` (POLLHUP) and `PeerResets` (POLLERR). A connection that is `Down` was hung up ("hup"), reset
  while it was open ("reset", where `recv` and `send` give ECONNRESET), or reset after its peer had closed it
  ("broken", where `send` gives EPIPE and SIGPIPE, and `recv` the end or, on some systems, ECONNRESET); it is reported readable and writable besides POLLHUP, as Linux does.

Memory. `Cells` are the places `malloc` may return for a `client_t`; any cell that is not in use
may be returned, one of an earlier client included. A freed `client_t` is modelled as the allocator
leaves it: glibc's `free` overwrites the first 16 bytes, which hold `socket`, with values that are no
descriptor (`Garbage`), so a message whose client is gone matches no slot until its cell is used
again. A freed `msg_t` keeps its `next` pointer, which lies at offset 24: the walk goes on
behind it. Other allocators may differ; the models make no statement about them.

Abstractions. Names and texts are members of small sets. A packet is sent and received whole.
`printed` is the length of a client's history when it was last drawn, `made` and `wire` record
which texts were typed for whom and what was sent where; no step depends on these three. Allocation
failures are left out, except that of `args->pfds` in `Startup`.

### Console and the code

The functions that get `args` and windows are operators from one value of `args` to the next, under the
names they have in the code, and each redrawing call stands where the code has it. `args.CLIENTS` and
`args.HISTORY` hold what is on the screen: lines with their mark, and for each row of text the message and
which of its rows it is. A message is drawn over what is there, from the newest up, so that one that needs more than one
of the `WIDTH` columns' rows (`Height`) covers newer ones, as `mvwprintw` does.

A line is a sequence of characters; a word that the code only compares as a whole (`/quit`, `user`, an
address) counts as one. `client_connect` parses `ip` and `port` in a copy of the line that it has freed:
either string is what it was or `Clobbered`, and a step is taken for every combination. A host name that
fills its field (30 characters in the code, `USERNAME_LEN` in the instance) moves its end and its NUL over the
beginning of the body (`message.c:86-87`), which `Packet` models. One that does not fit in the field and the two bytes
of padding behind it (`HOST_ROOM`) writes into `args->active_client`; `Overrun` is this step, after which
`active_client` is `Wild` and the status "undefined". It stands as well for the rename of a client whose name has 30
characters, for which `prev_uname` (`client.c:190`) has no room; both of these may also do no harm, when the byte
written is the NUL alone, so `get_input` remains possible there.

### Startup and the code

`todo` is the list of the calls still to be made; each step makes its first. `SetUp`, `End` and `Failure` are
the three sequences of the code: the calls of `main` before the loop, those after it, and `handle_error` with
the `exit` of its caller. A failure replaces `todo` by `Failure`, or ends the process where the code
calls `exit` itself. A signal ends the process at the call being made, with the terminal as it is ("killed"): in the
loop (SIGPIPE, or what follows an overrun), in `fopen` when `handle_error` writes to a log it could not open, and in
`free_pfds` when `args->pfds`, for which there was no memory, holds what `malloc` left in `args`. Heap blocks are pairs of a kind and a number; `live` are those in use, `wild` those
freed while not in use. The loop is reduced to what it does to the heap: clients, history entries and
messages are made and dropped, in any order. The products with 0.30 and 0.70 in `ui.h` are cut to
integers; 0.70 times a multiple of ten may fall just below an integer, and the field `cut` of a screen says
whether it does.

### Unity and the code

`setUp`, the test and `tearDown` make calls drawn from `Calls`; a call of an assertion that fails, and
`TEST_IGNORE`, jump out of the function that made it. `Fails` gives the verdict of each assertion with the
conversions of its macro: `Operand` and `Delta` are the casts of `unity_internals.h`, `Element` the
reads of arrays in `unity.c`, which go through signed types. A hexadecimal digit has `Nibble` values, two digits make a
byte, and int and `UNITY_INT` have `IntBytes` and `WordBytes` bytes, so the ends of each type are reached with small
numbers. `Legal` is what the prototypes and C admit as a call: numbers, strings without a NUL in them, and arrays
with as many elements as the call reads; `UnityAssumption` asks it of all `Calls`.

## 3. Runs

| run | instance | shows |
|---|---|---|
| `pollset` | 4 descriptors, 2 kinds of events; the array of 3 doubles | `SlotsInv`; the array implements `WatchSet` |
| `clients` | 3 peers, 3 descriptors, a packet each, nothing typed | `SocketsMatch`: list, array and kernel agree, so the unguarded walks end; `ReportsStillTrue`: what poll reported for a slot still holds when the pass reaches it; hence `NeverReadsEmpty` |
| `marks` | 3 peers on 2 descriptors and 2 cells (reuse, and no free descriptor), a packet each, one line | `PointersListed`, `NothingMissed` (unread marks), `HistoryIsLog`; `DroppedOnlyWhenGone`: only a peer that has left is disconnected, and only a hangup costs unread packets; `FailureHasACause`: which conduct of a peer ends the program, by `handle_error` or by SIGPIPE |
| `messages` | 2 peers, 3 lines, 2 texts, a send buffer of 1 packet | the queue implements `Courier`; `ExactlyOnceUnlessTwin`, `RightPeerUnlessGone`, `InOrder` |
| `served` | 2 peers, fairness | `Accepted`, `AllRead`, `GoneNoticed` |
| `delivered` | 2 peers whose descriptors share a default name, 2 lines, 2 texts, fairness | `QuitEnds`, `Delivered` |
| `console` | 3 descriptors, one of them 1000; 2 rows of text of 8 columns, a text that takes 3; names of 4 characters, host names of 6 and 7, the last two in and behind the room for them; 2 lines, 4 messages | `ListShown`, `HistoryShown`, `WindowFollowsActive` (the windows); `NewcomerActive`, `SameNameHasACause` (names) |
| `lifecycle` | ports of up to 2 characters and around 65535; other command lines; 80 sizes of screen; 4 blocks made by the loop | `PortServed`, `WindowsTile`, `TerminalRestored`, `FreedOnce`; `LeftBehind`, with a finding: the array of windows is never freed |
| `unity` | hexadecimal digits of 2 values (bytes of 4), ints of 2 bytes, `UNITY_INT`s of 4; 3 tests | `FailsWhenFalse`, `ReportShowsWhy`, `OneVerdict`, `NothingAfterVerdict` |
| `same_text` | 2 peers, 3 lines, 1 text | finding: a message is removed by its text |
| `reused_cell` | 2 peers, 1 line | finding: a queued message reaches another peer |
| `same_name` | 2 peers, 1 line | finding: the window and the marks follow names |

What the conditions of the properties say about the code:

* `WindowFollowsActive` has three: two clients have had one name (`message.c:28`), the selected client has
  no history (`message.c:39` returns before it erases), or a client left (`client.c:223` erases the window,
  whoever is active). In each the window shows something else than the active client's messages.
* `HistoryShown`: a long message hides as many newer ones as it has rows more than one (`message.c:61`), also
  when it begins on the border, where its own first row is not seen.
* `PointersListed`, and everything said of `Console`: only until a line overruns a field (`utils.c:78`).
* `FailureHasACause` admits the end by SIGPIPE, with a message waiting for a connection that is down: `poll` and `send`
  are two calls, and the slot filled after an end of file is not tested for a hangup. `ReportsStillTrue` says of
  POLLOUT no more than that the call returns at once.
* `AllRead` and `Delivered` do not count what is thrown away: packets unread at a hangup, a message dropped for its twin
  (which is the finding `same_text`).
* `SameNameHasACause`: descriptors from 1000 on are cut to the same default names (`connect.c:131`).
* `PortServed` says nothing of a port with blanks in it, and lets `-p` refuse a number with leading zeros:
  `valid_port` counts blanks as zeros and refuses more than five characters.
* `WindowsTile` holds from 9 rows and 21 columns on. `TerminalRestored` excludes screens of fewer than 8 rows or
  20 columns, where `window_create` exits in curses mode (`ui.c:72`), and the three calls at which a signal may end the
  process: the loop, the log that cannot be opened, to which `handle_error` writes all the same (`utils.c:187`), and
  the free of `args->pfds` that was not set (`utils.c:191`). It shows that there are no others.
* `FreedOnce`: `args->pfds` is freed before it was set when `pfd_create_array` fails. `LeftBehind`: neither end
  frees the packets, the array of windows or the histories of clients that had left. For the array this is a
  finding: `src/README.md` lists `free(windows)`, and `window_free` (`ui.c:149`) frees the NULL it has just put there.
* `FailsWhenFalse` asks that a false assertion fails; that only a false one does has two exemptions, `Straddles` and
  `DeltaCut`. The elements of unsigned arrays are read as signed ones (`unity.c:1262-1313`), so with
  `*_ARRAY_WITHIN` two on either side of the middle of their range count as farther apart than they are: by the
  number of values that a `UNITY_INT` has beyond those of their size, and the assertion may fail although it is true.
  Macros convert a delta to a type of theirs, `TEST_ASSERT_UINT8_ARRAY_WITHIN` to 16 bits (`unity_internals.h:872`);
  nothing is said of a delta that does not fit.
* `ReportShowsWhy`: reports on unsigned array elements as wide as an int show the sign extension, as the mask is
  applied to shorter ones only (`unity.c:842`).

Bounds. Each peer connects once; `MaxLines`, `MaxPackets` and `Room` bound the lines typed, the
packets a peer sends and the packets that fit in a send buffer. Three live clients are what it takes
for a removal to move a slot over another and skip a third; two descriptors and two cells for three
peers force reuse and the case without a free descriptor; three lines are two equal texts and the
selection between them; the array doubles with the fourth descriptor. With the client slots of two
peers and a hangup in the first the skip is present in `served` too.

In `console` two rows of text (`HISTORY_OFFSET = 1`) and four messages (`MaxEntries`) fill the window and
scroll it; two lines (`MaxTyped`) rename and then select, or name the host and then write; the network's steps are
bounded only by the messages. The text of 13 characters with its sender takes three rows: begun on the border above
two rows of text it covers both. In `marks` one line is typed, so the order of two messages in one history is shown by the
proof of `HistoryIsLog` only. In `lifecycle` a port of two characters has every order of digit, blank and
other character, and the longer ones reach the five-character limit and the two ends of 65535; the
screens have every height and width at which a formula of `ui.h` changes its form. `MaxBlocks = 4` is a
client with a history that leaves, another that stays, and a message. In `unity` operands lie at both ends and around the
middle of every width; three tests are one for each verdict.

Fairness. `FairSpec` asks that the loop keeps taking steps, which holds because `poll` is called with
timeout 0 and every socket of a client is non-blocking, and that connected peers keep reading. It
asks nothing of peers connecting, sending or leaving, nor of the user. Every peer connects once, so
disconnections stop in the end: with an endless supply of peers that hang up, the skipped slots could
be skipped again in every pass, and the liveness results say nothing about that case.

Symmetry of connections and cells is used in the safety runs only. Every run checks for deadlock: a
process that has ended stutters (`Terminated`).

## 4. Proofs

`tlapm` checks every theorem and lemma to its leaves, for all values of the constants that satisfy
`PollSetAssumption`, `EventLoopAssumption`, `ConsoleAssumption`, `StartupAssumption`, `AssertsAssumption` and
`UnityAssumption`: descriptors are numbers (beyond the server's, in `EventLoop`), names exist, the NULL pointer is
no cell, screens have natural sizes, a command line is a sequence of options, widths are positive and an int is
shorter than a `UNITY_INT`, half of a digit's values are a whole number, and the calls of the tests are `Legal`. Of
the names given by the program (`user3`) `ConsoleAssumption` says that they fit a username field and would pass for
one, of the pointer `Wild` that it is no client and not NULL, and of the window that it has a column; it also names the
words and digits of the code as strings, which the provers do not know of a string literal. The lines of the user may be
any; what `Console` shows of them ends with a line that overruns a field (`Defined`). The bounds of the runs are constants of which
nothing more is assumed: the theorems hold for any number of peers, cells, lines, packets, blocks and tests.

| theorem: property | module | run of the same property |
|---|---|---|
| `TypeCorrect`: `TypeOK` | `PollSet_proofs` | `pollset` |
| `SlotsCorrect`: `SlotsInv` | `PollSet_proofs` | `pollset` |
| `Implements`: `ImplementsWatchSet` | `PollSet_proofs` | `pollset` |
| `TypeCorrect`: `TypeOK` | `EventLoop_proofs` | `marks` |
| `MatchCorrect`: `SocketsMatch` | `EventLoop_proofs` | `clients` |
| `PointersCorrect`: `PointersListed` | `EventLoop_proofs` | `marks` |
| `SnapshotTrue`: `ReportsStillTrue` | `Delivery_proofs` | `clients` |
| `NeverEmpty`: `NeverReadsEmpty` | `Delivery_proofs` | `clients` |
| `MarksCorrect`: `NothingMissed` | `Delivery_proofs` | `marks` |
| `DroppedCorrect`: `DroppedOnlyWhenGone` | `Delivery_proofs` | `marks` |
| `RightPeerCorrect`: `RightPeerUnlessGone` | `Delivery_proofs` | `messages` |
| `CauseCorrect`: `FailureHasACause` | `Delivery_proofs` | `marks` |
| `OrderCorrect`: `InOrder` | `Courier_proofs` | `messages` |
| `OnceCorrect`: `ExactlyOnceUnlessTwin` | `Courier_proofs` | `messages` |
| `QueueImplements`: `ImplementsCourier` | `Courier_proofs` | `messages` |
| `LogCorrect`: `HistoryIsLog` | `Courier_proofs` | `marks` |
| `TypeCorrect`: `TypeOK` | `Console_proofs` | `console` |
| `ListCorrect`: `ListShown` | `Console_proofs` | `console` |
| `HistoryCorrect`: `HistoryShown` | `Console_proofs` | `console` |
| `WindowCorrect`: `WindowFollowsActive` | `Console_proofs` | `console` |
| `NewcomerCorrect`: `NewcomerActive` | `Console_proofs` | `console` |
| `NamesCorrect`: `SameNameHasACause` | `Console_proofs` | `console` |
| `WindowsCorrect`: `WindowsTile` | `Startup_proofs` | `lifecycle` |
| `TerminalCorrect`: `TerminalRestored` | `Startup_proofs` | `lifecycle` |
| `FreedCorrect`: `FreedOnce` | `Startup_proofs` | `lifecycle` |
| `LeftCorrect`: `LeftBehind` | `Startup_proofs` | `lifecycle` |
| `PortCorrect`: `PortServed` | `Startup_proofs` | `lifecycle` |
| `TypeCorrect`: `TypeOK` | `Startup_proofs` | `lifecycle` |
| `TypeCorrect`: `TypeOK` | `Unity_proofs` | `unity` |
| `NothingAfterCorrect`: `NothingAfterVerdict` | `Unity_proofs` | `unity` |
| `VerdictCorrect`: `OneVerdict` | `Unity_proofs` | `unity` |
| `AssertionsCorrect`: `FailsWhenFalse` | `Unity_proofs` | `unity` |
| `ReportCorrect`: `ReportShowsWhy` | `Unity_proofs` | `unity` |

**PollSet.** Type and slots are inductive as they stand. For the refinement, two lemmas say which
events a descriptor has in an array in which it is in one slot, or in none; each call of `pfds.c` then
maps to the step of `WatchSet` of the same name.

**EventLoop.** `TypeOK`, `SocketsMatch` and `PointersListed` are not inductive alone, not even the type: the
addressee of a typed text is a connection only if the active client is in the list and the list matches the
open descriptors. The inductive invariant `IInv` (in `EventLoopProps`) conjoins them with four parts: a cell
outside the list has no descriptor (`FreedHasNone`; without it a message for a client that was freed could be
due at a slot), a descriptor's connection was made and not given up (`OpenIsLive`; it keeps a new client's
connection apart from the others), queued ids were typed (`QueuedMade`), and the pass stays within the client
slots (`InSlots`; `i` may be one behind the last slot after an end of file, where it meets a reset slot). The
proof has a lemma for each piece that several handlers share (`InsertKeeps` for `history_insert`, `AddKeeps` for
the common end of accept and connect, `DisconnectKeeps` for `client_disconnect`, `MatchKept` for everything else)
and one for each handler on top.

`ReportsStillTrue` is inductive given `IInv`. Peers only add data, room or an end; a new client's slot has
nothing reported; a receive or send takes from the connection of the slot that the pass is leaving; and a
removal fills its slot from the end, before the slots that are still pending. `NeverReadsEmpty` follows: a
`recv` at slot `i` happens while `i` is pending. `DroppedOnlyWhenGone` follows too: a disconnection happens
where a hangup was reported, which is still true, or where `recv` found an end and nothing before it.

**Delivery.** `NothingMissed` is inductive with one addition, that a client's `printed` never exceeds its history
(`MarksInv`). For `RightPeerUnlessGone`, one lemma (`ClientsFollowed`) says what any step does to a client of the
list: it keeps its connection, or that connection is given up for good. So a queued message points to the
cell of its addressee or its addressee is gone (`QueuedAims`), and stays so in memory that is freed and reused.
`FailureHasACause` needs that an empty send buffer has had something sent into it (`RoomLeft`) and that a peer
reported at the listening socket is still in the backlog or left it (`PeerWaited`); for the end by SIGPIPE it takes the
message due at the slot, whose client owns the descriptor (`WaitsFor`).

**Courier.** `CourierInv` says that the queue is in the order of typing and that messages for one connection are
for one cell (`QueueRight`); that the walk has left nothing behind for its slot (`Walked`); that a
message without twins is in the queue or on a connection, once (`SentOnce`); and that what waits for a connection is
later than what was sent to it (`SentOrdered`). The step that matters is `packet_transmit`: `message_destroy` removes the
first message with the same text. Either that is the one sent, or the two were typed for different
connections and both have a twin, or they were typed for the same one, point to the same cell, and the
earlier would have been due before: the walk has not passed it. For the refinement, closing the gap in the queue is a
bijection of the places that remain (`GapClosed`), and a place on a connection is new, so each text's two
counts change by one.

`HistoryIsLog` needs no more than `CourierInv` and that nothing was read from or sent on a connection that no client
has had yet. A new entry stands at the front and moves the places of the others up by one: what was sent stays in
order behind it (`LogOfSent`), and an entry that was read is one more of those that were not sent (`LogOfReceived`).
A new client starts with an empty history on a connection without a log, and every other step leaves both alone;
the cell it is made in, and the descriptor, may have been another's.

**Console.** `ConsoleInv` conjoins what each value of `args` satisfies (`Good`): the types, the list in the window
as it would be drawn again (`Shown`), a list without repetitions in which the active client is (`Listed`), and
rows of the window that are those of the history they are of (`Viewed`). On top, names are unique until two are not
(`SharesName`), the window follows the active client while they are (`Follows`), and a name that was not changed is
the default (`Named`). The inductive invariant, `WholeInv`, is `ConsoleInv` until a line overruns a field and the type
alone in that last state. A handler is a composition of functions on `args`, so the proof has a lemma for each function
(`SelectGood`, `AddGood`, `LeaveGood`, `InsertGood`) and one for each handler (`RenameMoves`, `CreateMoves`,
`TransmitMoves`, ...). That the list is up to date rests on `client_print` changing nothing when it draws a second time, and
on each function's last change to what the list shows coming before its own call. `HistoryShown` is
arithmetic on which message draws a row last. Two default names of descriptors below 1000 differ because their
digits do (`DefaultNamesDiffer`); a newcomer becomes active because `valid_username` accepts its name and the search
for the name ends at a client that has it.

**Startup.** `SInv` says where the process is: in getopt, or at one of the calls of `SetUp`, `End` or `Failure`, and
which of the fixed blocks it holds there (`Place`); and that the blocks the loop made are exactly those reachable from
the list, the queue and the histories, of departed clients too, each by one way (`LoopBlocks`). `FreedOnce` and
`LeftBehind` then compare what each call of the two ends frees with what is held. `WindowsTile` is arithmetic on
the products of `ui.h`: that the two shares leave no overlap, whatever the field `cut`.

`PortServed` needs `PortInv`: the port is that of the last `-p` read so far, the calls after getopt are reached only
with all of them read, the socket listens on that port, and the `-p` at which the process ends was refused. The rest
is about numerals. What `strtol` returns is a recursion over its digits, which would need induction; but `valid_port`
passes on at most five characters, so that the recursion is unrolled (`ReadFromLeft`) and its value has the digits that
were read (`FiveSay`, `DigitsSay`). That no number up to 65535 is refused follows the other way: what is read
from its digits has its digits, and five digits determine a number (`SameDigits`). Hence `htons` cuts nothing off,
either. `TypeOK` takes the calls left from `Place`, the ports from `PortInv`, and the rest from two more invariants
(`CallTypes`, `HeapTypes`), of which the first needs that a living process has a call left.

**Unity.** `UInv` adds to `OneVerdict` and `NothingAfterVerdict` that no call outlives its function, that no test is
both failed and ignored, and that only unflagged calls can fail.

The other two need no more of the state than that, but all of the arithmetic of the conversions. The library's
theorems on induction take an operator, which the provers cannot instantiate; `NatInSet` in `ListLemmas` is induction
for a set (it has no least number outside it), and from it follow that a recursion on the numbers has a value
everywhere (`NatRecursion`, `IntRecursion`) and only one (`RecursionUnique`), so that powers (`PowerSteps`,
`PowerSum`) and the numbers read from digits can be reasoned about for every length.

For `FailsWhenFalse` each kind of assertion has a lemma that sets its verdict against what it says: `NumberVerdict`,
`IntArrayVerdict`, `EachEqualVerdict`, `ArrayWithinVerdict`, `StringVerdict`, `StringArrayVerdict`, `MemoryVerdict`.
Those on numbers rest on how the casts nest: conversion to a `UNITY_INT` or less keeps a number modulo the shorter
size (`ValuesSplit`, `LowBytes`, `SameSigned`); a converted operand, ordered signed or unsigned as its style says, is
the value that the macro names (`OperandOrder`); the difference of two words, taken modulo the size of a `UNITY_INT`,
is that of the numbers so ordered (`WordsOrdered`); and the distance of two elements is that of their values and,
across the middle, what `Straddle` adds (`ElementsOrdered`). `ArrayWithinVerdict` then has three sets of places of an array: where
the framework finds a pair too far apart, where it is, and where it straddles; the second is in the first, and the
first in the second and third. That a search for a differing character, cell or byte
ends at the length and no further is in `StringsBegin` and `BytesIn`.

For `ReportShowsWhy` the digits of a number, each a remainder of a quotient, give the number back (`DigitsRead`, on
the recursion of `Number`), in tens as many as the first divisor leaves (`DecimalRead`), with a minus sign where there
is one (`SignedRead`), and in hexadecimal as many as the style has (`HexRead`). What is printed of an element is then
its value, or agrees with it modulo its size where the sign extension was left in (`ElementShown`), and the index
printed is that of the least pair that differs (`FirstDiffers`).

What stays with TLC: the five liveness properties, `Accepted`, `AllRead`, `GoneNoticed`, `QuitEnds` and `Delivered`
(fairness and ENABLED are beyond the prover), and the findings, which are counterexamples.

## 5. Not modelled

* Short sends and receives (`connect.c:8`, `connect.c:39`): the code keeps no count of what was sent or
  received and takes every part for a whole packet, so a model would be one of TCP and not of the code.
* The byte behind `buffer` that `wgetnstr` may write (`utils.c:9`): what it hits is up to the compiler.
* Failed allocations, other than that of `args->pfds`; the ways out before curses mode are in `Startup`.
* In `ui.c` and its callers: the one-line notices in INFO, the fixed text of USAGE and of the two full-screen
  pages, and changes of the screen's size, which the code does not handle.
* In Unity: assertions on bits, floats and doubles, the wording of reports, and the command line's filters,
  which the runner of the tests does not use. The unit tests themselves are data for `Calls`.
* `remove_trailing_whitespace`, which nothing calls.

Worth doing next: several connections per peer, so that the liveness of skipped slots can be asked under an
endless supply of hangups; and a stream of bytes between two instances, once the code counts what it sends.
