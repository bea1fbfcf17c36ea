CONSTANTS
    null = null
    wild = wild
    HISTORY_OFFSET = 1
    USERNAME_LEN = 4
    Letters <- MCLetters
    Addresses = {"ip"}
    Fds = {100, 101, 1000}
    NoClient = null
    Wild = wild
    WIDTH = 8
    Typable <- MCTypable
    Received <- MCReceived
    MaxTyped = 2
    MaxEntries = 4
SPECIFICATION Spec
INVARIANTS
    TypeOK ListShown HistoryShown WindowFollowsActive SameNameHasACause
PROPERTY NewcomerActive
