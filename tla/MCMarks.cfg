CONSTANTS
    c1 = c1  c2 = c2  c3 = c3  a = a  b = b  d = d  null = null  none = none  wild = wild
    Conns = {c1, c2, c3}
    Fds = {4, 5}
    Cells = {a, b}
    Names = {4, 5}
    DefaultName <- MCDefaultName
    Bodies = {"x"}
    NoClient = null
    NoConn = none
    Wild = wild
    MaxLines = 1
    MaxPackets = 1
    Room = 1
SPECIFICATION Spec
INVARIANTS
    TypeOK PointersListed NothingMissed HistoryIsLog FailureHasACause
PROPERTY DroppedOnlyWhenGone
SYMMETRY MCSymmetry
