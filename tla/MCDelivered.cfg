CONSTANTS
    c1 = c1  c2 = c2  c3 = c3  a = a  b = b  d = d  null = null  none = none  wild = wild
    Conns = {c1, c2}
    Fds = {1000, 1001}
    Cells = {a, b}
    Names = {100}
    DefaultName <- MCSharedName
    Bodies = {"x", "y"}
    NoClient = null
    NoConn = none
    Wild = wild
    MaxLines = 2
    MaxPackets = 0
    Room = 1
SPECIFICATION FairSpec
PROPERTIES
    QuitEnds Delivered
