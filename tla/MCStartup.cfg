CONSTANTS
    USERNAME_LEN = 30
    Letters = {"x"}
    Addresses = {"ip"}
    Starts <- MCStarts
    MaxBlocks = 4
SPECIFICATION Spec
INVARIANTS
    TypeOK PortServed WindowsTile TerminalRestored FreedOnce LeftBehind
