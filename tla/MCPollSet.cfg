CONSTANTS
    Fds <- MCFds
    Flags <- MCFlags
SPECIFICATION Spec
INVARIANT TypeOK SlotsInv
PROPERTY ImplementsWatchSet
