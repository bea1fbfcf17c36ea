CONSTANTS
    null = null
    Nibble = 2
    IntBytes = 2
    WordBytes = 4
    MaxTests = 3
    Calls <- MCCalls
SPECIFICATION Spec
INVARIANTS
    TypeOK NothingAfterVerdict OneVerdict ReportShowsWhy
PROPERTY FailsWhenFalse
