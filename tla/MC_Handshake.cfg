SPECIFICATION Spec
CONSTANTS
    Iso20Sets = {"Dc", "Ac"}
    MaxSets = 3
    ForeignEntries <- MCForeignEntries
    MaxForeign = 3
INVARIANTS
    BestEntryWins
    SameReading
    CommonProtocolIsFound
CHECK_DEADLOCK FALSE
