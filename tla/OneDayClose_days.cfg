\* Up to three handlers at once over a morning and a restart.
SPECIFICATION Spec
CONSTANTS
    Phrases = {p1, p2, p3}
    Calls = {c1, c2, c3}
    MaxDay = 2
    MaxStarts = 2
SYMMETRY Symmetry
INVARIANTS
    TypeOK
    OneDayOnly
    ShownIsKept
    ShowsToday
PROPERTIES
    TodayIsKept
