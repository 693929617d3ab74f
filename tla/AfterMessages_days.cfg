\* Two messages, two calls that may overlap on the one the user touches again;
\* every death is followed by another start, some of them with the permission.
SPECIFICATION FairSpec
CONSTANTS
    Msgs = {m1, m2}
    Calls = {c1, c2}
    Touched = {m1}
    MaxTime = 2
    Permissions = {TRUE, FALSE}
INVARIANTS
    TypeOK
    SealedHasReminder
    OpenedOnTime
PROPERTIES
    DueArrives
    OpenedIsFinal
    DeletionIsFinal
    OneDateChange
