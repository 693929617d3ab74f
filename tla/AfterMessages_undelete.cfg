\* A deletion overtaken by a change of date.
SPECIFICATION Spec
CONSTANTS
    Msgs = {m1}
    Calls = {c1, c2}
    Touched = {m1}
    MaxTime = 3
    Permissions = {TRUE}
PROPERTIES
    DeletedStaysDeleted
