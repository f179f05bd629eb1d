SPECIFICATION Spec
CONSTANTS
    Session = {1, 2}
    Host = {1, 2}
    Name = {a, b}
    Group = {g}
    First = 1
    StartHost = 1
    StartName = a
    StartGroup = g
    MaxChanges = 2
    NoGroup = NoGroup
    Nowhere = Nowhere
PROPERTY SeededIsShown
CHECK_DEADLOCK FALSE
