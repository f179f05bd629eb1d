SPECIFICATION Spec
CONSTANTS
    Sessions = {s1, s2}
    Names = {"a", "b"}
    First = "a"
    Nobody = nobody
    INPUT_BACKLOG = 2
    INPUT_BYTES = 1
    MaxTyped = 3
    MaxBreaks = 1
    MaxResumes = 1
    MaxChanges = 2
    MaxNodes = 2
INVARIANTS
    HoldsTogether
PROPERTIES
    StaysItsOwn
    NobodyIsStuck
CHECK_DEADLOCK FALSE
