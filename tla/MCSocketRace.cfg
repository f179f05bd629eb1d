SPECIFICATION Spec
CONSTANTS
    Daemons = {d1, d2, d3}
    Clients = {c1, c2}
    Old = {d1}
    AtOnce = 2
PROPERTIES
    NeverOneInUse
CHECK_DEADLOCK FALSE
