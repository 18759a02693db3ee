SPECIFICATION Spec
CONSTANTS
    Heights = {1, 4}
    Maxima = {0, 2}
    Wheel = {1}
    AgeMod = 5
    MaxCalls = 6
INVARIANTS TypeOK ScrollerInRange
PROPERTIES ScrollerFollows OnlyScrollingTears
CHECK_DEADLOCK FALSE
