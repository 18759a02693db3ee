SPECIFICATION Spec
CONSTANTS
    Line = {l1, l2, l3, l4, l5, l6}
    NULL = NULL
    Maxima = {0, 1, 3}
    Counts = {1, 2}
    Size_y = 2
    MaxId = 5
INVARIANTS LinesHaveOnePlace NumberedInOrder
PROPERTIES ImplementsScrollback
CHECK_DEADLOCK FALSE
