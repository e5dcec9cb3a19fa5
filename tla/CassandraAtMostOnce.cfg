SPECIFICATION Spec
CONSTANTS
    a = a
    b = b
    r1 = r1
    p1 = p1
    p2 = p2
    None = None
    Op = {a, b}
    Record = {r1}
    Selected <- MCSelected
    Proc = {p1, p2}
    MaxTries = 2
SYMMETRY MCSymmetry
CHECK_DEADLOCK FALSE
INVARIANT
    AppliedAtMostOnce
