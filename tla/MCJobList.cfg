SPECIFICATION Spec
CONSTANTS
    p1 = p1
    p2 = p2
    p3 = p3
    p4 = p4
    None = None
    Pid = {p1,p2,p3}
    Forks = TRUE
SYMMETRY Symmetry
INVARIANT SuspendedFirst
