SPECIFICATION Spec
CONSTANTS
    Constructs = {"while", "for", "if", "case", "not", "andor", "function", "eval", "dot", "subshell"}
    MaxDepth = 2
    MaxCount = 2
    MaxSignals = 1
INVARIANT ErrorStatus
CHECK_DEADLOCK FALSE
