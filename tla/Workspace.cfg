CONSTANTS
    c1 = c1
    c2 = c2
    c3 = c3
    Callers <- MCCallers
SYMMETRY MCSymmetry
SPECIFICATION WorkspaceSpec
INVARIANTS
    AnswersKept
    NothingIncomplete
