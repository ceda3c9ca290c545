CONSTANTS
    c1 = c1
    c2 = c2
    k1 = k1
    k2 = k2
    k3 = k3
    codex = codex
    gemini = gemini
    r1 = r1
    r2 = r2
    r3 = r3
    Callers = {c1, c2}
    Policies = {codex, gemini}
    LaneCount = 2
    Commits <- MCCommits
    LaneOf <- MCLanes
    Sound = {k1, k2, k3}
    Based = {k1, k2, k3}
    Approvals = {1, 2}
    Reviews = {r1, r2, r3}
    OverlapBound = 1
SPECIFICATION Spec
SYMMETRY Symmetric
INVARIANTS
    HandoffTruthful
    BootstrapComplete
    SequentialDecisions
    OneCandidatePerLane
