\* An interrupt between the rename of a target and its bookkeeping.
SPECIFICATION Spec
CONSTANTS
    Writer = {w1}
    Target = {t1, t2}
    Absent = Absent
    Directory = Directory
    Original = Original
    Stranger = Stranger
    Empty = Empty
    Env = {"interrupt"}
    MaxRuns = 1
    MaxBatch = 2
    MaxMeddling = 0
SYMMETRY Symmetry
INVARIANTS InterruptLosesNothing
CHECK_DEADLOCK FALSE
