\* One process, two batches: failing syscalls, crashes, meddling and interrupts.
SPECIFICATION Spec
CONSTANTS
    Writer = {w1}
    Target = {t1, t2}
    Absent = Absent
    Directory = Directory
    Original = Original
    Stranger = Stranger
    Empty = Empty
    Env = {"faults", "crash", "substitute", "directory", "interrupt",
           "interrupt_unwinding"}
    MaxRuns = 2
    MaxBatch = 2
    MaxMeddling = 2
SYMMETRY Symmetry
INVARIANTS TypeOK PriorKept RollbackReported InstalledWhole
CHECK_DEADLOCK FALSE
