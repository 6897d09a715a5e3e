\* One writer whose syscalls fail, cleanup's among them.
SPECIFICATION Spec
CONSTANTS
    Writer = {w1}
    Editor = Editor
    Missing = Missing
    Garbage = Garbage
    Nothing = Nothing
    Env = {"faults"}
    MaxRuns = 1
    MaxEdits = 0
    MaxChurn = 0
    MaxLosses = 0
    MaxSwaps = 0
INVARIANTS LitterReported
CHECK_DEADLOCK FALSE
