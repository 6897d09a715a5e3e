\* Two writers that crash, whose syscalls fail, whose lock file is replaced, on
\* a host that loses power.
SPECIFICATION FairSpec
CONSTANTS
    Writer = {w1, w2}
    Editor = Editor
    Missing = Missing
    Garbage = Garbage
    Nothing = Nothing
    Env = {"crash", "power", "faults", "lock"}
    MaxRuns = 1
    MaxEdits = 0
    MaxChurn = 0
    MaxLosses = 1
    MaxSwaps = 1
INVARIANTS DurableSurvives NeverTorn BackupHoldsInput ReportsTruthful LockExcludes
PROPERTIES RegisterSpec EveryTransactionEnds
CHECK_DEADLOCK FALSE
