\* Two writers, an editor, a chmod, a settling sync provider, and staged names that others take over.
SPECIFICATION Spec
CONSTANTS
    Writer = {w1, w2}
    Editor = Editor
    Missing = Missing
    Garbage = Garbage
    Nothing = Nothing
    Env = {"edit", "chmod", "churn", "swap"}
    MaxRuns = 1
    MaxEdits = 1
    MaxChurn = 1
    MaxLosses = 0
    MaxSwaps = 1
INVARIANTS TypeOK SnapshotFaithful
PROPERTIES NoLostUpdate InitializeCreates StrangerSpared
CHECK_DEADLOCK FALSE
