\* Two concurrent calls on the protection defaults and one source.
CONSTANTS
    Tasks = {t1, t2}
    Sources = {s1}
    KeyCount = 2
    Values = {0, 1}
    Initial <- MCInitial
    Overrides <- MCOverrides
    None = None
    AuditFails = TRUE
    MaxWrites = 3
SYMMETRY MCSymmetry
SPECIFICATION Spec
INVARIANTS
    SlotStaleOnlyIfSuspect
    EntryStaleOnlyIfSuspect
