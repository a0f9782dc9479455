SPECIFICATION EditorFairSpec
CONSTANTS
    Editor = {p1, p2}
    Entry = {d1, d2}
    NoFile = NoFile
    MaxOpens = 2
    MaxCalls = 3
    MaxReplaces = 1
    MaxKills = 1
    MaxLosses = 1
INVARIANTS
    WrittenIsDurable
    BackupRecoverable
CHECK_DEADLOCK FALSE
PROPERTIES
    EditsReturn
    ImplementsAtomicFile
