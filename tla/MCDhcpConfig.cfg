\* Two overlapping tool calls on one boot field, one other field, two options.
SPECIFICATION Spec
CONSTANTS
    Callers = {a, b}
    BootFields = {"boot_file"}
    MainFields = {"range"}
    Vals = {v1, v2}
    Ids = {i1, i2}
    Zero = v1
    Ignored = Ignored
INVARIANTS
    IInv
    OneEntryPerOption
PROPERTIES
    UndoesOnlyWhatItOverlaps
    OptionToolsKeepMainFields
    ReportsAreTrue
\* The system stops when both calls have returned.
CHECK_DEADLOCK FALSE
