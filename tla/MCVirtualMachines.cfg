\* Two overlapping tool calls on one machine, its disk and two waiting disk tasks.
SPECIFICATION Spec
CONSTANTS
    Callers = {c1, c2}
    Disks = {d1}
    MaxVms = 1
    MaxSize = 1
    MaxTasks = 2
SYMMETRY Symmetry
INVARIANTS
    IInv
    UpdatesAddUp
PROPERTIES
    ShrinksOnlyIfAllowed
    SteadyMachinesAreSpared
