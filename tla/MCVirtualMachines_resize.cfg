\* A machine started between the GET and the POST of a resize.
SPECIFICATION Spec
CONSTANTS
    Callers = {c1, c2}
    Disks = {d1}
    MaxVms = 1
    MaxSize = 1
    MaxTasks = 1
SYMMETRY Symmetry
PROPERTIES
    ResizeRefusedWhileRunning
