\* Two boxes, packets of up to three records, a scan of three ticks.
SPECIFICATION Spec
CONSTANTS
    box1 = box1
    box2 = box2
    Boxes <- MCBoxes
    HttpsPort <- MCHttpsPort
    Timeout = 3
    MaxRecords = 3
    Default = Default
    Given = Given
    None = None
INVARIANTS
    IInv
    BestHostIsUsed
    PortBelongsToHost
    AnnouncedPortIsUsed
PROPERTIES
    ScanEnds
\* A command that is ready goes on in Startup.
CHECK_DEADLOCK FALSE
