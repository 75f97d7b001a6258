\* One call of each tool with every combination of arguments.
SPECIFICATION Spec
CONSTANTS
    Paths <- MCPaths
    Dirs <- MCDirs
    FileNames <- MCFileNames
    Switches <- MCSwitches
    Numbers <- MCNumbers
    Texts <- MCTexts
    Ports <- MCPorts
    NumberIds <- MCNumberIds
    TextIds <- MCTextIds
    Absent = Absent
    Refused = Refused
    NotText = NotText
    Old = Old
INVARIANTS
    IInv
    NamedPathsAreUsed
    RootIsSpared
    NoDefaultForChanges
    NewNameStaysInParent
    RuleOpensWhatWasAsked
PROPERTIES
    SettingsChangeAsGiven
    OtherObjectsStay
\* The system stops when the call has returned.
CHECK_DEADLOCK FALSE
