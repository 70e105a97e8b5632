SPECIFICATION Spec
CONSTANTS
    Parts = {"root", "smapi", "config", "swap", "tools", "copyup", "undone", "thrice", "move", "extender"}
    o1 = o1
    o2 = o2
    None = None
    Unknown = Unknown
SYMMETRY Symmetry
INVARIANTS
    RestIsWhole
    WorkKept
    RunsWhole
PROPERTIES
    ChangesAtomically
    FilesKept
    ReportsHold
CHECK_DEADLOCK FALSE
