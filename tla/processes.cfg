SPECIFICATION Spec
CONSTANTS
    Parts = {"games", "downloads", "release", "supervisor", "offline", "ttw"}
    a1 = a1
    a2 = a2
    None = None
SYMMETRY Symmetry
INVARIANTS
    DownloadsKept
    GamesApart
    VersionsWhole
    AnswersTrue
    TtwWhole
PROPERTIES
    OthersSpared
CHECK_DEADLOCK FALSE
