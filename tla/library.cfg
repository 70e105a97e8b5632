SPECIFICATION Spec
CONSTANTS
    Parts = {"library", "deps", "links", "tree", "manifests", "rows", "installs"}
    a1 = a1
    a2 = a2
    p1 = p1
    p2 = p2
    None = None
SYMMETRY Symmetry
INVARIANTS
    Deployed
    RequestsServed
    TreeAsLayered
    ReportsTrue
    InstallsTrue
    CacheIsTrue
PROPERTIES
    WorkSurvives
CHECK_DEADLOCK FALSE
