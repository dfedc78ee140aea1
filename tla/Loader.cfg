\* Two runs with any manifests; in any run file operations may fail, the service
\* may hang. The runs end: deadlock is not checked.
SPECIFICATION FairSpec
CONSTANTS
    Names = {"old", "new", "odd"}
    Malformed = {"odd"}
    Manifests <- MCManifests
    Parts = {p1, p2}
    NoPart = NoPart
    MaxRuns = 2
CHECK_DEADLOCK FALSE
INVARIANT OkMeansExact
PROPERTIES NeverInstallsCorrupt RunsEndClean CancelEnds
