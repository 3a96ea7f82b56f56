\* Two ranges, so that a final's path can be left and come back, and the path of
\* the slicer's own clip; the upload database may be unreadable at any time.
SPECIFICATION Spec
CONSTANTS
    Ranges = {r1, r2}
    Styles = {y1}
    Texts = {t1}
    FirstRange = r1
    FirstStyle = y1
    OnSharedMount = TRUE
CONSTRAINT Sighted
INVARIANTS
    StagedIsKnown
    OneFinalAwaits
PROPERTIES
    ActivatedAsSeen
    UntouchedInFlight
    ApprovedIsFrozen
CHECK_DEADLOCK FALSE
