\* Three consumers: one that holds, and two that take its file for stale.  Pids of
\* the dead may be in use again.
SPECIFICATION Spec
CONSTANTS
    Consumers = {c1, c2, c3}
    Nobody = nobody
    Gone = gone
    PidsAreReused = TRUE
    OpenFilesDeletable = FALSE
SYMMETRY Symmetry
INVARIANTS
    SingleUnlessBroken
    RefusedWithCause
