SPECIFICATION Spec
INVARIANTS
    PowerFollowsPaths
    FramesKept
PROPERTIES
    EndsAtLast
\* Clients need not call.
CHECK_DEADLOCK FALSE
