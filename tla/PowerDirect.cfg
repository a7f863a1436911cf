SPECIFICATION Spec
CONSTANTS
    Callers = {c1, c2}
    Direct = {c1, c2}
    Devices = {d1}
    Balanced = FALSE
    MaxRequests = 4
INVARIANT RefsNotNegative
\* Callers need not make requests.
CHECK_DEADLOCK FALSE
