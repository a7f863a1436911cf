SPECIFICATION Spec
CONSTANTS
    none = none
    c1 = c1
    c2 = c2
INVARIANTS
    BusExclusive
    BusAgrees
    CardFound
PROPERTIES
    CardServed
\* A detection ends, and clients need not read.
CHECK_DEADLOCK FALSE
