\* A full table: sweeps and evictions.
SPECIFICATION Spec
CONSTANTS
    Emails = {e1, e2, e3, e4, e5}
    MaxTracked = 4
    MaxFailures = 2
    Lockout = 2
    MaxMade = 8
SYMMETRY Addresses
INVARIANTS
    TypeOK
    TrackedBounded
PROPERTIES
    LockoutKept
