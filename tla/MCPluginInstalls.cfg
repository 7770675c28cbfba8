\* Two calls at a time, two installs one after the other.
SPECIFICATION Spec
CONSTANTS
    Ids = {i1, i2}
    Creds = {k1, k2}
    Reminders = {r1}
    Calls = {c1, c2}
    None = None
SYMMETRY Symmetry
INVARIANTS
    SetupIsTruthful
    NoOrphanCredential
    UninstallSweeps
CHECK_DEADLOCK FALSE
