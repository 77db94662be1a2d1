SPECIFICATION Spec
CONSTANTS
    Wrap = 4
    MaxNow = 11
INVARIANTS
    NeverOverstated
    AbsenceNoticed
