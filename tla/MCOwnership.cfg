CONSTANTS
    Exec = {e1}
    Proc = {p1, p2}
    NoExec = NoExec
    Lease = 2
    MaxAttempts = 2
    MaxGen = 2
SPECIFICATION Spec
SYMMETRY Symmetry
INVARIANTS  LeaseSafety OutcomeTruthful
PROPERTIES LifecycleSpec
