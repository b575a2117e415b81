SPECIFICATION MCSpec
CONSTANTS
    Callers = {c1}
    Installers = {i1,i2}
    Watch = watch
    Causes = {"LocalRevoke"}
    CheckInterval = 2
    MaxTime = 4
    None = None
INVARIANTS
    CauseIsNamed
    FenceNeverMissed
    ParkedIsArmed
PROPERTY
    StopEndsWatch
