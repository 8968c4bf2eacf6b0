SPECIFICATION FairSpec
CONSTANTS
    Procs = {p1, p2}
    Scopes = {dir, s1}
    Fallback = dir
    None = None
INVARIANTS SingleWriter NoOrphanLock
PROPERTIES ImplementsOwnership SoleSurvivorAcquires
CHECK_DEADLOCK FALSE
