CONSTANTS
    Threads = {t1, t2}
    NoThread = NoThread
    WindowSize = 1
    ErrorThreshold = 50
    HalfOpenMaxRequests = 2
    RecoveryMs = 1
    GuardMs = 1
    MaxCasAttempts = 1
SPECIFICATION FairSpec
INVARIANTS ErrorCountExact ProbesBelowMax ReservationIsStamped
PROPERTIES OpenIsLeft KeepsAdmitting
