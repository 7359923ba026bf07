\* Two transports and two devices that share tables with room for one session
\* of each and one pending confirmation: every refusal happens.
SPECIFICATION Spec
CONSTANTS
    Thread = {t1, t2}
    Device = {d1, d2}
    Session = {s1, s2, s3}
    Confirmation = {c1}
    None = None
    MAX_SESSIONS = 2
    MAX_SESSIONS_PER_DEVICE = 1
    MAX_SESSION_IDLE = 1
    TTL = 1
    MAX_PENDING = 1
    MAX_PENDING_PER_OWNER = 1
SYMMETRY Symmetry
INVARIANTS
    PendingIsAsked
    RunsAtMostOnce
    UiInSync
PROPERTIES
    ConfirmationIsOneUse
    OnlyIdleSessionsAreDropped
