\* Two connections race for two challenges; the memory of
\* consumed challenges holds one.
SPECIFICATION Spec
CONSTANTS
    WebSocket = {}
    Serial = {u1, u2}
    Device = {d1, d2}
    Challenge = {c1, c2}
    None = None
    TTL = 1
    MAX_PENDING = 2
    MAX_PENDING_PER_DEVICE = 1
    MAX_CONSUMED = 1
    MAX_AUTH_FAILURES = 2
    MAX_PROTOCOL_ERRORS = 1
    AUTH_TIMEOUT = 1
    SESSION_IDLE = 1
SYMMETRY Symmetry
INVARIANTS
    RedeemedOnlySigned
PROPERTY ChallengeIsOneUse
