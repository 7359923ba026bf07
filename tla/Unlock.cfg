SPECIFICATION Spec
CONSTANTS
    Device = {d1}
    Key = {k1, k2}
    Admin = {a1, a2}
    Challenge = {c1, c2}
    Ticket = {t1, t2}
    TTL = 1
    TICKET_TTL = 1
    SKEW = 1
    MAX_PENDING = 1
    MAX_CONSUMED = 1
    HORIZON = 1
    None = None
CHECK_DEADLOCK FALSE
SYMMETRY Symmetry
INVARIANTS
    OneUnlockPerChallenge
    UnlocksAreAuthorized
PROPERTIES
    NoSilentReplacement
    TicketsAreOneUse
