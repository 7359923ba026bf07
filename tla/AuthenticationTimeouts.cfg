\* A WebSocket and a serial connection, one challenge, every message at any
\* time: is an unauthenticated connection always closed?
SPECIFICATION FairSpec
CONSTANTS
    WebSocket = {ws}
    Serial = {usb}
    Device = {d1}
    Challenge = {c1}
    None = None
    TTL = 1
    MAX_PENDING = 1
    MAX_PENDING_PER_DEVICE = 1
    MAX_CONSUMED = 1
    MAX_AUTH_FAILURES = 2
    MAX_PROTOCOL_ERRORS = 2
    AUTH_TIMEOUT = 2
    SESSION_IDLE = 2
PROPERTY EventuallyDecided
