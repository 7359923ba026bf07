\* The agent is restarted once, and no line is held up.
SPECIFICATION UsbSpec
CONSTANTS
    RETRY = 1
    HEARTBEAT = 3
    SERVER_TIMEOUT = 5
    TTL = 3
    AUTH_TIMEOUT = 2
    SESSION_IDLE = 7
    MAX_AUTH_FAILURES = 3
    FAULTS = {"restart"}
    MAX_BREAKS = 1
    MAX_STALLS = 0
    QUEUE = 4
PROPERTY
    SignedLinkReconnects
