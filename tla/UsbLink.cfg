\* Two breaks at any moment and up to six ticks of stalls.
SPECIFICATION UsbSpec
CONSTANTS
    RETRY = 1
    HEARTBEAT = 3
    SERVER_TIMEOUT = 5
    TTL = 3
    AUTH_TIMEOUT = 2
    SESSION_IDLE = 7
    MAX_AUTH_FAILURES = 3
    FAULTS = {"restart", "unplug", "memory"}
    MAX_BREAKS = 2
    MAX_STALLS = 6
    QUEUE = 4
PROPERTIES
    SignedLinkRecovers
    EncryptedLinkIsStable
