\* The gateway: two connections compete for one place, and it is stopped at any
\* moment. The app: two connections in a row, or one over the rest of the other,
\* with a typed and a structured command.
SPECIFICATION PhoneSpec
CONSTANTS
    c1 = c1
    c2 = c2
    d1 = d1
    NoDevice = NoDevice
    Conn <- MCConn
    Device <- MCDevice
    MAX_CONNECTIONS = 1
    INBOX = 1
    MAX_CLIENTS = 2
    Text = {text}
    Structured = {tool}
    Confirm = Confirm
    None = None
INVARIANTS
    OldSessionStaysGone
    PreviewIsTrue
PROPERTIES
    AcceptedIsPaired
    RevokedIsClosed
    ClosingEnds
    AbandonedIsClosed
    ConnectingEnds
