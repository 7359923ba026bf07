\* The replay memory holds one session_id: the second hello evicts the first.
SPECIFICATION Spec
CONSTANTS
    h1 = h1
    h2 = h2
    foreign = foreign
    c1 = c1
    c2 = c2
    c3 = c3
    None = None
    Hello <- MCHello
    Signed <- MCSigned
    Conn <- MCConn
    MAX_USED = 1
    MAX_SEQUENCE = 2
    ANSWERS = 1
SYMMETRY Symmetry
INVARIANTS
    OneLivePeer
PROPERTIES
    CommandsArriveInOrder
    AnswersArriveInOrder
