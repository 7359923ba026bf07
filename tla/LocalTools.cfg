\* One of the five parts moves; the audio stops once its bridge is closed and its
\* frames are sealed.
CHECK_DEADLOCK FALSE
SPECIFICATION Spec
CONSTANTS
    Worker = {w1, w2}
    Queue = {q1, q2}
    NoLobby = NoLobby
    Nobody = Nobody
    START_TIMEOUT = 1
    MATCH_WAIT = 1
    MAX_TIMERS_DRAWN = 4
    MAX_ACTIVE_TIMERS = 2
    MAX_TIMER_RECORDS = 2
    App = {a1, a2}
    NoApp = NoApp
    Nickname = {n1}
    Writer = {p1, p2}
    Phone = {f1, f2}
    NoPhone = NoPhone
    StreamId = {s1, s2}
    MAX_AUDIO_CHUNKS = 3
    SENDERS = 3
    FRAMES = 5
    None = None
INVARIANTS LabelsAreUnambiguous SentAsConfirmed SentWhileOn
    CommandsAreWholeStreams CaptureStartsClean
PROPERTIES ActsOnWhatItSaw RequestsEnd OneOutcome OthersAreKept
