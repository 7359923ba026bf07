------------------------------- MODULE League -------------------------------
(***************************************************************************)
(* The adapter of the League client (tools/league.py): the requests that   *)
(* start, cancel, watch and read matchmaking, and the one that opens the   *)
(* game, served by several threads of the agent at once while the player   *)
(* uses the same client.                                                   *)
(*                                                                         *)
(* One step of a thread is one call of the client's local API or one look  *)
(* at the list of processes. The client itself is external: it may close,  *)
(* fail a call after doing what it asked, or be in a state that the        *)
(* adapter does not know.                                                  *)
(***************************************************************************)
EXTENDS Naturals

CONSTANTS
    Worker,            \* threads that serve requests
    Queue,             \* QUEUE_IDS
    NoLobby,           \* the 404 of the lobby endpoint
    Nobody,            \* owner of a free lock
    START_TIMEOUT,     \* _CLIENT_START_TIMEOUT_SECONDS, in ticks
    MATCH_WAIT         \* MAX_MATCH_WAIT_SECONDS, in ticks

ASSUME LeagueConstants ==
    /\ NoLobby \notin Queue /\ Nobody \notin Worker
    /\ START_TIMEOUT \in Nat /\ MATCH_WAIT \in Nat \ {0}

VARIABLES
    client,     \* the League process: closed, starting or ready
    lobby,      \* the queue of the lobby
    search,     \* what the client does about matchmaking
    lock,       \* _MATCHMAKING_OPERATION_LOCK
    at,         \* where each thread is; "rest" and "failed" between requests
    job         \* its frame: the request (op, queue), the lobby it read (saw),
                \* whether its connection is that of the running client
                \* (conn), deadline - time.monotonic() down to zero (waits),
                \* and whether the client has changed by itself since the
                \* thread read it (moved, history)

clientVars == <<client, lobby, search>>
leagueVars == <<clientVars, lock, at, job>>

Ops == {"search", "cancel", "wait", "status", "open"}
\* In "entering" the client reports "searching": true beside a state of
\* _NOT_SEARCHING_STATES.
SearchStates == {"idle", "entering", "searching", "found", "strange"}
Running == {"entering", "searching"}
Done == {"rest", "failed"}
Locked == {"find", "launch", "await", "again", "lobby", "look", "create",
           "post", "verify", "before", "delete", "confirm"}
LeaguePlaces == Done \cup Locked \cup {"lock", "poll", "sleep"}

Frames == [op : Ops \cup {"none"}, queue : Queue \cup {NoLobby},
           saw : Queue \cup {NoLobby}, conn : BOOLEAN,
           waits : 0..(START_TIMEOUT + MATCH_WAIT), moved : BOOLEAN]

LeagueTypeOK ==
    /\ client \in {"closed", "starting", "ready"}
    /\ lobby \in Queue \cup {NoLobby} /\ search \in SearchStates
    /\ lock \in Worker \cup {Nobody}
    /\ at \in [Worker -> LeaguePlaces]
    /\ job \in [Worker -> Frames]

NoJob == [op |-> "none", queue |-> NoLobby, saw |-> NoLobby, conn |-> FALSE,
          waits |-> 0, moved |-> FALSE]

LeagueInit ==
    /\ client = "closed" /\ lobby = NoLobby /\ search = "idle"
    /\ lock = Nobody
    /\ at = [w \in Worker |-> "rest"] /\ job = [w \in Worker |-> NoJob]

-----------------------------------------------------------------------------
(* The client and its player *)

\* The threads whose reading the client makes stale.
Readers == {w \in Worker : at[w] \in {"look", "create", "post", "delete"}}
MovesOn == job' = [w \in Worker |-> [job[w] EXCEPT !.moved = @ \/ w \in Readers]]

ClientStarts ==
    /\ \/ client = "closed" /\ client' = "starting"
       \/ client = "starting" /\ client' = "ready"
    /\ UNCHANGED <<lobby, search, lock, at, job>>

\* Every connection dies with the process: port and token are its own.
ClientCloses ==
    /\ client # "closed" /\ client' = "closed"
    /\ lobby' = NoLobby /\ search' = "idle"
    /\ job' = [w \in Worker |-> [job[w] EXCEPT !.conn = FALSE,
                                              !.moved = @ \/ w \in Readers]]
    /\ UNCHANGED <<lock, at>>

PlayerChangesLobby ==
    /\ client = "ready" /\ search = "idle"
    /\ \E q \in Queue \cup {NoLobby} : q # lobby /\ lobby' = q
    /\ MovesOn
    /\ UNCHANGED <<client, search, lock, at>>

\* The player searches and cancels, a match is found, accepted or missed, and
\* a release of the client reports a state that the adapter does not map.
SearchMoves ==
    /\ client = "ready" /\ lobby # NoLobby
    /\ \E s \in SearchStates : s # search /\ search' = s
    /\ MovesOn
    /\ UNCHANGED <<client, lobby, lock, at>>

-----------------------------------------------------------------------------
(* Helpers *)

\* search_status: a call that fails is an endpoint that is not supported; a
\* found match and an unfamiliar state may come with "searching": true too.
Unsupported ==
    [supported |-> FALSE, searching |-> FALSE, found |-> FALSE,
     state |-> "unknown"]
Reading(s, flag) ==
    [supported |-> TRUE,
     searching |-> s \in Running \/ (s \in {"found", "strange"} /\ flag),
     found |-> s = "found",
     state |-> CASE s = "strange" -> "unknown"
                 [] s = "entering" -> "idle"
                 [] OTHER -> s]
SearchStatus(w) ==
    {Unsupported} \cup
    (IF job[w].conn THEN {Reading(search, flag) : flag \in BOOLEAN} ELSE {})

Goto(w, place) ==
    /\ at' = [at EXCEPT ![w] = place]
    /\ UNCHANGED lock

\* Leaving the method, normally or with an exception, leaves the with block.
Unlock(w) == IF lock = w THEN lock' = Nobody ELSE UNCHANGED lock
Answer(w, outcome) ==
    /\ at' = [at EXCEPT ![w] = outcome]
    /\ job' = [job EXCEPT ![w] = NoJob]
    /\ Unlock(w)

\* The thread goes on with the same frame, or it answers.
Proceed(w, place) ==
    IF place \in Done THEN Answer(w, place)
    ELSE Goto(w, place) /\ UNCHANGED job

-----------------------------------------------------------------------------
(* Requests, the lock and the discovery of the client *)

\* with_client_or_launch locks before it looks for the client; with_client
\* looks first and only cancel_search locks, later.
Request(w, o, q) ==
    /\ at[w] \in Done
    /\ job' = [job EXCEPT ![w].op = o,
                          ![w].queue = IF o = "search" THEN q ELSE NoLobby]
    /\ Goto(w, IF o = "search" THEN "lock"
               ELSE IF o = "open" THEN "launch" ELSE "find")
    /\ UNCHANGED clientVars

EnterAnyway(w) == TRUE
MayEnter(w) == lock = Nobody

Acquire(w) ==
    /\ at[w] = "lock" /\ MayEnter(w)
    /\ lock' = w
    /\ at' = [at EXCEPT ![w] = IF job[w].op = "search" THEN "find" ELSE "before"]
    /\ UNCHANGED <<clientVars, job>>

AfterFind(w) ==
    CASE job[w].op \in {"search", "status"} -> "lobby"
      [] job[w].op = "cancel" -> "lock"
      [] job[w].op = "wait" -> "poll"

\* find_client_connection.
FindClient(w) ==
    /\ at[w] = "find" /\ client = "ready"
    /\ job' = [job EXCEPT ![w].conn = TRUE,
                          ![w].waits = IF job[w].op = "wait" THEN MATCH_WAIT ELSE 0]
    /\ Goto(w, AfterFind(w))
    /\ UNCHANGED clientVars

NoClient(w) ==
    /\ at[w] = "find" /\ client # "ready"
    /\ Proceed(w, IF job[w].op = "search" THEN "launch" ELSE "failed")
    /\ UNCHANGED clientVars

\* open_league: the configured application is started, or it is missing,
\* disabled or cannot be started.
Launch(w) ==
    /\ at[w] = "launch"
    /\ client' = IF client = "closed" THEN "starting" ELSE client
    /\ job' = [job EXCEPT ![w].waits = START_TIMEOUT]
    /\ Goto(w, "await")
    /\ UNCHANGED <<lobby, search>>

LaunchFails(w) ==
    /\ at[w] = "launch"
    /\ Answer(w, "failed")
    /\ UNCHANGED clientVars

\* wait_for_client_connection, once in open_league and then, with a deadline
\* of its own, in _with_client_or_launch.
ClientOpened(w) ==
    /\ at[w] = "await" /\ client = "ready" /\ job[w].op = "open"
    /\ Answer(w, "rest")
    /\ UNCHANGED clientVars

ClientAppears(w) ==
    /\ at[w] = "await" /\ client = "ready" /\ job[w].op = "search"
    /\ job' = [job EXCEPT ![w].waits = START_TIMEOUT]
    /\ Goto(w, "again")
    /\ UNCHANGED clientVars

ClientStillThere(w) ==
    /\ at[w] = "again" /\ client = "ready"
    /\ job' = [job EXCEPT ![w].waits = 0, ![w].conn = TRUE]
    /\ Goto(w, "lobby")
    /\ UNCHANGED clientVars

WaitForever(w) == FALSE
OutOfTime(w) == job[w].waits = 0

ClientIsLate(w) ==
    /\ at[w] \in {"await", "again"} /\ client # "ready" /\ OutOfTime(w)
    /\ Answer(w, "failed")
    /\ UNCHANGED clientVars

-----------------------------------------------------------------------------
(* start_search, and status, which reads the same two endpoints *)

\* A call that the client does not answer, or, before the first one, a queue
\* that resolve_queue_id does not know: nothing was done.
CallFails(w) ==
    /\ at[w] \in {"lobby", "create", "post", "delete"}
    /\ Answer(w, "failed")
    /\ UNCHANGED clientVars

GetLobby(w) ==
    /\ at[w] = "lobby" /\ job[w].conn
    /\ job' = [job EXCEPT ![w].saw = lobby]
    /\ Goto(w, "look")
    /\ UNCHANGED clientVars

\* What start_search makes of the lobby and of the state of matchmaking.
Decision(w, s) ==
    IF ~s.supported \/ s.found \/ s.state = "unknown" THEN "failed"
    ELSE IF s.searching THEN "rest"
    ELSE IF job[w].saw = NoLobby THEN "create"
    ELSE IF job[w].saw = job[w].queue THEN "post" ELSE "failed"

LookAtSearch(w) ==
    /\ at[w] = "look"
    /\ \E s \in SearchStatus(w) :
          Proceed(w, IF job[w].op = "status" THEN "rest" ELSE Decision(w, s))
    /\ UNCHANGED clientVars

\* A POST or DELETE whose answer is lost has still been carried out.
CreateLobby(w) ==
    /\ at[w] = "create" /\ job[w].conn
    /\ lobby' = job[w].queue
    /\ \E next \in {"post", "failed"} : Proceed(w, next)
    /\ UNCHANGED <<client, search>>

PostSearch(w) ==
    /\ at[w] = "post" /\ job[w].conn
    /\ search' = IF search = "idle" /\ lobby # NoLobby
                 THEN "searching" ELSE search
    /\ \E next \in {"verify", "failed"} : Proceed(w, next)
    /\ UNCHANGED <<client, lobby>>

ConfirmsStart(s) == s.supported /\ s.searching

Verify(w) ==
    /\ at[w] = "verify"
    /\ \E s \in SearchStatus(w) :
          Answer(w, IF ConfirmsStart(s) THEN "rest" ELSE "failed")
    /\ UNCHANGED clientVars

-----------------------------------------------------------------------------
(* cancel_search *)

Before(w) ==
    /\ at[w] = "before"
    /\ \E s \in SearchStatus(w) :
          Proceed(w, IF ~s.supported \/ s.found \/ s.state = "unknown" THEN "failed"
                     ELSE IF s.searching THEN "delete" ELSE "rest")
    /\ UNCHANGED clientVars

DeleteSearch(w) ==
    /\ at[w] = "delete" /\ job[w].conn
    /\ search' = IF search \in Running \cup {"found"} THEN "idle" ELSE search
    /\ \E next \in {"confirm", "failed"} : Proceed(w, next)
    /\ UNCHANGED <<client, lobby>>

ConfirmsCancel(s) ==
    s.supported /\ s.state = "idle" /\ ~s.searching /\ ~s.found

ConfirmCancel(w) ==
    /\ at[w] = "confirm"
    /\ \E s \in SearchStatus(w) :
          Answer(w, IF ConfirmsCancel(s) THEN "rest" ELSE "failed")
    /\ UNCHANGED clientVars

-----------------------------------------------------------------------------
(* wait_for_match, outside the lock *)

Poll(w) ==
    /\ at[w] = "poll"
    /\ \E s \in SearchStatus(w) :
          Proceed(w, IF ~s.supported \/ s.state = "unknown" THEN "failed"
                     ELSE IF s.found \/ ~s.searching \/ OutOfTime(w) THEN "rest"
                     ELSE "sleep")
    /\ UNCHANGED clientVars

\* The clock, for every thread that sleeps or waits for the client.
Sleeping(w) == at[w] \in {"sleep", "await", "again"} /\ job[w].waits > 0
TimePasses ==
    /\ \E w \in Worker : Sleeping(w)
    /\ job' = [w \in Worker |->
                 IF Sleeping(w) THEN [job[w] EXCEPT !.waits = @ - 1] ELSE job[w]]
    /\ at' = [w \in Worker |-> IF at[w] = "sleep" THEN "poll" ELSE at[w]]
    /\ UNCHANGED <<clientVars, lock>>

-----------------------------------------------------------------------------
Step(w) ==
    \/ Acquire(w) \/ FindClient(w)
    \/ NoClient(w) \/ Launch(w) \/ LaunchFails(w) \/ ClientOpened(w)
    \/ ClientAppears(w) \/ ClientStillThere(w) \/ ClientIsLate(w)
    \/ CallFails(w) \/ GetLobby(w) \/ LookAtSearch(w)
    \/ CreateLobby(w) \/ PostSearch(w) \/ Verify(w)
    \/ Before(w) \/ DeleteSearch(w) \/ ConfirmCancel(w)
    \/ Poll(w)

Player == ClientStarts \/ ClientCloses \/ PlayerChangesLobby \/ SearchMoves

LeagueNext ==
    \/ Player \/ TimePasses
    \/ \E w \in Worker :
          \/ Step(w)
          \/ \E o \in Ops, q \in Queue : Request(w, o, q)

\* The threads run and time passes; nothing is assumed of the player, of the
\* client or of who gets the lock first.
LeagueFairness ==
    /\ WF_leagueVars(TimePasses)
    /\ \A w \in Worker : WF_leagueVars(Step(w))

LeagueSpec == LeagueInit /\ [][LeagueNext]_leagueVars /\ LeagueFairness

-----------------------------------------------------------------------------
(* Properties *)

\* Matchmaking is started only in a lobby of the queue that was confirmed and
\* only while nothing is being searched, and only a running search is
\* cancelled, unless the client moved by itself after the thread read it: two
\* requests of the agent never act on each other's stale reading.
ActsOnWhatItSaw ==
    [][\A w \in Worker :
         /\ at[w] = "post" /\ search' # search /\ at'[w] # "post" /\ ~job[w].moved
              => search = "idle" /\ lobby = job[w].queue
         /\ at[w] = "delete" /\ search' # search /\ at'[w] # "delete" /\ ~job[w].moved
              => search \in Running]_leagueVars

\* Every request ends and gives the lock of confirmed operations back, whatever
\* the client does and on every error path, except while it queues for that
\* lock: both waits for the client and the watch for a match are bounded.
RequestsEnd ==
    \A w \in Worker : (at[w] \notin Done \cup {"lock"})
                        ~> (at[w] \in Done \cup {"lock"} /\ lock # w)

-----------------------------------------------------------------------------
(* The inductive invariant *)

\* Which requests pass through which places.
Passes(place, op) ==
    /\ place \in {"again", "create", "post", "verify"} => op = "search"
    /\ place \in {"lobby", "look"} => op \in {"search", "status"}
    /\ place \in {"before", "delete", "confirm"} => op = "cancel"
    /\ place = "lock" => op \in {"search", "cancel"}
    /\ place \in {"launch", "await"} => op \in {"search", "open"}
    /\ place = "find" => op \in {"search", "cancel", "wait", "status"}
    /\ place \in {"poll", "sleep"} => op = "wait"
PlacesInv == \A w \in Worker : Passes(at[w], job[w].op)

\* A confirmed operation has the lock from its first reading to its last.
Confirmed(place, op) ==
    \/ op = "search" /\ place \in Locked
    \/ place \in {"before", "delete", "confirm"}
LockInv == \A w \in Worker : Confirmed(at[w], job[w].op) => lock = w

\* As long as the client does not move by itself, what a confirmed operation
\* read is what the client is in.
StillTrue(place, frame, l, s) ==
    /\ place = "look" /\ frame.op = "search" => l = frame.saw
    /\ place \in {"create", "post"} => s = "idle"
    /\ place = "post" => l = frame.queue
    /\ place = "delete" => s \in Running
ReadingInv ==
    \A w \in Worker : ~job[w].moved => StillTrue(at[w], job[w], lobby, search)

LeagueInv == LeagueTypeOK /\ PlacesInv /\ LockInv /\ ReadingInv
=============================================================================
