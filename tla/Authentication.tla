--------------------------- MODULE Authentication ---------------------------
(***************************************************************************)
(* How a v1 connection becomes a session: the one-time challenges of       *)
(* AuthorizationVerifier (trusted_unlock_protocol.py) and the life of an   *)
(* AuthenticatedConnection (connection.py) as the WebSocket endpoint and   *)
(* the serial gateway drive it.                                            *)
(*                                                                         *)
(* A hello may be repeated, delayed, sent on another connection or carry a *)
(* signature that nobody made. The verifier's lock makes one step of every *)
(* call, but verify_response reads the clock before it locks, and the      *)
(* session is created after it unlocked.                                   *)
(***************************************************************************)
EXTENDS Integers, FiniteSets, Sequences, SequencesExt

CONSTANTS
    WebSocket,              \* connections of /pipa/ws
    Serial,                 \* connections of the serial gateway
    Device,
    Challenge,              \* challenge_id values (secrets.token_bytes)
    None,
    TTL,                    \* DEFAULT_TTL_SECONDS, in ticks
    MAX_PENDING,            \* MAX_PENDING_CHALLENGES
    MAX_PENDING_PER_DEVICE,
    MAX_CONSUMED,           \* MAX_CONSUMED_CHALLENGES
    MAX_AUTH_FAILURES,
    MAX_PROTOCOL_ERRORS,
    AUTH_TIMEOUT,           \* AUTHENTICATION_TIMEOUT_SECONDS, in ticks
    SESSION_IDLE            \* SESSION_IDLE_SECONDS, in ticks

Connection == WebSocket \cup Serial

ASSUME AuthConstants ==
    /\ WebSocket \cap Serial = {}
    /\ None \notin Device
    /\ \A n \in {TTL, MAX_CONSUMED, MAX_AUTH_FAILURES, MAX_PROTOCOL_ERRORS,
                AUTH_TIMEOUT, SESSION_IDLE} :
          n \in Nat \ {0}
    /\ MAX_PENDING \in Nat /\ MAX_PENDING_PER_DEVICE \in Nat

VARIABLES
    trusted,    \* _trusted_devices
    pending,    \* keys of _pending
    consumed,   \* keys of _consumed, in insertion order
    issued,     \* challenges created so far
    device,     \* Challenge.device_id
    left,       \* expires_at - now, down to zero
    signed,     \* challenges their own device has signed
    up,         \* the connection is open
    session,    \* device of the connection's session_id
    failures,   \* auth_failures
    errors,     \* protocol_errors: messages in a row that did not parse
    cooling,    \* less than MIN_CHALLENGE_INTERVAL_SECONDS since a challenge
    age,        \* now - connected_at, up to AUTH_TIMEOUT
    quiet,      \* now - last_activity_at, where a timeout reads it
    pc,         \* "rest", in verify_response, or about to create the session
    hello,      \* the hello being verified
    redeemedBy, \* device a challenge authorized (history)
    opened      \* sessions a challenge opened (history)

verifierVars   == <<trusted, pending, consumed, issued, device, left>>
connectionVars == <<up, session, failures, errors, cooling, age, quiet>>
frameVars      == <<pc, hello>>
historyVars    == <<redeemedBy, opened>>
vars == <<verifierVars, signed, connectionVars, frameVars, historyVars>>

\* A hello with what verify_response made of the clock: the challenges that had
\* expired when it read it.
Hellos == [id : Challenge, device : Device, genuine : BOOLEAN,
           late : SUBSET Challenge]

TypeOK ==
    /\ trusted \subseteq Device
    /\ pending \subseteq issued /\ issued \subseteq Challenge
    /\ consumed \in Seq(issued)
    /\ device \in [Challenge -> Device \cup {None}]
    /\ left \in [Challenge -> 0..TTL]
    /\ signed \subseteq issued
    /\ up \subseteq Connection
    /\ session \in [Connection -> Device \cup {None}]
    /\ failures \in [Connection -> 0..(MAX_AUTH_FAILURES - 1)]
    /\ errors \in [Connection -> 0..(MAX_PROTOCOL_ERRORS - 1)]
    /\ cooling \in [Connection -> BOOLEAN]
    /\ age \in [Connection -> 0..AUTH_TIMEOUT]
    /\ quiet \in [Connection -> Nat]
    /\ pc \in [Connection -> {"rest", "verify", "create"}]
    /\ hello \in [Connection -> Hellos \cup {None}]
    /\ redeemedBy \in [Challenge -> Device \cup {None}]
    /\ opened \in [Challenge -> Nat]

Init ==
    /\ trusted = Device
    /\ pending = {} /\ consumed = <<>> /\ issued = {} /\ signed = {}
    /\ device = [c \in Challenge |-> None]
    /\ left = [c \in Challenge |-> 0]
    /\ up = {}
    /\ session = [k \in Connection |-> None]
    /\ failures = [k \in Connection |-> 0]
    /\ errors = [k \in Connection |-> 0]
    /\ cooling = [k \in Connection |-> FALSE]
    /\ age = [k \in Connection |-> 0]
    /\ quiet = [k \in Connection |-> 0]
    /\ pc = [k \in Connection |-> "rest"]
    /\ hello = [k \in Connection |-> None]
    /\ redeemedBy = [c \in Challenge |-> None]
    /\ opened = [c \in Challenge |-> 0]

-----------------------------------------------------------------------------
(* The connection *)

\* The transport's finally clause: close() ends the session; the next
\* connection starts with a new AuthenticatedConnection.
Drop(k) ==
    /\ up' = up \ {k}
    /\ session' = [session EXCEPT ![k] = None]
    /\ failures' = [failures EXCEPT ![k] = 0]
    /\ errors' = [errors EXCEPT ![k] = 0]
    /\ cooling' = [cooling EXCEPT ![k] = FALSE]
    /\ age' = [age EXCEPT ![k] = 0]
    /\ quiet' = [quiet EXCEPT ![k] = 0]

\* The WebSocket endpoint asks idle() after every message it processed; the
\* serial loop asks before every read.
IdleAfterProcess(k) == k \in WebSocket /\ session[k] = None /\ age[k] >= AUTH_TIMEOUT

\* A message was processed and the connection goes on, or is found idle. Every
\* message that parses resets protocol_errors.
Answer(k, limited) ==
    IF IdleAfterProcess(k) THEN Drop(k)
    ELSE /\ quiet' = [quiet EXCEPT ![k] = 0]
         /\ errors' = [errors EXCEPT ![k] = 0]
         /\ cooling' = [cooling EXCEPT ![k] = limited]
         /\ UNCHANGED <<up, session, failures, age>>

\* _authentication_failure: the third one closes the connection. The rate limit
\* is left as the caller set it.
TooManyFailures(n) == n >= MAX_AUTH_FAILURES

AuthenticationFailure(k, limited) ==
    IF TooManyFailures(failures[k] + 1) \/ IdleAfterProcess(k) THEN Drop(k)
    ELSE /\ failures' = [failures EXCEPT ![k] = @ + 1]
         /\ cooling' = [cooling EXCEPT ![k] = limited]
         /\ quiet' = [quiet EXCEPT ![k] = 0]
         /\ errors' = [errors EXCEPT ![k] = 0]
         /\ UNCHANGED <<up, session, age>>

Resting(k) == k \in up /\ pc[k] = "rest"

Open(k) ==
    /\ k \notin up
    /\ up' = up \cup {k}
    /\ UNCHANGED <<verifierVars, signed, session, failures, errors, cooling, age,
                   quiet, frameVars, historyVars>>

\* The peer goes away or the agent stops.
Disconnect(k) ==
    /\ Resting(k)
    /\ Drop(k)
    /\ UNCHANGED <<verifierVars, signed, frameVars, historyVars>>

\* Serial: idle() before the next read. WebSocket: wait_for gave up on the
\* next message, with the limit of the phase the connection is in.
TimedOut(k) ==
    \/ session[k] # None /\ quiet[k] >= SESSION_IDLE
    \/ session[k] = None /\ k \in Serial /\ age[k] >= AUTH_TIMEOUT
    \/ session[k] = None /\ k \in WebSocket /\ quiet[k] >= AUTH_TIMEOUT

IdleClose(k) ==
    /\ Resting(k) /\ TimedOut(k)
    /\ Drop(k)
    /\ UNCHANGED <<verifierVars, signed, frameVars, historyVars>>

\* Any message of an authenticated connection (core.handle, module PipaCore, or
\* already_authenticated), and anything but a hello or a challenge_request on
\* one that is not (authentication_required); also rate_limited.
Message(k) ==
    /\ Resting(k)
    /\ Answer(k, cooling[k])
    /\ UNCHANGED <<verifierVars, signed, frameVars, historyVars>>

\* A message that does not parse: it restarts the wait of the WebSocket but is
\* not activity, and nobody asks idle() after it.
ErrorsUncounted(k) == 0
ErrorCount(k) == errors[k] + 1

ProtocolError(k) ==
    /\ Resting(k)
    /\ IF ErrorCount(k) >= MAX_PROTOCOL_ERRORS THEN Drop(k)
       ELSE /\ errors' = [errors EXCEPT ![k] = ErrorCount(k)]
            /\ quiet' = [quiet EXCEPT ![k] = IF k \in WebSocket THEN 0 ELSE @]
            /\ UNCHANGED <<up, session, failures, cooling, age>>
    /\ UNCHANGED <<verifierVars, signed, frameVars, historyVars>>

-----------------------------------------------------------------------------
(* AuthorizationVerifier.create_challenge *)

Expired == {c \in issued : left[c] = 0}

\* _prune: both tables lose what had expired at the time given.
PrunedConsumed(expired) == SelectSeq(consumed, LAMBDA c : c \notin expired)

HasRoom(d) ==
    LET kept == pending \ Expired IN
    /\ Cardinality(kept) < MAX_PENDING
    /\ Cardinality({c \in kept : device[c] = d}) < MAX_PENDING_PER_DEVICE

CreateChallenge(d) ==
    /\ d \in trusted /\ HasRoom(d)
    /\ \E c \in Challenge \ issued :
          /\ pending' = (pending \ Expired) \cup {c}
          /\ issued' = issued \cup {c}
          /\ device' = [device EXCEPT ![c] = d]
          /\ left' = [left EXCEPT ![c] = TTL]
    /\ consumed' = PrunedConsumed(Expired)
    /\ UNCHANGED trusted

RefuseChallenge(d) ==
    /\ d \notin trusted \/ ~HasRoom(d)
    /\ pending' = pending \ Expired
    /\ consumed' = PrunedConsumed(Expired)
    /\ UNCHANGED <<trusted, issued, device, left>>

\* AuthenticatedConnection._challenge, past the rate limit.
ChallengeRequest(k) ==
    /\ Resting(k) /\ session[k] = None /\ ~cooling[k]
    /\ \E d \in Device : CreateChallenge(d)
    /\ Answer(k, TRUE)
    /\ UNCHANGED <<signed, frameVars, historyVars>>

ChallengeRefused(k) ==
    /\ Resting(k) /\ session[k] = None /\ ~cooling[k]
    /\ \E d \in Device : RefuseChallenge(d)
    /\ AuthenticationFailure(k, TRUE)
    /\ UNCHANGED <<signed, frameVars, historyVars>>

\* POST /pipa/challenge: a challenge without a connection.
HttpChallenge ==
    /\ \E d \in Device : CreateChallenge(d) \/ RefuseChallenge(d)
    /\ UNCHANGED <<signed, connectionVars, frameVars, historyVars>>

-----------------------------------------------------------------------------
(* hello: PipaCore.authenticate and verify_response *)

\* The device that a challenge names signs it (sendSignedHello); the signature
\* can then travel in any number of hellos.
Sign(c) ==
    /\ c \in issued
    /\ signed' = signed \cup {c}
    /\ UNCHANGED <<verifierVars, connectionVars, frameVars, historyVars>>

\* verify_response reads the clock.
Hello(k) ==
    /\ Resting(k) /\ session[k] = None
    /\ \E c \in Challenge, d \in Device, genuine \in BOOLEAN :
          /\ genuine => c \in signed
          /\ hello' = [hello EXCEPT ![k] = [id |-> c, device |-> d,
                          genuine |-> genuine, late |-> Expired]]
    /\ pc' = [pc EXCEPT ![k] = "verify"]
    /\ UNCHANGED <<verifierVars, signed, connectionVars, historyVars>>

Return(k) ==
    /\ pc' = [pc EXCEPT ![k] = "rest"]
    /\ hello' = [hello EXCEPT ![k] = None]

\* What verify_response requires, in the terms of its five exceptions.
AcceptsAnySignature(h) ==
    /\ h.id \in pending \ h.late
    /\ h.device = device[h.id]
    /\ device[h.id] \in trusted
Acceptable(h) ==
    /\ h.id \in pending \ h.late
    /\ h.device = device[h.id]
    /\ device[h.id] \in trusted
    /\ h.genuine

\* The checks of _consumed come first and prune nothing.
VerifyReplay(k) ==
    /\ pc[k] = "verify" /\ hello[k].id \in ToSet(consumed)
    /\ AuthenticationFailure(k, cooling[k])
    /\ Return(k)
    /\ UNCHANGED <<verifierVars, signed, historyVars>>

VerifyFails(k) ==
    /\ pc[k] = "verify" /\ hello[k].id \notin ToSet(consumed)
    /\ ~Acceptable(hello[k])
    /\ pending' = pending \ hello[k].late
    /\ consumed' = PrunedConsumed(hello[k].late)
    /\ AuthenticationFailure(k, cooling[k])
    /\ Return(k)
    /\ UNCHANGED <<trusted, issued, device, left, signed, historyVars>>

\* A full table forgets its oldest entry.
Remember(c, expired) ==
    LET kept == PrunedConsumed(expired)
    IN Append(IF Len(kept) >= MAX_CONSUMED THEN Tail(kept) ELSE kept, c)

KeptPending(c, expired) == pending \ expired
LeftPending(c, expired) == (pending \ expired) \ {c}

VerifySucceeds(k) ==
    /\ pc[k] = "verify" /\ hello[k].id \notin ToSet(consumed)
    /\ Acceptable(hello[k])
    /\ LET c == hello[k].id IN
          /\ pending' = LeftPending(c, hello[k].late)
          /\ consumed' = Remember(c, hello[k].late)
          /\ redeemedBy' = [redeemedBy EXCEPT ![c] = device[c]]
    /\ pc' = [pc EXCEPT ![k] = "create"]
    /\ UNCHANGED <<trusted, issued, device, left, signed, connectionVars, hello,
                   opened>>

\* SessionRegistry.create: the session is opened for the authorized device, or
\* the table is full and the connection is closed with the challenge spent.
OpenSession(k) ==
    /\ pc[k] = "create"
    /\ opened' = [opened EXCEPT ![hello[k].id] = @ + 1]
    /\ session' = [session EXCEPT ![k] = device[hello[k].id]]
    /\ failures' = [failures EXCEPT ![k] = 0]
    /\ quiet' = [quiet EXCEPT ![k] = 0]
    /\ age' = [age EXCEPT ![k] = 0]     \* not read again
    /\ cooling' = [cooling EXCEPT ![k] = FALSE]
    /\ errors' = [errors EXCEPT ![k] = 0]
    /\ Return(k)
    /\ UNCHANGED <<verifierVars, signed, up, redeemedBy>>

SessionLimit(k) ==
    /\ pc[k] = "create"
    /\ Drop(k)
    /\ Return(k)
    /\ UNCHANGED <<verifierVars, signed, historyVars>>

-----------------------------------------------------------------------------
RevokeDevice(d) ==
    /\ d \in trusted
    /\ trusted' = trusted \ {d}
    /\ UNCHANGED <<pending, consumed, issued, device, left, signed,
                   connectionVars, frameVars, historyVars>>

Saturate(n, limit) == IF n < limit THEN n + 1 ELSE n

Tick ==
    /\ left' = [c \in Challenge |-> IF left[c] > 0 THEN left[c] - 1 ELSE 0]
    /\ age' = [k \in Connection |->
                 IF k \in up /\ session[k] = None
                 THEN Saturate(age[k], AUTH_TIMEOUT) ELSE age[k]]
    /\ quiet' = [k \in Connection |->
                 IF session[k] # None THEN Saturate(quiet[k], SESSION_IDLE)
                 ELSE IF k \in up \cap WebSocket
                 THEN Saturate(quiet[k], AUTH_TIMEOUT)
                 ELSE quiet[k]]
    /\ cooling' = [k \in Connection |-> FALSE]
    /\ UNCHANGED <<trusted, pending, consumed, issued, device, signed, up,
                   session, failures, errors, frameVars, historyVars>>

Process(k) ==
    \/ Hello(k) \/ VerifyReplay(k) \/ VerifyFails(k) \/ VerifySucceeds(k)
    \/ OpenSession(k) \/ SessionLimit(k)
    \/ ChallengeRequest(k) \/ ChallengeRefused(k) \/ Message(k)

Next ==
    \/ Tick \/ HttpChallenge
    \/ \E d \in Device : RevokeDevice(d)
    \/ \E c \in Challenge : Sign(c)
    \/ \E k \in Connection :
          Open(k) \/ Disconnect(k) \/ IdleClose(k) \/ ProtocolError(k) \/ Process(k)

Spec == Init /\ [][Next]_vars

\* Time passes; a thread finishes the message it is processing; and each
\* transport notices its timeout.
Finish(k) ==
    \/ VerifyReplay(k) \/ VerifyFails(k) \/ VerifySucceeds(k)
    \/ OpenSession(k) \/ SessionLimit(k)

Fairness ==
    /\ WF_vars(Tick)
    /\ \A k \in Connection : WF_vars(Finish(k)) /\ WF_vars(IdleClose(k))

FairSpec == Spec /\ Fairness

-----------------------------------------------------------------------------
(* Properties *)

\* No session without a signature: whatever is replayed, delayed or made up, a
\* challenge authorizes only the device it was issued to, and only after that
\* device signed it (verify_response).
RedeemedOnlySigned ==
    \A c \in Challenge :
        redeemedBy[c] # None => c \in signed /\ redeemedBy[c] = device[c]

\* A challenge is a one-use token, although the memory of consumed ones is
\* bounded and forgets: a forgotten challenge is unknown, never pending again.
Stage(c) ==
    IF c \notin issued THEN "fresh"
    ELSE IF c \in pending THEN "live"
    ELSE IF redeemedBy[c] = None THEN "void"
    ELSE IF opened[c] = 0 THEN "spent"
    ELSE "used"

Tokens == INSTANCE OneUse WITH
    Token <- Challenge, Holder <- Device, NoHolder <- None,
    stage <- [c \in Challenge |-> Stage(c)],
    holder <- device, redeemer <- redeemedBy

ChallengeIsOneUse == Tokens!TokenSpec

\* A connection that never authenticates is closed: the peer can neither hold it
\* open by talking nor by staying silent (AUTHENTICATION_TIMEOUT_SECONDS).
EventuallyDecided ==
    \A k \in Connection :
        k \in up /\ session[k] = None ~> k \notin up \/ session[k] # None
-----------------------------------------------------------------------------
(* The inductive invariant. The memory of consumed challenges is not in it:  *)
(* that a challenge is used once rests on its leaving _pending.              *)

\* The domains of all but the memory of consumed challenges.
DomainsInv ==
    /\ trusted \subseteq Device
    /\ pending \subseteq issued /\ issued \subseteq Challenge
    /\ device \in [Challenge -> Device \cup {None}]
    /\ signed \subseteq issued
    /\ session \in [Connection -> Device \cup {None}]
    /\ pc \in [Connection -> {"rest", "verify", "create"}]
    /\ hello \in [Connection -> Hellos \cup {None}]
    /\ redeemedBy \in [Challenge -> Device \cup {None}]
    /\ opened \in [Challenge -> Nat]

\* Of the life of a challenge.
ChallengesInv ==
    /\ \A c \in Challenge :
          /\ c \notin issued => device[c] = None /\ redeemedBy[c] = None
          /\ c \in issued => device[c] \in Device
          /\ redeemedBy[c] = None => opened[c] = 0
          /\ opened[c] <= 1
    /\ \A c \in pending : redeemedBy[c] = None

\* Of the frames of verify_response: a genuine signature was made, what had
\* expired was issued, and a thread about to create a session is the only one
\* with its challenge, which it redeemed and which opened nothing yet.
VerifyingInv ==
    /\ \A k \in Connection : pc[k] # "rest" =>
          /\ hello[k] \in Hellos
          /\ hello[k].late \subseteq issued
          /\ hello[k].genuine => hello[k].id \in signed
    /\ \A k \in Connection : pc[k] = "create" =>
          redeemedBy[hello[k].id] # None /\ opened[hello[k].id] = 0
    /\ \A k, l \in Connection :
          pc[k] = "create" /\ pc[l] = "create" /\ hello[k].id = hello[l].id => k = l

IInv == DomainsInv /\ ChallengesInv /\ VerifyingInv /\ RedeemedOnlySigned
=============================================================================
