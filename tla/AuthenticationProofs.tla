------------------------ MODULE AuthenticationProofs ------------------------
(***************************************************************************)
(* Proofs about Authentication for any connections, devices and challenges *)
(* and any limits and timeouts: a session only from a signature of the     *)
(* right device, and at most one per challenge, although the memory of     *)
(* consumed challenges forgets; and every limit on what a peer can pile up *)
(* is kept.                                                                *)
(***************************************************************************)
EXTENDS Authentication, FiniteSetTheorems, TLAPS

LEMMA InvInit == Init => IInv
  BY DEF Init, IInv, DomainsInv, ChallengesInv, VerifyingInv, RedeemedOnlySigned

\* What the steps that only count, time out or close do to a connection.
LEMMA DropType ==
    ASSUME DomainsInv, NEW k \in Connection, Drop(k)
    PROVE  session' \in [Connection -> Device \cup {None}]
  BY DEF DomainsInv, Drop

LEMMA AnswerType ==
    ASSUME DomainsInv, NEW k \in Connection, NEW limited,
           Answer(k, limited) \/ AuthenticationFailure(k, limited)
    PROVE  session' \in [Connection -> Device \cup {None}]
  BY DropType DEF DomainsInv, Answer, AuthenticationFailure

\* Steps that leave the verifier, the frames and the histories alone.
LEMMA ConnectionStep ==
    ASSUME IInv, UNCHANGED <<trusted, pending, issued, device, signed, frameVars,
                             historyVars>>,
           session' \in [Connection -> Device \cup {None}]
    PROVE  IInv'
  BY DEF IInv, DomainsInv, ChallengesInv, VerifyingInv, RedeemedOnlySigned,
     frameVars, historyVars

\* Creating or refusing a challenge: a fresh one is neither redeemed nor signed,
\* and the sweep only takes challenges out of _pending.
LEMMA ChallengeStep ==
    ASSUME IInv, NEW d \in Device, CreateChallenge(d) \/ RefuseChallenge(d),
           UNCHANGED <<signed, frameVars, historyVars>>,
           session' \in [Connection -> Device \cup {None}]
    PROVE  IInv'
  <1> USE DEF frameVars, historyVars
  <1>1. CASE CreateChallenge(d)
    <2>1. PICK c \in Challenge \ issued :
            /\ pending' = (pending \ Expired) \cup {c}
            /\ issued' = issued \cup {c}
            /\ device' = [device EXCEPT ![c] = d]
      BY <1>1 DEF CreateChallenge
    <2>2. trusted' = trusted /\ Expired \subseteq issued
      BY <1>1 DEF CreateChallenge, Expired
    <2>3. DomainsInv'
      BY <2>1, <2>2 DEF IInv, DomainsInv
    <2>4. ChallengesInv'
      BY <2>1, AuthConstants DEF IInv, DomainsInv, ChallengesInv
    <2>5. VerifyingInv'
      BY <2>1 DEF IInv, VerifyingInv
    <2>6. RedeemedOnlySigned'
      BY <2>1 DEF IInv, DomainsInv, ChallengesInv, RedeemedOnlySigned
    <2>7. QED
      BY <2>3, <2>4, <2>5, <2>6 DEF IInv
  <1>2. CASE RefuseChallenge(d)
    BY <1>2 DEF RefuseChallenge, IInv, DomainsInv, ChallengesInv, VerifyingInv,
       RedeemedOnlySigned
  <1>3. QED
    BY <1>1, <1>2

\* A hello on its way: what it claims to have signed was signed.
LEMMA HelloStep ==
    ASSUME IInv, NEW k \in Connection, Hello(k)
    PROVE  IInv'
  <1>1. PICK c \in Challenge, d \in Device, genuine \in BOOLEAN :
          /\ genuine => c \in signed
          /\ hello' = [hello EXCEPT ![k] = [id |-> c, device |-> d,
                          genuine |-> genuine, late |-> Expired]]
    BY DEF Hello
  <1> DEFINE h == [id |-> c, device |-> d, genuine |-> genuine, late |-> Expired]
  <1>2. pc' = [pc EXCEPT ![k] = "verify"] /\ pc[k] = "rest"
        /\ UNCHANGED <<verifierVars, signed, connectionVars, historyVars>>
    BY DEF Hello, Resting
  <1>3. h \in Hellos /\ Expired \subseteq issued
    BY DEF IInv, DomainsInv, Hellos, Expired
  <1>4. DomainsInv'
    BY <1>1, <1>2, <1>3 DEF IInv, DomainsInv, verifierVars, connectionVars, historyVars
  <1>5. ChallengesInv' /\ RedeemedOnlySigned'
    BY <1>2 DEF IInv, ChallengesInv, RedeemedOnlySigned, verifierVars, historyVars
  <1>6. VerifyingInv'
    BY <1>1, <1>2, <1>3 DEF IInv, DomainsInv, VerifyingInv, verifierVars, historyVars
  <1>7. QED
    BY <1>4, <1>5, <1>6 DEF IInv

\* A verification that fails leaves nothing but a smaller _pending behind.
LEMMA VerifyFailsStep ==
    ASSUME IInv, NEW k \in Connection, VerifyReplay(k) \/ VerifyFails(k)
    PROVE  IInv'
  <1>1. session' \in [Connection -> Device \cup {None}]
    BY AnswerType DEF IInv, VerifyReplay, VerifyFails
  <1>2. /\ pending' \subseteq pending
        /\ UNCHANGED <<trusted, issued, device, signed, historyVars>>
        /\ pc' = [pc EXCEPT ![k] = "rest"] /\ hello' = [hello EXCEPT ![k] = None]
    BY DEF VerifyReplay, VerifyFails, Return, verifierVars
  <1>3. QED
    BY <1>1, <1>2 DEF IInv, DomainsInv, ChallengesInv, VerifyingInv,
       RedeemedOnlySigned, historyVars

\* Accepting takes the challenge out of _pending in the critical section that
\* found it there, so that no other thread is about to create a session from it.
LEMMA VerifySucceedsStep ==
    ASSUME IInv, NEW k \in Connection, VerifySucceeds(k)
    PROVE  IInv'
  <1> DEFINE c == hello[k].id
  <1>1. /\ c \in pending /\ c \in Challenge /\ c \in signed
        /\ pc[k] = "verify" /\ hello[k] \in Hellos
        /\ device[c] \in Device
    BY AuthConstants DEF VerifySucceeds, Acceptable, IInv, DomainsInv,
       ChallengesInv, VerifyingInv, Hellos
  <1>2. /\ pending' = (pending \ hello[k].late) \ {c}
        /\ redeemedBy' = [redeemedBy EXCEPT ![c] = device[c]]
        /\ pc' = [pc EXCEPT ![k] = "create"]
        /\ UNCHANGED <<trusted, issued, device, signed, session, hello, opened>>
    BY DEF VerifySucceeds, LeftPending, connectionVars
  <1>3. DomainsInv'
    BY <1>1, <1>2 DEF IInv, DomainsInv
  <1>4. ChallengesInv'
    BY <1>1, <1>2, AuthConstants DEF IInv, DomainsInv, ChallengesInv
  <1>5. \A l \in Connection : pc[l] = "create" => hello[l].id # c
    BY <1>1 DEF IInv, ChallengesInv, VerifyingInv
  <1>6. VerifyingInv'
    BY <1>1, <1>2, <1>5, AuthConstants DEF IInv, DomainsInv, ChallengesInv, VerifyingInv
  <1>7. RedeemedOnlySigned'
    BY <1>1, <1>2 DEF IInv, DomainsInv, RedeemedOnlySigned
  <1>8. QED
    BY <1>3, <1>4, <1>6, <1>7 DEF IInv

\* The session is opened by the one thread that redeemed the challenge.
LEMMA OpenSessionStep ==
    ASSUME IInv, NEW k \in Connection, OpenSession(k)
    PROVE  IInv'
  <1> DEFINE c == hello[k].id
  <1>1. /\ pc[k] = "create" /\ hello[k] \in Hellos /\ c \in Challenge
        /\ redeemedBy[c] # None /\ opened[c] = 0
    BY DEF OpenSession, IInv, DomainsInv, VerifyingInv, Hellos
  <1>2. /\ opened' = [opened EXCEPT ![c] = @ + 1]
        /\ session' = [session EXCEPT ![k] = device[c]]
        /\ pc' = [pc EXCEPT ![k] = "rest"] /\ hello' = [hello EXCEPT ![k] = None]
        /\ UNCHANGED <<trusted, pending, issued, device, signed, redeemedBy>>
    BY DEF OpenSession, Return, verifierVars
  <1>3. DomainsInv'
    BY <1>1, <1>2 DEF IInv, DomainsInv
  <1>4. ChallengesInv' /\ RedeemedOnlySigned'
    BY <1>1, <1>2 DEF IInv, DomainsInv, ChallengesInv, RedeemedOnlySigned
  <1>5. VerifyingInv'
    BY <1>1, <1>2 DEF IInv, DomainsInv, VerifyingInv
  <1>6. QED
    BY <1>3, <1>4, <1>5 DEF IInv

LEMMA InvStep == IInv /\ [Next]_vars => IInv'
  <1> SUFFICES ASSUME IInv, [Next]_vars
               PROVE  IInv'
    OBVIOUS
  <1>1. session \in [Connection -> Device \cup {None}] /\ DomainsInv
    BY DEF IInv, DomainsInv
  <1>2. CASE Tick
    BY <1>1, <1>2, ConnectionStep DEF Tick
  <1>3. CASE HttpChallenge
    BY <1>1, <1>3, ChallengeStep DEF HttpChallenge, connectionVars
  <1>4. ASSUME NEW d \in Device, RevokeDevice(d)
        PROVE  IInv'
    BY <1>4 DEF RevokeDevice, IInv, DomainsInv, ChallengesInv, VerifyingInv,
       RedeemedOnlySigned, connectionVars, frameVars, historyVars
  <1>5. ASSUME NEW c \in Challenge, Sign(c)
        PROVE  IInv'
    BY <1>5 DEF Sign, IInv, DomainsInv, ChallengesInv, VerifyingInv,
       RedeemedOnlySigned, verifierVars, connectionVars, frameVars, historyVars
  <1>6. ASSUME NEW k \in Connection, Process(k)
        PROVE  IInv'
    <2>1. CASE ChallengeRequest(k)
      BY <1>1, <2>1, AnswerType, ChallengeStep DEF ChallengeRequest
    <2>2. CASE ChallengeRefused(k)
      BY <1>1, <2>2, AnswerType, ChallengeStep DEF ChallengeRefused
    <2>3. CASE Message(k)
      BY <1>1, <2>3, AnswerType, ConnectionStep DEF Message, verifierVars
    <2>4. CASE SessionLimit(k)
      <3>1. session' \in [Connection -> Device \cup {None}]
        BY <1>1, <2>4, DropType DEF SessionLimit
      <3>2. QED
        BY <2>4, <3>1 DEF SessionLimit, Return, IInv, DomainsInv, ChallengesInv,
           VerifyingInv, RedeemedOnlySigned, verifierVars, historyVars
    <2>5. QED
      BY <1>6, <2>1, <2>2, <2>3, <2>4, HelloStep, VerifyFailsStep,
         VerifySucceedsStep, OpenSessionStep DEF Process
  <1>7. ASSUME NEW k \in Connection,
               Open(k) \/ Disconnect(k) \/ IdleClose(k) \/ ProtocolError(k)
        PROVE  IInv'
    <2>1. session' \in [Connection -> Device \cup {None}]
      BY <1>1, <1>7, DropType DEF Open, Disconnect, IdleClose, ProtocolError
    <2>2. UNCHANGED <<trusted, pending, issued, device, signed, frameVars, historyVars>>
      BY <1>7 DEF Open, Disconnect, IdleClose, ProtocolError, verifierVars
    <2>3. QED
      BY <2>1, <2>2, ConnectionStep
  <1>8. CASE UNCHANGED vars
    BY <1>1, <1>8, ConnectionStep DEF vars, verifierVars, connectionVars
  <1>9. QED
    BY <1>2, <1>3, <1>4, <1>5, <1>6, <1>7, <1>8 DEF Next

\* The invariant is inductive: every behaviour keeps it.
THEOREM AuthInvariant == Spec => []IInv
  BY InvInit, InvStep, PTL DEF Spec

\* No session without a signature: a challenge authorizes only the device it
\* was issued to, and only after that device signed it.
THEOREM SignedBeforeRedeemed == Spec => []RedeemedOnlySigned
  <1>1. IInv => RedeemedOnlySigned
    BY DEF IInv
  <1>2. QED
    BY <1>1, AuthInvariant, PTL

\* At most one session was opened from a challenge.
OneSessionPerChallenge == \A c \in Challenge : opened[c] <= 1

\* Whatever is replayed and whatever the memory of consumed challenges forgets,
\* verify_response and the core open at most one session per challenge.
THEOREM OneSession == Spec => []OneSessionPerChallenge
  <1>1. IInv => OneSessionPerChallenge
    BY DEF IInv, ChallengesInv, OneSessionPerChallenge
  <1>2. QED
    BY <1>1, AuthInvariant, PTL

-----------------------------------------------------------------------------
(* The limits on what peers can pile up *)

PendingOf(d) == {c \in pending : device[c] = d}

\* _pending stays within MAX_PENDING_CHALLENGES and MAX_PENDING_PER_DEVICE.
PendingWithinLimits ==
    /\ IsFiniteSet(pending) /\ Cardinality(pending) <= MAX_PENDING
    /\ \A d \in Device : Cardinality(PendingOf(d)) <= MAX_PENDING_PER_DEVICE

\* No connection goes on after the last failure, or the last error in a row, that
\* it is allowed.
CountersWithinLimits ==
    /\ up \subseteq Connection
    /\ failures \in [Connection -> 0..(MAX_AUTH_FAILURES - 1)]
    /\ errors \in [Connection -> 0..(MAX_PROTOCOL_ERRORS - 1)]
    /\ cooling \in [Connection -> BOOLEAN]
    /\ age \in [Connection -> 0..AUTH_TIMEOUT]
    /\ quiet \in [Connection -> Nat]

WithinLimits ==
    PendingWithinLimits /\ CountersWithinLimits /\ left \in [Challenge -> 0..TTL]

\* Challenges only leave: the limits hold of what stays.
LEMMA FewerPending ==
    ASSUME IInv, PendingWithinLimits, NEW S, S \subseteq pending
    PROVE  /\ IsFiniteSet(S) /\ Cardinality(S) <= Cardinality(pending)
           /\ \A d \in Device : /\ IsFiniteSet({c \in S : device[c] = d})
                                /\ Cardinality({c \in S : device[c] = d})
                                     <= Cardinality(PendingOf(d))
           /\ Cardinality(S) \in Nat /\ Cardinality(pending) \in Nat
           /\ \A d \in Device : /\ Cardinality({c \in S : device[c] = d}) \in Nat
                                /\ Cardinality(PendingOf(d)) \in Nat
  <1>1. IsFiniteSet(S) /\ Cardinality(S) <= Cardinality(pending)
    BY FS_Subset DEF PendingWithinLimits
  <1>2. \A d \in Device : IsFiniteSet(PendingOf(d))
    BY FS_Subset DEF PendingWithinLimits, PendingOf
  <1>3. \A d \in Device : {c \in S : device[c] = d} \in SUBSET PendingOf(d)
    BY DEF PendingOf
  <1>4. \A d \in Device : /\ IsFiniteSet({c \in S : device[c] = d})
                          /\ Cardinality({c \in S : device[c] = d})
                               <= Cardinality(PendingOf(d))
    BY <1>2, <1>3, FS_Subset
  <1> QED
    BY <1>1, <1>2, <1>4, FS_CardinalityType DEF PendingWithinLimits

\* ... and so every step that only sweeps keeps them.
LEMMA PendingShrinks ==
    ASSUME IInv, PendingWithinLimits, pending' \subseteq pending, device' = device
    PROVE  PendingWithinLimits'
  <1>1. /\ IsFiniteSet(pending') /\ Cardinality(pending') <= Cardinality(pending)
        /\ Cardinality(pending') \in Nat /\ Cardinality(pending) \in Nat
    BY FewerPending
  <1>2. ASSUME NEW d \in Device
        PROVE  Cardinality(PendingOf(d)') <= MAX_PENDING_PER_DEVICE
    <2>1. PendingOf(d)' = {c \in pending' : device[c] = d}
      BY DEF PendingOf
    <2>2. /\ Cardinality({c \in pending' : device[c] = d}) <= Cardinality(PendingOf(d))
          /\ Cardinality({c \in pending' : device[c] = d}) \in Nat
          /\ Cardinality(PendingOf(d)) \in Nat
      BY FewerPending
    <2> QED
      BY <2>1, <2>2, AuthConstants DEF PendingWithinLimits
  <1> QED
    BY <1>1, <1>2, AuthConstants DEF PendingWithinLimits

\* create_challenge sweeps first, and adds one only where there is room.
LEMMA PendingGrows ==
    ASSUME IInv, PendingWithinLimits, NEW d \in Device, CreateChallenge(d)
    PROVE  PendingWithinLimits'
  <1> DEFINE kept == pending \ Expired
             of(e) == {x \in kept : device[x] = e}
  <1>1. PICK c \in Challenge \ issued :
          pending' = kept \cup {c} /\ device' = [device EXCEPT ![c] = d]
    BY DEF CreateChallenge
  <1>2. Cardinality(kept) < MAX_PENDING /\ Cardinality(of(d)) < MAX_PENDING_PER_DEVICE
    BY DEF CreateChallenge, HasRoom
  <1>3. c \notin kept
    BY DEF IInv, DomainsInv
  <1>4. /\ IsFiniteSet(kept) /\ Cardinality(kept) \in Nat
        /\ \A e \in Device : /\ IsFiniteSet(of(e)) /\ Cardinality(of(e)) \in Nat
                             /\ Cardinality(of(e)) <= Cardinality(PendingOf(e))
                             /\ Cardinality(PendingOf(e)) \in Nat
    BY FewerPending
  <1>5. IsFiniteSet(pending') /\ Cardinality(pending') = Cardinality(kept) + 1
    BY <1>1, <1>3, <1>4, FS_AddElement
  <1>6. ASSUME NEW e \in Device
        PROVE  Cardinality(PendingOf(e)') <= MAX_PENDING_PER_DEVICE
    <2>1. \A x \in kept : device'[x] = device[x]
      BY <1>1, <1>3 DEF IInv, DomainsInv
    <2>2. device'[c] = d
      BY <1>1 DEF IInv, DomainsInv
    <2>3. CASE e = d
      <3>1. PendingOf(e)' = of(e) \cup {c}
        BY <1>1, <2>1, <2>2, <2>3 DEF PendingOf
      <3>2. c \notin of(e)
        BY <1>3
      <3>3. Cardinality(PendingOf(e)') = Cardinality(of(e)) + 1
        BY <1>4, <3>1, <3>2, FS_AddElement
      <3> QED
        BY <1>2, <1>4, <2>3, <3>3, AuthConstants
    <2>4. CASE e # d
      <3>1. PendingOf(e)' = of(e)
        BY <1>1, <2>1, <2>2, <2>4 DEF PendingOf
      <3> QED
        BY <1>4, <3>1, AuthConstants DEF PendingWithinLimits
    <2> QED
      BY <2>3, <2>4
  <1> QED
    BY <1>2, <1>4, <1>5, <1>6, AuthConstants DEF PendingWithinLimits

\* Closing a connection and answering a message keep its counters.
LEMMA DropCounters ==
    ASSUME CountersWithinLimits, NEW k \in Connection, Drop(k)
    PROVE  CountersWithinLimits'
  <1> USE AuthConstants DEF CountersWithinLimits, Drop
  <1>1. up' \subseteq Connection /\ cooling' \in [Connection -> BOOLEAN]
    OBVIOUS
  <1>2. failures' \in [Connection -> 0..(MAX_AUTH_FAILURES - 1)]
    OBVIOUS
  <1>3. errors' \in [Connection -> 0..(MAX_PROTOCOL_ERRORS - 1)]
    OBVIOUS
  <1>4. age' \in [Connection -> 0..AUTH_TIMEOUT] /\ quiet' \in [Connection -> Nat]
    OBVIOUS
  <1> QED
    BY <1>1, <1>2, <1>3, <1>4

LEMMA AnswerCounters ==
    ASSUME CountersWithinLimits, NEW k \in Connection, NEW limited \in BOOLEAN,
           Answer(k, limited) \/ AuthenticationFailure(k, limited)
    PROVE  CountersWithinLimits'
  <1>1. CASE Drop(k)
    BY <1>1, DropCounters
  <1>2. CASE ~Drop(k)
    <2> USE <1>2, AuthConstants DEF CountersWithinLimits
    <2>1. /\ quiet' = [quiet EXCEPT ![k] = 0] /\ errors' = [errors EXCEPT ![k] = 0]
          /\ cooling' = [cooling EXCEPT ![k] = limited] /\ UNCHANGED <<up, age>>
      BY DEF Answer, AuthenticationFailure
    <2>2. \/ failures' = failures
          \/ /\ ~(failures[k] + 1 >= MAX_AUTH_FAILURES)
             /\ failures' = [failures EXCEPT ![k] = @ + 1]
      BY DEF Answer, AuthenticationFailure, TooManyFailures
    <2>3. failures' \in [Connection -> 0..(MAX_AUTH_FAILURES - 1)]
      BY <2>2
    <2>4. errors' \in [Connection -> 0..(MAX_PROTOCOL_ERRORS - 1)]
      BY <2>1
    <2>5. cooling' \in [Connection -> BOOLEAN]
      BY <2>1
    <2> QED
      BY <2>1, <2>3, <2>4, <2>5
  <1> QED
    BY <1>1, <1>2

\* Every step of a connection.
LEMMA ConnectionCounters ==
    ASSUME CountersWithinLimits, NEW k \in Connection,
           \/ Open(k) \/ Disconnect(k) \/ IdleClose(k) \/ ProtocolError(k) \/ Process(k)
    PROVE  CountersWithinLimits'
  <1> USE AuthConstants
  <1>1. CASE Open(k)
    BY <1>1 DEF Open, CountersWithinLimits
  <1>2. CASE Disconnect(k) \/ IdleClose(k) \/ SessionLimit(k)
    BY <1>2, DropCounters DEF Disconnect, IdleClose, SessionLimit
  <1>3. CASE ProtocolError(k)
    <2>1. CASE Drop(k)
      BY <2>1, DropCounters
    <2>2. CASE ~Drop(k)
      <3>1. /\ ~(errors[k] + 1 >= MAX_PROTOCOL_ERRORS)
            /\ errors' = [errors EXCEPT ![k] = errors[k] + 1]
            /\ quiet' = [quiet EXCEPT ![k] = IF k \in WebSocket THEN 0 ELSE @]
            /\ UNCHANGED <<up, failures, cooling, age>>
        BY <1>3, <2>2 DEF ProtocolError, ErrorCount
      <3>2. errors' \in [Connection -> 0..(MAX_PROTOCOL_ERRORS - 1)]
        BY <3>1 DEF CountersWithinLimits
      <3>3. quiet' \in [Connection -> Nat]
        BY <3>1 DEF CountersWithinLimits
      <3> QED
        BY <3>1, <3>2, <3>3 DEF CountersWithinLimits
    <2> QED
      BY <2>1, <2>2
  <1>4. cooling[k] \in BOOLEAN
    BY DEF CountersWithinLimits
  <1>5. CASE VerifyReplay(k) \/ VerifyFails(k) \/ ChallengeRequest(k)
             \/ ChallengeRefused(k) \/ Message(k)
    BY <1>4, <1>5, AnswerCounters
       DEF VerifyReplay, VerifyFails, ChallengeRequest, ChallengeRefused, Message
  <1>6. CASE Hello(k) \/ VerifySucceeds(k)
    BY <1>6 DEF Hello, VerifySucceeds, connectionVars, CountersWithinLimits
  <1>7. CASE OpenSession(k)
    <2>1. /\ failures' = [failures EXCEPT ![k] = 0] /\ quiet' = [quiet EXCEPT ![k] = 0]
          /\ age' = [age EXCEPT ![k] = 0] /\ cooling' = [cooling EXCEPT ![k] = FALSE]
          /\ errors' = [errors EXCEPT ![k] = 0] /\ up' = up
      BY <1>7 DEF OpenSession
    <2>2. /\ failures' \in [Connection -> 0..(MAX_AUTH_FAILURES - 1)]
          /\ errors' \in [Connection -> 0..(MAX_PROTOCOL_ERRORS - 1)]
      BY <2>1 DEF CountersWithinLimits
    <2>3. cooling' \in [Connection -> BOOLEAN]
      BY <2>1 DEF CountersWithinLimits
    <2> QED
      BY <2>1, <2>2, <2>3 DEF CountersWithinLimits
  <1> QED
    BY <1>1, <1>2, <1>3, <1>5, <1>6, <1>7 DEF Process

\* Challenges live for a while.
LEMMA LifetimeType == TTL \in Nat \ {0}
  BY AuthConstants

\* Every step keeps the limits.
LEMMA LimitsStep == IInv /\ WithinLimits /\ [Next]_vars => WithinLimits'
  <1> SUFFICES ASSUME IInv, WithinLimits, [Next]_vars
               PROVE  WithinLimits'
    OBVIOUS
  <1> USE AuthConstants DEF WithinLimits
  <1>1. ASSUME NEW d \in Device, CreateChallenge(d) \/ RefuseChallenge(d)
        PROVE  PendingWithinLimits' /\ left' \in [Challenge -> 0..TTL]
    <2>1. left' \in [Challenge -> 0..TTL]
      <3>1. left' = left \/ \E c \in Challenge : left' = [left EXCEPT ![c] = TTL]
        BY <1>1 DEF CreateChallenge, RefuseChallenge
      <3>2. TTL \in 0..TTL
        BY LifetimeType
      <3> QED
        BY <3>1, <3>2
    <2>2. PendingWithinLimits'
      BY <1>1, PendingGrows, PendingShrinks DEF RefuseChallenge
    <2> QED
      BY <2>1, <2>2
  <1>2. CASE Tick
    <2>1. PendingWithinLimits'
      BY <1>2, PendingShrinks DEF Tick
    <2>2. left' \in [Challenge -> 0..TTL]
      <3>1. left' = [c \in Challenge |-> IF left[c] > 0 THEN left[c] - 1 ELSE 0]
        BY <1>2 DEF Tick
      <3>2. \A n \in 0..TTL : (IF n > 0 THEN n - 1 ELSE 0) \in 0..TTL
        BY LifetimeType
      <3> QED
        BY <3>1, <3>2
    <2>3. age' \in [Connection -> 0..AUTH_TIMEOUT] /\ quiet' \in [Connection -> Nat]
      BY <1>2 DEF Tick, CountersWithinLimits, Saturate
    <2>4. cooling' \in [Connection -> BOOLEAN]
      BY <1>2 DEF Tick
    <2> QED
      BY <1>2, <2>1, <2>2, <2>3, <2>4 DEF Tick, CountersWithinLimits
  <1>3. CASE HttpChallenge
    BY <1>1, <1>3 DEF HttpChallenge, connectionVars, CountersWithinLimits
  <1>4. CASE (\E d \in Device : RevokeDevice(d)) \/ (\E c \in Challenge : Sign(c))
             \/ UNCHANGED vars
    <2>1. UNCHANGED <<pending, device, left, connectionVars>>
      BY <1>4 DEF RevokeDevice, Sign, vars, verifierVars
    <2> QED
      BY <2>1, PendingShrinks DEF connectionVars, CountersWithinLimits
  <1>5. ASSUME NEW k \in Connection,
               \/ Open(k) \/ Disconnect(k) \/ IdleClose(k) \/ ProtocolError(k) \/ Process(k)
        PROVE  WithinLimits'
    <2>1. CountersWithinLimits'
      BY <1>5, ConnectionCounters
    <2>2. CASE ChallengeRequest(k) \/ ChallengeRefused(k)
      BY <1>1, <2>1, <2>2 DEF ChallengeRequest, ChallengeRefused
    <2>3. CASE ~(ChallengeRequest(k) \/ ChallengeRefused(k))
      <3>1. UNCHANGED <<device, left>> /\ pending' \subseteq pending
        BY <1>5, <2>3 DEF Open, Disconnect, IdleClose, ProtocolError, Process, Hello,
           VerifyReplay, VerifyFails, VerifySucceeds, OpenSession, SessionLimit, Message,
           LeftPending, verifierVars
      <3> QED
        BY <2>1, <3>1, PendingShrinks
    <2> QED
      BY <2>2, <2>3
  <1> QED
    BY <1>2, <1>3, <1>4, <1>5 DEF Next

\* The limits of the verifier and of its connections are kept, whoever asks, and
\* however often: MAX_PENDING_CHALLENGES, MAX_PENDING_PER_DEVICE, three failures
\* and the errors in a row of a connection (create_challenge, process).
THEOREM LimitsAreKept == Spec => []WithinLimits
  <1>1. Init => WithinLimits
    <2> SUFFICES ASSUME Init
                 PROVE  WithinLimits
      OBVIOUS
    <2>1. PendingWithinLimits
      <3>1. pending = {} /\ \A d \in Device : PendingOf(d) = {}
        BY DEF Init, PendingOf
      <3> QED
        BY <3>1, FS_EmptySet, AuthConstants DEF PendingWithinLimits
    <2>2. /\ failures \in [Connection -> 0..(MAX_AUTH_FAILURES - 1)]
          /\ errors \in [Connection -> 0..(MAX_PROTOCOL_ERRORS - 1)]
          /\ age \in [Connection -> 0..AUTH_TIMEOUT] /\ quiet \in [Connection -> Nat]
          /\ left \in [Challenge -> 0..TTL] /\ up = {}
      BY AuthConstants DEF Init
    <2>3. cooling \in [Connection -> BOOLEAN]
      BY DEF Init
    <2> QED
      BY <2>1, <2>2, <2>3 DEF WithinLimits, CountersWithinLimits
  <1> QED
    BY <1>1, LimitsStep, AuthInvariant, PTL DEF Spec

-----------------------------------------------------------------------------
(* Every challenge is a one-use token *)

\* Steps that touch neither the life of a challenge nor the histories.
LEMMA StutterStep ==
    ASSUME UNCHANGED <<pending, issued, device, redeemedBy, opened>>
    PROVE  UNCHANGED Tokens!tokenVars
  BY DEF Tokens!tokenVars, Stage

\* Challenges that leave _pending without having been redeemed are void.
LEMMA VoidStep ==
    ASSUME IInv, NEW K, pending' = pending \ K,
           UNCHANGED <<issued, device, redeemedBy, opened>>
    PROVE  Tokens!TokenNext
  <1> DEFINE V == pending \cap K
  <1>1. V \in SUBSET Challenge
    BY DEF IInv, DomainsInv
  <1>2. \A c \in V : Stage(c) = "live"
    BY DEF IInv, DomainsInv, Stage
  <1>3. \A c \in Challenge : Stage(c)' = IF c \in V THEN "void" ELSE Stage(c)
    BY DEF IInv, DomainsInv, ChallengesInv, Stage
  <1>4. Tokens!Void(V)
    BY <1>1, <1>2, <1>3 DEF Tokens!Void
  <1>5. QED
    BY <1>1, <1>4 DEF Tokens!TokenNext

\* create_challenge sweeps the expired ones and issues a fresh one to a device.
LEMMA CreateStep ==
    ASSUME IInv, NEW d \in Device, CreateChallenge(d), UNCHANGED historyVars
    PROVE  Tokens!TokenNext
  <1> DEFINE V == pending \cap Expired
  <1>1. PICK c \in Challenge \ issued :
          /\ pending' = (pending \ Expired) \cup {c}
          /\ issued' = issued \cup {c}
          /\ device' = [device EXCEPT ![c] = d]
    BY DEF CreateChallenge
  <1>2. UNCHANGED <<redeemedBy, opened>> /\ V \in SUBSET Challenge /\ pending \subseteq issued
    BY DEF historyVars, IInv, DomainsInv
  <1>3. \A e \in V : Stage(e) = "live"
    BY <1>2 DEF Stage
  <1>4. Stage(c) = "fresh"
    BY DEF Stage
  <1>5. \A e \in Challenge :
          Stage(e)' = CASE e \in V -> "void"
                        [] e = c   -> "live"
                        [] OTHER   -> Stage(e)
    BY <1>1, <1>2 DEF IInv, ChallengesInv, Stage
  <1>6. Tokens!SweepAndIssue(V, c, d)
    BY <1>1, <1>2, <1>3, <1>4, <1>5 DEF Tokens!SweepAndIssue
  <1>7. QED
    BY <1>2, <1>6 DEF Tokens!TokenNext

\* Accepting a hello redeems its challenge for the device it was issued to.
LEMMA RedeemStep ==
    ASSUME IInv, NEW k \in Connection, VerifySucceeds(k)
    PROVE  Tokens!TokenNext
  <1> DEFINE c == hello[k].id
             V == pending \cap hello[k].late
  <1>1. /\ c \in pending /\ c \in Challenge /\ c \notin hello[k].late
        /\ device[c] \in Device
    BY DEF VerifySucceeds, Acceptable, IInv, DomainsInv, ChallengesInv
  <1>2. /\ pending' = (pending \ hello[k].late) \ {c}
        /\ redeemedBy' = [redeemedBy EXCEPT ![c] = device[c]]
        /\ UNCHANGED <<issued, device, opened>>
    BY DEF VerifySucceeds, LeftPending
  <1>3. V \in SUBSET Challenge /\ pending \subseteq issued
    BY DEF IInv, DomainsInv
  <1>4. \A e \in V \cup {c} : Stage(e) = "live"
    BY <1>1, <1>3 DEF Stage
  <1>5. \A e \in Challenge :
          Stage(e)' = CASE e \in V -> "void"
                        [] e = c   -> "spent"
                        [] OTHER   -> Stage(e)
    BY <1>1, <1>2, <1>3, AuthConstants DEF IInv, DomainsInv, ChallengesInv, Stage
  <1>6. Tokens!SweepAndRedeem(V, c)
    BY <1>1, <1>2, <1>3, <1>4, <1>5 DEF Tokens!SweepAndRedeem
  <1>7. QED
    BY <1>1, <1>3, <1>6 DEF Tokens!TokenNext

\* Opening the session uses the redeemed challenge.
LEMMA UseStep ==
    ASSUME IInv, NEW k \in Connection, OpenSession(k)
    PROVE  Tokens!TokenNext
  <1> DEFINE c == hello[k].id
  <1>1. c \in Challenge /\ redeemedBy[c] # None /\ opened[c] = 0
    BY DEF OpenSession, IInv, DomainsInv, VerifyingInv, Hellos
  <1>2. /\ opened' = [opened EXCEPT ![c] = @ + 1]
        /\ UNCHANGED <<pending, issued, device, redeemedBy>>
    BY DEF OpenSession, verifierVars
  <1>3. Stage(c) = "spent"
    BY <1>1 DEF IInv, ChallengesInv, Stage
  <1>4. \A e \in Challenge : Stage(e)' = IF e = c THEN "used" ELSE Stage(e)
    BY <1>1, <1>2, <1>3 DEF IInv, DomainsInv, ChallengesInv, Stage
  <1>5. Tokens!Use(c)
    BY <1>1, <1>2, <1>3, <1>4 DEF Tokens!Use
  <1>6. QED
    BY <1>1, <1>5 DEF Tokens!TokenNext

LEMMA RefinementStep ==
    ASSUME IInv, [Next]_vars
    PROVE  [Tokens!TokenNext]_(Tokens!tokenVars)
  <1> USE DEF verifierVars, historyVars
  <1>1. CASE Tick \/ UNCHANGED vars
    BY <1>1, StutterStep DEF Tick, vars
  <1>2. ASSUME NEW d \in Device, CreateChallenge(d) \/ RefuseChallenge(d),
               UNCHANGED historyVars
        PROVE  Tokens!TokenNext
    BY <1>2, CreateStep, VoidStep DEF RefuseChallenge
  <1>3. CASE HttpChallenge
    BY <1>2, <1>3 DEF HttpChallenge
  <1>4. ASSUME NEW d \in Device, RevokeDevice(d)
        PROVE  UNCHANGED Tokens!tokenVars
    BY <1>4, StutterStep DEF RevokeDevice
  <1>5. ASSUME NEW c \in Challenge, Sign(c)
        PROVE  UNCHANGED Tokens!tokenVars
    BY <1>5, StutterStep DEF Sign
  <1>6. ASSUME NEW k \in Connection, Process(k)
        PROVE  [Tokens!TokenNext]_(Tokens!tokenVars)
    <2>1. CASE ChallengeRequest(k) \/ ChallengeRefused(k)
      BY <1>2, <2>1 DEF ChallengeRequest, ChallengeRefused
    <2>2. CASE VerifyFails(k)
      BY <2>2, VoidStep DEF VerifyFails
    <2>3. CASE Hello(k) \/ VerifyReplay(k) \/ SessionLimit(k) \/ Message(k)
      BY <2>3, StutterStep DEF Hello, VerifyReplay, SessionLimit, Message
    <2>4. QED
      BY <1>6, <2>1, <2>2, <2>3, RedeemStep, UseStep DEF Process
  <1>7. ASSUME NEW k \in Connection,
               Open(k) \/ Disconnect(k) \/ IdleClose(k) \/ ProtocolError(k)
        PROVE  UNCHANGED Tokens!tokenVars
    BY <1>7, StutterStep DEF Open, Disconnect, IdleClose, ProtocolError
  <1>8. QED
    BY <1>1, <1>3, <1>4, <1>5, <1>6, <1>7 DEF Next

\* The verifier refines the one-use token: a challenge is redeemed by its own
\* device only, opens one session at most, and never comes back once it expired
\* or was forgotten.
THEOREM ChallengesImplementOneUse == Spec => ChallengeIsOneUse
  <1>1. Init => Tokens!TokenInit
    BY DEF Init, Tokens!TokenInit, Stage
  <1>2. QED
    BY <1>1, RefinementStep, AuthInvariant, PTL
       DEF Spec, ChallengeIsOneUse, Tokens!TokenSpec
=============================================================================
