------------------------------- MODULE Unlock -------------------------------
(***************************************************************************)
(* Trusted unlock: the registry of paired devices and the tool that pairs  *)
(* and revokes them, and the broker behind the local pipe, from challenge  *)
(* to signed answer, ticket and consumption. The broker serves one request *)
(* at a time, so a request is one action; the registry is written value by *)
(* value and without a lock, by one administrator's process or by several, *)
(* each of which may fail or die in between.                               *)
(*                                                                         *)
(* UNLOCK_ENABLED is False in the code. Both values are explored: what the *)
(* disabled broker does is what runs today, and what the enabled one does  *)
(* is what its classes, which the tests use directly, promise.             *)
(*                                                                         *)
(* The broker lives by the wall clock, which may be set back. Signatures   *)
(* are taken at their word, and a ticket is known to a caller only if the  *)
(* answer that carries it arrived in time (CallNamedPipe's timeout).       *)
(***************************************************************************)
EXTENDS Integers, Sequences, FiniteSets, SequencesExt

CONSTANTS
    Device, Key, Challenge, Ticket,
    Admin,          \* processes that may run trusted_unlock_admin
    TTL,            \* ttl_seconds of a challenge
    TICKET_TTL,     \* TICKET_TTL_SECONDS
    SKEW,           \* clock_skew_seconds
    MAX_PENDING,    \* MAX_PENDING_PER_DEVICE
    MAX_CONSUMED,   \* MAX_CONSUMED_CHALLENGES and MAX_CONSUMED_TICKETS
    HORIZON,        \* bound: the latest reading of the clock
    None

ASSUME UnlockConstants ==
    /\ TTL \in Nat \ {0} /\ TICKET_TTL \in Nat \ {0} /\ SKEW \in Nat
    /\ MAX_PENDING \in Nat \ {0} /\ MAX_CONSUMED \in Nat \ {0} /\ HORIZON \in Nat
    /\ None \notin Device /\ None \notin Key

VARIABLES
    enabled,        \* UNLOCK_ENABLED
    now,            \* time.time()
    registry,       \* of a device id: its subkey, or None
    admin,          \* the pair command that each process is running
    pipe,           \* the broker's: "down", "listening" or "connected"
    trusted,        \* _trusted_devices: the snapshot it started with
    challenge,      \* of a challenge: its device, issue and expiry, or None
    pending,        \* AuthorizationVerifier._pending
    consumed,       \* ... _consumed, oldest first
    signed,         \* the challenges that each key signed
    ticket,         \* of a ticket: the challenge it is for and its expiry
    tickets,        \* TicketIssuer._tickets
    spent,          \* ... _consumed, oldest first
    held,           \* the tickets that a caller was told
    paired,         \* history: keys completely registered after a comparison
    redeemed,       \* history: tickets that were consumed
    unlocks         \* history: how often a challenge ended in an unlock

registryVars == <<registry, admin, paired>>
verifierVars == <<challenge, pending, consumed, signed>>
ticketVars == <<ticket, tickets, spent, held, redeemed, unlocks>>
brokerVars == <<pipe, trusted>>
vars == <<enabled, now, registryVars, brokerVars, verifierVars, ticketVars>>

\* PUBLIC_KEY_VALUE and CREATED_AT_VALUE of a subkey.
Entry == [key : Key \cup {None}, created : BOOLEAN]
EmptyEntry == [key |-> None, created |-> FALSE]
Complete(e) == e # None /\ e.key # None /\ e.created

\* A pair command past its checks: which value it writes next, or "gone" once the
\* subkey that it opened was deleted; and (history) whether another pair command
\* for the same id has been under way at the same time.
Pairing == [device : Device, key : Key, at : {"key", "created", "gone"},
            overlaps : BOOLEAN]

\* What the verifier keeps of a challenge, and the issuer of a ticket.
ChallengeRecord == [device : Device, issued : Int, expires : Int]
TicketRecord == [challenge : Challenge, expires : Int]

\* None stands for Python's None, which is no record.
ASSUME NoneIsNoRecord ==
    None \notin Entry \cup Pairing /\ None \notin ChallengeRecord /\ None \notin TicketRecord

TypeOK ==
    /\ enabled \in BOOLEAN /\ now \in 0..HORIZON
    /\ registry \in [Device -> Entry \cup {None}]
    /\ admin \in [Admin -> Pairing \cup {None}]
    /\ pipe \in {"down", "listening", "connected"}
    /\ trusted \in [Device -> Key \cup {None}]
    /\ challenge \in [Challenge -> ChallengeRecord \cup {None}]
    /\ pending \subseteq {c \in Challenge : challenge[c] # None}
    /\ \A d \in Device : Cardinality({c \in pending : challenge[c].device = d}) <= MAX_PENDING
    /\ consumed \in Seq(Challenge) /\ Len(consumed) <= MAX_CONSUMED
    /\ signed \in [Key -> SUBSET Challenge]
    /\ ticket \in [Ticket -> TicketRecord \cup {None}]
    /\ tickets \subseteq Ticket /\ held \subseteq Ticket /\ redeemed \subseteq Ticket
    /\ spent \in Seq(Ticket) /\ Len(spent) <= MAX_CONSUMED
    /\ paired \subseteq Device \X Key
    /\ unlocks \in [Challenge -> Nat]

Init ==
    /\ enabled \in BOOLEAN /\ now = 0
    /\ registry = [d \in Device |-> None] /\ admin = [a \in Admin |-> None]
    /\ paired = {}
    /\ pipe = "down" /\ trusted = [d \in Device |-> None]
    /\ challenge = [c \in Challenge |-> None] /\ pending = {} /\ consumed = <<>>
    /\ signed = [k \in Key |-> {}]
    /\ ticket = [t \in Ticket |-> None] /\ tickets = {} /\ spent = <<>>
    /\ held = {} /\ redeemed = {} /\ unlocks = [c \in Challenge |-> 0]

-----------------------------------------------------------------------------
(* The registry: trusted_unlock_admin and WindowsRegistryDeviceStore *)

SetEntry(d, e) ==
    /\ registry' = [registry EXCEPT ![d] = e]
    /\ paired' = paired \cup {<<d, k>> : k \in {x \in Key : Complete(e) /\ x = e.key}}

\* register: an entry that is complete stays as it is, whether its key is the
\* same or another, and half an entry is neither completed nor overwritten.
WritesOtherKey(e) == TRUE
MayWrite(e) == e \in {None, EmptyEntry}

\* verify_expected_fingerprint: the administrator typed what the device shows.
FingerprintMatches(k, shown) == k = shown

Working(a, d) == admin[a] # None /\ admin[a].device = d

\* CreateKeyEx and the two queries. A command that read PUBLIC_KEY_VALUE before
\* another wrote it goes on whatever it reads of CREATED_AT_VALUE or is
\* refused, so the three are one step.
BeginPair(a, d, k, shown) ==
    /\ admin[a] = None
    /\ FingerprintMatches(k, shown)
    /\ MayWrite(registry[d])
    /\ SetEntry(d, IF registry[d] = None THEN EmptyEntry ELSE registry[d])
    /\ admin' = [x \in Admin |->
          IF x = a THEN [device |-> d, key |-> k, at |-> "key",
                         overlaps |-> \E y \in Admin : Working(y, d)]
          ELSE IF Working(x, d) THEN [admin[x] EXCEPT !.overlaps = TRUE] ELSE admin[x]]
    /\ UNCHANGED <<enabled, now, brokerVars, verifierVars, ticketVars>>

\* SetValueEx, through the handle of the subkey that CreateKeyEx returned.
WriteKey(a) ==
    /\ admin[a] # None /\ admin[a].at = "key"
    /\ LET d == admin[a].device
       IN SetEntry(d, [registry[d] EXCEPT !.key = admin[a].key])
    /\ admin' = [admin EXCEPT ![a].at = "created"]
    /\ UNCHANGED <<enabled, now, brokerVars, verifierVars, ticketVars>>

WriteCreated(a) ==
    /\ admin[a] # None /\ admin[a].at = "created"
    /\ LET d == admin[a].device
       IN SetEntry(d, [registry[d] EXCEPT !.created = TRUE])
    /\ admin' = [admin EXCEPT ![a] = None]
    /\ UNCHANGED <<enabled, now, brokerVars, verifierVars, ticketVars>>

\* DeleteKeyEx: handles of a deleted subkey are useless from then on.
Orphaned(d) ==
    [x \in Admin |-> IF Working(x, d) THEN [admin[x] EXCEPT !.at = "gone"] ELSE admin[x]]

\* A value cannot be written: remove_new_entry, which deletes by path and may
\* fail as well; or the process dies, and nothing is removed.
PairFails(a, removed) ==
    /\ admin[a] # None
    /\ LET d == admin[a].device
       IN /\ SetEntry(d, IF removed THEN None ELSE registry[d])
          /\ admin' = [IF removed THEN Orphaned(d) ELSE admin EXCEPT ![a] = None]
    /\ UNCHANGED <<enabled, now, brokerVars, verifierVars, ticketVars>>

Revoke(d) ==
    /\ registry[d] # None
    /\ SetEntry(d, None)
    /\ admin' = Orphaned(d)
    /\ UNCHANGED <<enabled, now, brokerVars, verifierVars, ticketVars>>

-----------------------------------------------------------------------------
(* The broker's life *)

\* list_devices: an entry that is not complete spoils the whole snapshot.
ReadsAnyKey(e) == e # EmptyEntry
Readable(e) == e # None => Complete(e)

StartBroker ==
    /\ pipe = "down"
    /\ \A d \in Device : Readable(registry[d])
    /\ pipe' = "listening"
    /\ trusted' = [d \in Device |-> IF registry[d] = None THEN None ELSE registry[d].key]
    /\ UNCHANGED <<enabled, now, registryVars, verifierVars, ticketVars>>

\* serve_forever: one instance of the pipe, one client at a time. A client that
\* leaves, or whose message is too large, costs only its own connection.
ConnectClient ==
    /\ pipe = "listening"
    /\ pipe' = "connected"
    /\ UNCHANGED <<enabled, now, registryVars, trusted, verifierVars, ticketVars>>

DisconnectClient ==
    /\ pipe = "connected"
    /\ pipe' = "listening"
    /\ UNCHANGED <<enabled, now, registryVars, trusted, verifierVars, ticketVars>>

\* The process ends, or finds its pipe's name taken when it creates the next
\* instance. Challenges and tickets live in memory.
StopBroker ==
    /\ pipe # "down"
    /\ pipe' = "down"
    /\ trusted' = [d \in Device |-> None]
    /\ pending' = {} /\ consumed' = <<>> /\ tickets' = {} /\ spent' = <<>>
    /\ UNCHANGED <<enabled, now, registryVars, challenge, signed, ticket, held,
                   redeemed, unlocks>>

\* The wall clock passes, or is set back.
Clock ==
    /\ now' \in 0..HORIZON
    /\ now' <= now + 1 /\ now' # now
    /\ UNCHANGED <<enabled, registryVars, brokerVars, verifierVars, ticketVars>>

-----------------------------------------------------------------------------
(* Requests: TrustedUnlockBroker._dispatch *)

\* _require_unlock_enabled comes before any change; "health" changes nothing,
\* and neither does a request that is malformed.
Serves == pipe = "connected" /\ enabled

\* _prune of either table at time t.
Unexpired(S, t) == {c \in S : challenge[c].expires > t}
UnexpiredSeq(s, t) == SelectSeq(s, LAMBDA c : challenge[c].expires > t)
LiveTickets(S, t) == {k \in S : ticket[k].expires > t}
LiveSpent(s, t) == SelectSeq(s, LAMBDA k : ticket[k].expires > t)

\* A table at its limit forgets its oldest entry.
Remember(s, x) == Append(IF Len(s) >= MAX_CONSUMED THEN Tail(s) ELSE s, x)

\* challenge.create: MAX_PENDING_CHALLENGES, the limit over all devices, is
\* above what the devices of a model can have pending together.
CreateChallenge(c, d) ==
    /\ Serves /\ challenge[c] = None
    /\ consumed' = UnexpiredSeq(consumed, now)
    /\ trusted[d] # None
    /\ LET kept == Unexpired(pending, now)
       IN /\ Cardinality({x \in kept : challenge[x].device = d}) < MAX_PENDING
          /\ pending' = kept \cup {c}
    /\ challenge' = [challenge EXCEPT ![c] =
                        [device |-> d, issued |-> now, expires |-> now + TTL]]
    /\ UNCHANGED <<enabled, now, registryVars, brokerVars, signed, ticketVars>>

\* The device that has the key signs what it was shown. Once the challenge is
\* not pending no signature of it is accepted, so later ones are left out.
Sign(k, c) ==
    /\ c \in pending /\ c \notin signed[k]
    /\ signed' = [signed EXCEPT ![k] = @ \cup {c}]
    /\ UNCHANGED <<enabled, now, registryVars, brokerVars, challenge, pending,
                   consumed, ticketVars>>

\* verify_response accepts a signature that the trusted key made.
Verified(c, k) ==
    /\ c \notin ToSet(consumed) /\ c \in pending
    /\ now < challenge[c].expires
    /\ now >= challenge[c].issued - SKEW
    /\ trusted[challenge[c].device] = k /\ c \in signed[k]

Verify(c) ==
    /\ pending' = Unexpired(pending, now) \ {c}
    /\ consumed' = Remember(UnexpiredSeq(consumed, now), c)

\* TicketIssuer.issue at time t, for a challenge that has not expired by then.
Issue(t, c, at) ==
    /\ at < challenge[c].expires
    /\ LET expires == IF at + TICKET_TTL < challenge[c].expires
                      THEN at + TICKET_TTL ELSE challenge[c].expires
       IN ticket' = [ticket EXCEPT ![t] = [challenge |-> c, expires |-> expires]]
    /\ tickets' = LiveTickets(tickets, at) \cup {t}
    /\ spent' = LiveSpent(spent, at)

\* WindowsNamedPipeBrokerClient.request: the caller learns the ticket, or its
\* call timed out or was answered with something else.
Told(t, arrives) == IF arrives THEN held \cup {t} ELSE held

\* challenge.submit: verified, and issue() reads the clock again. The answer
\* may come too late for the caller.
SubmitResponse(c, k, t, at, arrives) ==
    /\ Serves /\ Verified(c, k) /\ ticket[t] = None
    /\ at \in {now, now + 1} /\ at <= HORIZON
    /\ Verify(c)
    /\ Issue(t, c, at)
    /\ held' = Told(t, arrives)
    /\ now' = at
    /\ UNCHANGED <<enabled, registryVars, brokerVars, challenge, signed, redeemed, unlocks>>

\* The challenge expired between the two readings: it is spent for nothing.
SubmitTooLate(c, k) ==
    /\ Serves /\ Verified(c, k)
    /\ now + 1 >= challenge[c].expires /\ now < HORIZON
    /\ Verify(c)
    /\ now' = now + 1
    /\ UNCHANGED <<enabled, registryVars, brokerVars, challenge, signed, ticketVars>>

\* Any other answer to a challenge that is not remembered as consumed only
\* drops what expired.
SubmitRefused(c) ==
    /\ Serves /\ c \notin ToSet(consumed)
    /\ pending' = Unexpired(pending, now)
    /\ consumed' = UnexpiredSeq(consumed, now)
    /\ UNCHANGED <<enabled, now, registryVars, brokerVars, challenge, signed, ticketVars>>

KeepsTicket(t) == tickets
TakesTicket(t) == tickets \ {t}

\* TicketIssuer.consume.
Redeem(t) ==
    /\ t \notin ToSet(spent) /\ t \in tickets
    /\ now < ticket[t].expires
    /\ tickets' = LiveTickets(TakesTicket(t), now)
    /\ spent' = LiveSpent(Remember(spent, t), now)

\* ticket.consume: what it returns is the permission to unlock.
ConsumeTicket(t) ==
    /\ Serves /\ t \in held
    /\ Redeem(t)
    /\ redeemed' = redeemed \cup {t}
    /\ unlocks' = [unlocks EXCEPT ![ticket[t].challenge] = @ + 1]
    /\ UNCHANGED <<enabled, now, registryVars, brokerVars, verifierVars, ticket, held>>

ConsumeExpired(t) ==
    /\ Serves /\ t \in held
    /\ t \notin ToSet(spent) /\ t \in tickets
    /\ now >= ticket[t].expires
    /\ tickets' = LiveTickets(tickets, now)
    /\ spent' = LiveSpent(spent, now)
    /\ UNCHANGED <<enabled, now, registryVars, brokerVars, verifierVars, ticket, held,
                   redeemed, unlocks>>

Next ==
    \/ \E d \in Device : Revoke(d)
    \/ \E a \in Admin :
          \/ \E d \in Device, k, shown \in Key : BeginPair(a, d, k, shown)
          \/ WriteKey(a) \/ WriteCreated(a) \/ \E b \in BOOLEAN : PairFails(a, b)
    \/ StartBroker \/ ConnectClient \/ DisconnectClient \/ StopBroker \/ Clock
    \/ \E c \in Challenge :
          \/ \E d \in Device : CreateChallenge(c, d)
          \/ \E k \in Key : Sign(k, c) \/ SubmitTooLate(c, k)
          \/ \E k \in Key, t \in Ticket, at \in 0..HORIZON, b \in BOOLEAN :
                SubmitResponse(c, k, t, at, b)
          \/ SubmitRefused(c)
    \/ \E t \in Ticket : ConsumeTicket(t) \/ ConsumeExpired(t)

Spec == Init /\ [][Next]_vars

-----------------------------------------------------------------------------
(* Properties *)

\* A signed challenge ends in at most one unlock, although both memories of
\* what was consumed forget their oldest entries, drop expired ones and are
\* lost when the broker restarts, and although the clock may be set back
\* (verify_response, issue, consume and the two _prune).
OneUnlockPerChallenge == \A c \in Challenge : unlocks[c] <= 1

\* Nothing is unlocked unless the device's key signed the challenge, and that
\* key was once completely registered for the device: a registration that was
\* interrupted is never trusted (register, list_devices, verify_response).
UnlocksAreAuthorized ==
    \A c \in Challenge : unlocks[c] > 0 =>
        \E k \in Key : c \in signed[k] /\ <<challenge[c].device, k>> \in paired

\* The entry of a paired device changes only when it is revoked, also when pair
\* commands fail, are interrupted or are repeated with another key. The one
\* exception are pair commands for the same id that run at the same time: the
\* store takes no lock, so the later write wins over a complete entry, and the
\* clean-up of the one that fails removes it (register, remove_new_entry).
NoSilentReplacement ==
    [][\A d \in Device : Complete(registry[d]) /\ registry'[d] # registry[d] =>
          \/ Revoke(d)
          \/ \E a \in Admin : Working(a, d) /\ admin[a].overlaps]_vars

Stage(t) ==
    CASE ticket[t] = None -> "fresh"
      [] t \in tickets    -> "live"
      [] t \in redeemed   -> "spent"
      [] OTHER            -> "void"

DeviceOf(t) == IF ticket[t] = None THEN None ELSE challenge[ticket[t].challenge].device

OneUseTicket == INSTANCE OneUse WITH
    Token <- Ticket, Holder <- Device, NoHolder <- None,
    stage <- [t \in Ticket |-> Stage(t)],
    holder <- [t \in Ticket |-> DeviceOf(t)],
    redeemer <- [t \in Ticket |-> IF t \in redeemed THEN DeviceOf(t) ELSE None]

\* A ticket is a one-use token: it is redeemed at most once, never after it
\* expired or the broker restarted (TicketIssuer).
TicketsAreOneUse == OneUseTicket!TokenSpec
-----------------------------------------------------------------------------
(* The inductive invariant. The two memories of what was consumed are not in *)
(* it: that a challenge unlocks once rests on its leaving _pending and on    *)
(* its ticket leaving _tickets.                                              *)

DomainsInv ==
    /\ now \in Int
    /\ registry \in [Device -> Entry \cup {None}]
    /\ admin \in [Admin -> Pairing \cup {None}]
    /\ trusted \in [Device -> Key \cup {None}]
    /\ challenge \in [Challenge -> ChallengeRecord \cup {None}]
    /\ pending \subseteq {c \in Challenge : challenge[c] # None}
    /\ signed \in [Key -> SUBSET Challenge]
    /\ ticket \in [Ticket -> TicketRecord \cup {None}]
    /\ tickets \cup redeemed \subseteq {t \in Ticket : ticket[t] # None}
    /\ unlocks \in [Challenge -> Nat]

\* A key is complete in the registry, or trusted by the broker, only if it was
\* paired; a subkey that was not deleted exists; and the entry of a pair command
\* that has run alone is not complete.
PairedInv ==
    /\ \A d \in Device : Complete(registry[d]) => <<d, registry[d].key>> \in paired
    /\ \A d \in Device : trusted[d] # None => <<d, trusted[d]>> \in paired
SubkeyInv ==
    \A a \in Admin : admin[a] # None /\ admin[a].at # "gone" => registry[admin[a].device] # None
AloneInv ==
    \A a \in Admin : admin[a] # None /\ ~admin[a].overlaps =>
        /\ registry[admin[a].device] # None => ~registry[admin[a].device].created
        /\ \A b \in Admin \ {a} : ~Working(b, admin[a].device)
RegistryInv == PairedInv /\ SubkeyInv /\ AloneInv

\* A challenge has one ticket at most, gets it when it leaves _pending, and
\* only for the signature of a paired key.
TicketsInv ==
    /\ tickets \cap redeemed = {}
    /\ \A t, u \in Ticket :
          ticket[t] # None /\ ticket[u] # None /\ ticket[t].challenge = ticket[u].challenge
             => t = u
    /\ \A t \in Ticket : ticket[t] # None =>
          LET c == ticket[t].challenge
          IN /\ c \notin pending /\ challenge[c] # None
             /\ \E k \in Key : c \in signed[k] /\ <<challenge[c].device, k>> \in paired

\* What was unlocked was unlocked once, with a ticket that was redeemed.
UnlocksInv ==
    /\ OneUnlockPerChallenge
    /\ \A c \in Challenge : unlocks[c] > 0 => \E t \in redeemed : ticket[t].challenge = c

IInv == DomainsInv /\ RegistryInv /\ TicketsInv /\ UnlocksInv
=============================================================================
