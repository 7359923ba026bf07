---------------------------- MODULE UnlockProofs ----------------------------
(***************************************************************************)
(* Proofs about Unlock for any devices, keys, challenges and tickets, any  *)
(* lifetimes and limits, and a clock that may be set back: one unlock per  *)
(* signed challenge, only with a key that was completely paired, a paired  *)
(* key changes only by revocation or between overlapping pair commands,    *)
(* and the limit per device is kept.                                       *)
(***************************************************************************)
EXTENDS Unlock, FiniteSetTheorems, TLAPS

LEMMA InvInit == Init => IInv
  <1> SUFFICES ASSUME Init
               PROVE  IInv
    OBVIOUS
  <1>1. DomainsInv
    BY UnlockConstants DEF Init, DomainsInv
  <1>2. RegistryInv /\ TicketsInv /\ UnlocksInv
    BY DEF Init, RegistryInv, PairedInv, SubkeyInv, AloneInv, TicketsInv, UnlocksInv,
       OneUnlockPerChallenge, Complete
  <1>3. QED
    BY <1>1, <1>2 DEF IInv

-----------------------------------------------------------------------------
(* The registry *)

\* Writing an entry keeps the domains, and records what it completes.
LEMMA SetEntryFacts ==
    ASSUME IInv, NEW d \in Device, NEW e \in Entry \cup {None}, SetEntry(d, e)
    PROVE  /\ registry' = [registry EXCEPT ![d] = e]
           /\ registry' \in [Device -> Entry \cup {None}]
           /\ paired \subseteq paired'
           /\ \A x \in Device : Complete(registry'[x]) => <<x, registry'[x].key>> \in paired'
  <1>1. /\ registry' = [registry EXCEPT ![d] = e] /\ paired \subseteq paired'
        /\ registry' \in [Device -> Entry \cup {None}]
    BY DEF IInv, DomainsInv, SetEntry
  <1>2. ASSUME NEW x \in Device, Complete(registry'[x])
        PROVE  <<x, registry'[x].key>> \in paired'
    <2>1. CASE x = d
      <3>1. registry'[x] = e /\ Complete(e)
        BY <1>1, <1>2, <2>1 DEF IInv, DomainsInv
      <3>2. e.key \in Key
        BY <3>1 DEF Complete, Entry
      <3>3. QED
        BY <2>1, <3>1, <3>2 DEF SetEntry
    <2>2. CASE x # d
      BY <1>1, <1>2, <2>2 DEF IInv, DomainsInv, RegistryInv, PairedInv
    <2>3. QED
      BY <2>1, <2>2
  <1>3. QED
    BY <1>1, <1>2

\* The steps of the tool leave the broker alone: what it proved about a device's
\* key stays true, since a paired key is never forgotten by the history.
LEMMA AdminStep ==
    ASSUME IInv, paired \subseteq paired',
           registry' \in [Device -> Entry \cup {None}],
           \A x \in Device : Complete(registry'[x]) => <<x, registry'[x].key>> \in paired',
           admin' \in [Admin -> Pairing \cup {None}], SubkeyInv', AloneInv',
           UNCHANGED <<now, brokerVars, verifierVars, ticketVars>>
    PROVE  IInv'
  <1> USE DEF brokerVars, verifierVars, ticketVars
  <1>1. DomainsInv'
    BY DEF IInv, DomainsInv
  <1>2. RegistryInv'
    <2>1. PairedInv'
      BY DEF IInv, DomainsInv, RegistryInv, PairedInv
    <2>2. QED
      BY <2>1 DEF RegistryInv
  <1>3. TicketsInv'
    BY DEF IInv, TicketsInv
  <1>4. UnlocksInv'
    BY DEF IInv, UnlocksInv, OneUnlockPerChallenge
  <1>5. QED
    BY <1>1, <1>2, <1>3, <1>4 DEF IInv

\* The commands for a deleted subkey find out; no other command notices.
LEMMA OrphanedFacts ==
    ASSUME IInv, NEW d \in Device
    PROVE  /\ Orphaned(d) \in [Admin -> Pairing \cup {None}]
           /\ \A a \in Admin : ~ Working(a, d) => Orphaned(d)[a] = admin[a]
           /\ \A a \in Admin : Working(a, d) =>
                Orphaned(d)[a] = [admin[a] EXCEPT !.at = "gone"]
           /\ \A a \in Admin : Orphaned(d)[a] = None <=> admin[a] = None
  <1>1. \A a \in Admin : admin[a] \in Pairing \cup {None}
    BY DEF IInv, DomainsInv
  <1>2. \A a \in Admin : Working(a, d) =>
          [admin[a] EXCEPT !.at = "gone"] \in Pairing
    BY <1>1 DEF Working, Pairing
  <1>3. QED
    BY <1>1, <1>2, NoneIsNoRecord DEF Orphaned, Working

\* Deleting an entry, when it is revoked or by a pair command that fails.
LEMMA DeleteStep ==
    ASSUME IInv, NEW d \in Device, SetEntry(d, None),
           admin' \in [Admin -> Pairing \cup {None}],
           \A a \in Admin : admin'[a] \in {None, Orphaned(d)[a]},
           UNCHANGED <<now, brokerVars, verifierVars, ticketVars>>
    PROVE  IInv'
  <1>1. registry' = [registry EXCEPT ![d] = None] /\ DomainsInv
    BY SetEntryFacts DEF IInv
  <1>2. ASSUME NEW a \in Admin, admin'[a] # None
        PROVE  /\ admin[a] # None /\ admin'[a].device = admin[a].device
               /\ admin'[a].overlaps = admin[a].overlaps
               /\ admin'[a].at \in {admin[a].at, "gone"}
               /\ admin[a].device = d => admin'[a].at = "gone"
               /\ admin[a].device \in Device
    <2>1. admin'[a] = Orphaned(d)[a] /\ admin[a] # None /\ admin[a] \in Pairing
      BY <1>1, <1>2, OrphanedFacts DEF DomainsInv
    <2>2. CASE Working(a, d)
      <3>1. admin'[a] = [admin[a] EXCEPT !.at = "gone"]
        BY <2>1, <2>2, OrphanedFacts
      <3>2. QED
        BY <2>1, <3>1 DEF Pairing
    <2>3. CASE ~ Working(a, d)
      BY <2>1, <2>3, OrphanedFacts DEF Pairing, Working
    <2>4. QED
      BY <2>2, <2>3
  <1>3. SubkeyInv'
    <2> SUFFICES ASSUME NEW a \in Admin, admin'[a] # None, admin'[a].at # "gone"
                 PROVE  registry'[admin'[a].device] # None
      BY DEF SubkeyInv
    <2>1. admin[a] # None /\ admin[a].at # "gone" /\ admin[a].device # d
      BY <1>2
    <2>2. QED
      BY <1>1, <1>2, <2>1 DEF IInv, RegistryInv, SubkeyInv, DomainsInv
  <1>4. AloneInv'
    <2> SUFFICES ASSUME NEW a \in Admin, admin'[a] # None, ~ admin'[a].overlaps
                 PROVE  /\ registry'[admin'[a].device] # None
                             => ~ registry'[admin'[a].device].created
                        /\ \A b \in Admin \ {a} : ~ Working(b, admin[a].device)'
      BY <1>2 DEF AloneInv, Working
    <2>1. /\ registry[admin[a].device] # None => ~ registry[admin[a].device].created
          /\ \A b \in Admin \ {a} : ~ Working(b, admin[a].device)
      BY <1>2 DEF IInv, RegistryInv, AloneInv
    <2>2. \A b \in Admin \ {a} : ~ (admin'[b] # None /\ admin'[b].device = admin[a].device)
      BY <1>2, <2>1 DEF Working
    <2>3. registry'[admin'[a].device] # None => ~ registry'[admin'[a].device].created
      BY <1>1, <1>2, <2>1 DEF DomainsInv
    <2>4. \A b \in Admin \ {a} : ~ Working(b, admin[a].device)'
      <3>1. admin'[a].device = admin[a].device
        BY <1>2
      <3>2. QED
        BY <2>2, <3>1 DEF Working
    <2>5. QED
      BY <2>3, <2>4
  <1>5. QED
    BY <1>3, <1>4, SetEntryFacts, AdminStep

\* Writing a value of an entry, by a pair command that goes on or ends.
LEMMA WriteStep ==
    ASSUME IInv, NEW a \in Admin, admin[a] # None, NEW e \in Entry,
           SetEntry(admin[a].device, e),
           e.created => admin'[a] = None \/ registry[admin[a].device].created,
           registry[admin[a].device] # None,
           admin' \in [Admin -> Pairing \cup {None}],
           \A b \in Admin \ {a} : admin'[b] = admin[b],
           admin'[a] # None => /\ admin'[a].device = admin[a].device
                               /\ admin'[a].overlaps = admin[a].overlaps,
           UNCHANGED <<now, brokerVars, verifierVars, ticketVars>>
    PROVE  IInv'
  <1> DEFINE d == admin[a].device
  <1>1. d \in Device /\ e # None /\ DomainsInv
    BY NoneIsNoRecord DEF IInv, DomainsInv, Pairing
  <1>2. registry' = [registry EXCEPT ![d] = e]
    BY <1>1, SetEntryFacts
  <1>3. \A b \in Admin : admin[b] # None => admin[b].device \in Device
    BY <1>1 DEF DomainsInv, Pairing
  <1>4. SubkeyInv'
    <2> SUFFICES ASSUME NEW b \in Admin, admin'[b] # None, admin'[b].at # "gone"
                 PROVE  registry'[admin'[b].device] # None
      BY DEF SubkeyInv
    <2>1. CASE b = a
      BY <1>1, <1>2, <2>1 DEF DomainsInv
    <2>2. CASE b # a
      <3>1. admin'[b] = admin[b]
        BY <2>2
      <3>2. QED
        BY <1>1, <1>2, <1>3, <3>1 DEF IInv, RegistryInv, SubkeyInv, DomainsInv
    <2>3. QED
      BY <2>1, <2>2
  <1>5. AloneInv'
    <2> SUFFICES ASSUME NEW b \in Admin, admin'[b] # None, ~ admin'[b].overlaps
                 PROVE  /\ registry'[admin'[b].device] # None
                             => ~ registry'[admin'[b].device].created
                        /\ \A c \in Admin \ {b} :
                             ~ (admin'[c] # None /\ admin'[c].device = admin'[b].device)
      BY DEF AloneInv, Working
    <2>1. /\ admin[b] # None /\ admin'[b].device = admin[b].device
          /\ admin'[b].overlaps = admin[b].overlaps
      OBVIOUS
    <2>2. /\ registry[admin[b].device] # None => ~ registry[admin[b].device].created
          /\ \A c \in Admin \ {b} : ~ (admin[c] # None /\ admin[c].device = admin[b].device)
      BY <2>1 DEF IInv, RegistryInv, AloneInv, Working
    <2>3. \A c \in Admin \ {b} : ~ (admin'[c] # None /\ admin'[c].device = admin'[b].device)
      BY <2>1, <2>2
    <2>4. registry'[admin'[b].device] # None => ~ registry'[admin'[b].device].created
      <3>1. CASE b = a
        BY <1>1, <1>2, <2>1, <2>2, <3>1 DEF DomainsInv
      <3>2. CASE b # a
        <4>1. admin[b].device # d
          BY <2>2, <3>2
        <4>2. QED
          BY <1>1, <1>2, <1>3, <2>1, <2>2, <4>1 DEF DomainsInv
      <3>3. QED
        BY <3>1, <3>2
    <2>5. QED
      BY <2>3, <2>4
  <1>6. QED
    BY <1>1, <1>4, <1>5, SetEntryFacts, AdminStep

\* A pair command that begins tells the others for the same id that it is there.
LEMMA BeginStep ==
    ASSUME IInv, NEW a \in Admin, NEW d \in Device, NEW k \in Key, NEW shown \in Key,
           BeginPair(a, d, k, shown)
    PROVE  IInv'
  <1> DEFINE new == [device |-> d, key |-> k, at |-> "key",
                     overlaps |-> \E y \in Admin : Working(y, d)]
  <1>1. /\ DomainsInv /\ EmptyEntry \in Entry /\ EmptyEntry # None
        /\ \A b \in Admin : admin[b] # None => admin[b] \in Pairing
    <2>1. DomainsInv /\ \A b \in Admin : admin[b] # None => admin[b] \in Pairing
      BY DEF IInv, DomainsInv
    <2>2. EmptyEntry \in Entry
      BY DEF EmptyEntry, Entry
    <2>3. QED
      BY <2>1, <2>2, NoneIsNoRecord
  <1>2. SetEntry(d, EmptyEntry) /\ registry' = [registry EXCEPT ![d] = EmptyEntry]
    <2>1. registry[d] \in {None, EmptyEntry}
      BY DEF BeginPair, MayWrite
    <2>2. SetEntry(d, EmptyEntry)
      BY <2>1 DEF BeginPair
    <2>3. QED
      BY <2>2 DEF SetEntry
  <1>3. new \in Pairing /\ new # None
    <2>1. (\E y \in Admin : Working(y, d)) \in BOOLEAN
      BY Zenon
    <2>2. new \in Pairing
      BY <2>1 DEF Pairing
    <2>3. QED
      BY <2>2, NoneIsNoRecord
  <1>4. /\ admin'[a] = new
        /\ \A x \in Admin \ {a} : admin'[x] =
             IF Working(x, d) THEN [admin[x] EXCEPT !.overlaps = TRUE] ELSE admin[x]
        /\ admin[a] = None
    BY DEF BeginPair
  <1>5. ASSUME NEW x \in Admin \ {a}
        PROVE  /\ admin'[x] = None <=> admin[x] = None
               /\ admin'[x] \in Pairing \cup {None}
               /\ admin'[x] # None =>
                    /\ admin'[x].device = admin[x].device /\ admin'[x].at = admin[x].at
                    /\ ~ admin'[x].overlaps => ~ Working(x, d) /\ ~ admin[x].overlaps
    <2>1. CASE Working(x, d)
      <3>1. admin[x] \in Pairing /\ admin'[x] = [admin[x] EXCEPT !.overlaps = TRUE]
        BY <1>1, <1>4, <2>1 DEF Working
      <3>2. admin'[x] \in Pairing /\ admin'[x].overlaps = TRUE
            /\ admin'[x].device = admin[x].device /\ admin'[x].at = admin[x].at
        BY <3>1 DEF Pairing
      <3>3. QED
        BY <2>1, <3>2, NoneIsNoRecord DEF Working
    <2>2. CASE ~ Working(x, d)
      BY <1>1, <1>4, <2>2
    <2>3. QED
      BY <2>1, <2>2
  <1>6. admin' \in [Admin -> Pairing \cup {None}]
    BY <1>3, <1>4, <1>5 DEF BeginPair
  <1>7. SubkeyInv'
    <2> SUFFICES ASSUME NEW b \in Admin, admin'[b] # None, admin'[b].at # "gone"
                 PROVE  registry'[admin'[b].device] # None
      BY DEF SubkeyInv
    <2>1. CASE b = a
      BY <1>1, <1>2, <1>4, <2>1 DEF DomainsInv
    <2>2. CASE b # a
      <3>1. admin[b] # None /\ admin'[b].device = admin[b].device /\ admin[b].at # "gone"
            /\ admin[b].device \in Device
        BY <1>1, <1>5, <2>2 DEF Pairing
      <3>2. QED
        BY <1>1, <1>2, <3>1 DEF IInv, RegistryInv, SubkeyInv, DomainsInv
    <2>3. QED
      BY <2>1, <2>2
  <1>8. AloneInv'
    <2> SUFFICES ASSUME NEW b \in Admin, admin'[b] # None, ~ admin'[b].overlaps
                 PROVE  /\ registry'[admin'[b].device] # None
                             => ~ registry'[admin'[b].device].created
                        /\ \A c \in Admin \ {b} :
                             ~ (admin'[c] # None /\ admin'[c].device = admin'[b].device)
      BY DEF AloneInv, Working
    <2>1. CASE b = a
      <3>1. admin'[b].device = d /\ \A y \in Admin : ~ Working(y, d)
        BY <1>4, <2>1
      <3>2. registry'[d] = EmptyEntry
        BY <1>1, <1>2 DEF DomainsInv
      <3>3. \A c \in Admin \ {b} : ~ (admin'[c] # None /\ admin'[c].device = d)
        BY <1>5, <2>1, <3>1 DEF Working
      <3>4. QED
        BY <3>1, <3>2, <3>3 DEF EmptyEntry
    <2>2. CASE b # a
      <3>1. /\ admin[b] # None /\ admin'[b].device = admin[b].device
            /\ ~ admin[b].overlaps /\ admin[b].device # d /\ admin[b].device \in Device
        BY <1>1, <1>5, <2>2 DEF Working, Pairing
      <3>2. /\ registry[admin[b].device] # None => ~ registry[admin[b].device].created
            /\ \A c \in Admin \ {b} : ~ (admin[c] # None /\ admin[c].device = admin[b].device)
        BY <3>1 DEF IInv, RegistryInv, AloneInv, Working
      <3>3. registry'[admin[b].device] = registry[admin[b].device]
        BY <1>1, <1>2, <3>1 DEF DomainsInv
      <3>4. ASSUME NEW c \in Admin \ {b}, admin'[c] # None
            PROVE  admin'[c].device # admin[b].device
        <4>1. CASE c = a
          BY <1>4, <3>1, <4>1
        <4>2. CASE c # a
          BY <1>5, <3>2, <3>4, <4>2
        <4>3. QED
          BY <4>1, <4>2
      <3>5. QED
        BY <3>1, <3>2, <3>3, <3>4
    <2>3. QED
      BY <2>1, <2>2
  <1>9. QED
    BY <1>1, <1>2, <1>6, <1>7, <1>8, SetEntryFacts, AdminStep DEF BeginPair

RegistryAction ==
    \/ \E d \in Device : Revoke(d)
    \/ \E a \in Admin :
          \/ \E d \in Device, k, shown \in Key : BeginPair(a, d, k, shown)
          \/ WriteKey(a) \/ WriteCreated(a) \/ \E b \in BOOLEAN : PairFails(a, b)

LEMMA RegistryStep ==
    ASSUME IInv, RegistryAction
    PROVE  IInv'
  <1>0. DomainsInv /\ admin \in [Admin -> Pairing \cup {None}]
    BY DEF IInv, DomainsInv
  <1>1. ASSUME NEW d \in Device, Revoke(d)
        PROVE  IInv'
    BY <1>1, OrphanedFacts, DeleteStep DEF Revoke
  <1>2. ASSUME NEW a \in Admin, WriteKey(a)
        PROVE  IInv'
    <2> DEFINE d == admin[a].device
               e == [registry[d] EXCEPT !.key = admin[a].key]
               f == [admin[a] EXCEPT !.at = "created"]
    <2>1. admin[a] \in Pairing /\ admin[a].at = "key" /\ d \in Device
      BY <1>0, <1>2 DEF WriteKey, Pairing
    <2>2. registry[d] \in Entry
      BY <1>0, <1>2, <2>1 DEF WriteKey, IInv, RegistryInv, SubkeyInv, DomainsInv
    <2>3. e \in Entry /\ e.created = registry[d].created
      BY <2>1, <2>2 DEF Entry, Pairing
    <2>4. f \in Pairing /\ f.device = d /\ f.overlaps = admin[a].overlaps
      BY <2>1 DEF Pairing
    <2>5. SetEntry(d, e) /\ admin' = [admin EXCEPT ![a] = f]
      BY <1>2 DEF WriteKey
    <2>6. registry[d] # None /\ admin[a] # None
      BY <2>1, <2>2, NoneIsNoRecord
    <2>7. admin'[a] = f /\ \A b \in Admin \ {a} : admin'[b] = admin[b]
      BY <1>0, <2>5
    <2>8. admin' \in [Admin -> Pairing \cup {None}]
      BY <1>0, <2>4, <2>5
    <2>9. UNCHANGED <<now, brokerVars, verifierVars, ticketVars>>
      BY <1>2 DEF WriteKey
    <2> HIDE DEF e, f
    <2>10. QED
      BY <2>3, <2>4, <2>5, <2>6, <2>7, <2>8, <2>9, WriteStep
  <1>3. ASSUME NEW a \in Admin, WriteCreated(a)
        PROVE  IInv'
    <2> DEFINE d == admin[a].device
               e == [registry[d] EXCEPT !.created = TRUE]
    <2>1. admin[a] \in Pairing /\ admin[a].at = "created" /\ d \in Device
      BY <1>0, <1>3 DEF WriteCreated, Pairing
    <2>2. registry[d] \in Entry
      BY <1>0, <1>3, <2>1 DEF WriteCreated, IInv, RegistryInv, SubkeyInv, DomainsInv
    <2>3. e \in Entry
      BY <2>2 DEF Entry
    <2>4. SetEntry(d, e) /\ admin' = [admin EXCEPT ![a] = None]
      BY <1>3 DEF WriteCreated
    <2>5. registry[d] # None /\ admin[a] # None
      BY <2>1, <2>2, NoneIsNoRecord
    <2>6. admin'[a] = None /\ (\A b \in Admin \ {a} : admin'[b] = admin[b])
          /\ admin' \in [Admin -> Pairing \cup {None}]
      BY <1>0, <2>4
    <2>7. UNCHANGED <<now, brokerVars, verifierVars, ticketVars>>
      BY <1>3 DEF WriteCreated
    <2> HIDE DEF e
    <2>8. QED
      BY <2>3, <2>4, <2>5, <2>6, <2>7, WriteStep
  <1>4. ASSUME NEW a \in Admin, PairFails(a, TRUE)
        PROVE  IInv'
    <2> DEFINE d == admin[a].device
    <2>1. admin[a] \in Pairing /\ d \in Device
      BY <1>0, <1>4 DEF PairFails, Pairing
    <2>2. SetEntry(d, None) /\ admin' = [Orphaned(d) EXCEPT ![a] = None]
      BY <1>4 DEF PairFails
    <2>3. admin' \in [Admin -> Pairing \cup {None}]
          /\ \A b \in Admin : admin'[b] \in {None, Orphaned(d)[b]}
      BY <2>1, <2>2, OrphanedFacts
    <2>4. QED
      BY <1>4, <2>1, <2>2, <2>3, DeleteStep DEF PairFails
  <1>5. ASSUME NEW a \in Admin, PairFails(a, FALSE)
        PROVE  IInv'
    <2> DEFINE d == admin[a].device
    <2>1. admin[a] \in Pairing /\ d \in Device /\ registry[d] \in Entry \cup {None}
      BY <1>0, <1>5 DEF PairFails, Pairing, DomainsInv
    <2>2. SetEntry(d, registry[d]) /\ admin' = [admin EXCEPT ![a] = None]
      BY <1>5 DEF PairFails
    <2>3. registry' = registry /\ registry \in [Device -> Entry \cup {None}]
      BY <1>0, <2>1, <2>2, SetEntryFacts DEF DomainsInv
    <2>4. /\ admin'[a] = None /\ admin' \in [Admin -> Pairing \cup {None}]
          /\ \A b \in Admin : admin'[b] # None => admin'[b] = admin[b]
      BY <1>0, <2>2
    <2>5. SubkeyInv' /\ AloneInv'
      BY <2>3, <2>4 DEF IInv, RegistryInv, SubkeyInv, AloneInv, Working
    <2>6. QED
      BY <1>5, <2>1, <2>2, <2>3, <2>4, <2>5, SetEntryFacts, AdminStep DEF PairFails
  <1>6. QED
    BY <1>1, <1>2, <1>3, <1>4, <1>5, BeginStep DEF RegistryAction

-----------------------------------------------------------------------------
(* The broker *)

\* Steps of the broker that take challenges and tickets away, or none.
LEMMA ShrinkStep ==
    ASSUME IInv, now' \in Int,
           trusted' \in [Device -> Key \cup {None}],
           \A d \in Device : trusted'[d] # None => <<d, trusted'[d]>> \in paired,
           pending' \subseteq pending, tickets' \subseteq tickets,
           UNCHANGED <<registryVars, challenge, signed, ticket, redeemed, unlocks>>
    PROVE  IInv'
  <1> USE DEF registryVars
  <1>1. DomainsInv'
    BY DEF IInv, DomainsInv
  <1>2. RegistryInv'
    BY DEF IInv, RegistryInv, PairedInv, SubkeyInv, AloneInv, Working
  <1>3. TicketsInv'
    BY DEF IInv, TicketsInv
  <1>4. UnlocksInv'
    BY DEF IInv, UnlocksInv, OneUnlockPerChallenge
  <1>5. QED
    BY <1>1, <1>2, <1>3, <1>4 DEF IInv

\* The snapshot holds complete entries only, so every key in it was paired.
LEMMA StartStep ==
    ASSUME IInv, StartBroker
    PROVE  IInv'
  <1>1. \A d \in Device : registry[d] # None =>
            registry[d].key \in Key /\ <<d, registry[d].key>> \in paired
    BY DEF StartBroker, Readable, Complete, Entry, IInv, DomainsInv, RegistryInv,
       PairedInv
  <1>2. trusted' = [d \in Device |-> IF registry[d] = None THEN None ELSE registry[d].key]
    BY DEF StartBroker
  <1>3. QED
    BY <1>1, <1>2, ShrinkStep DEF StartBroker, IInv, DomainsInv, verifierVars, ticketVars

LEMMA LifeStep ==
    ASSUME IInv, \/ ConnectClient \/ DisconnectClient \/ StopBroker \/ Clock
                 \/ UNCHANGED vars
    PROVE  IInv'
  <1>1. now' \in Int
    BY DEF ConnectClient, DisconnectClient, StopBroker, Clock, vars, IInv, DomainsInv
  <1>2. /\ trusted' \in [Device -> Key \cup {None}]
        /\ \A d \in Device : trusted'[d] # None => <<d, trusted'[d]>> \in paired
    BY DEF ConnectClient, DisconnectClient, StopBroker, Clock, vars, IInv, DomainsInv,
       RegistryInv, PairedInv, brokerVars
  <1>3. /\ pending' \subseteq pending /\ tickets' \subseteq tickets
        /\ UNCHANGED <<registryVars, challenge, signed, ticket, redeemed, unlocks>>
    BY DEF ConnectClient, DisconnectClient, StopBroker, Clock, vars, verifierVars, ticketVars
  <1>4. QED
    BY <1>1, <1>2, <1>3, ShrinkStep

\* A fresh challenge has no ticket yet.
LEMMA CreateStep ==
    ASSUME IInv, NEW c \in Challenge, NEW d \in Device, CreateChallenge(c, d)
    PROVE  IInv'
  <1> DEFINE r == [device |-> d, issued |-> now, expires |-> now + TTL]
  <1>1. /\ challenge[c] = None
        /\ challenge' = [challenge EXCEPT ![c] = r]
        /\ pending' \subseteq pending \cup {c}
        /\ UNCHANGED <<now, registry, admin, paired, trusted, signed, ticket, tickets,
                       redeemed, unlocks>>
    BY DEF CreateChallenge, Unexpired, registryVars, brokerVars, ticketVars
  <1>2. r \in ChallengeRecord /\ r # None
    BY UnlockConstants, NoneIsNoRecord DEF IInv, DomainsInv, ChallengeRecord
  <1>3. DomainsInv'
    BY <1>1, <1>2 DEF IInv, DomainsInv
  <1>4. RegistryInv' /\ UnlocksInv'
    BY <1>1 DEF IInv, RegistryInv, PairedInv, SubkeyInv, AloneInv, Working, UnlocksInv,
       OneUnlockPerChallenge
  <1>5. \A t \in Ticket : ticket[t] # None => ticket[t].challenge # c
    BY <1>1 DEF IInv, TicketsInv
  <1>6. TicketsInv'
    BY <1>1, <1>2, <1>5 DEF IInv, DomainsInv, TicketsInv, TicketRecord
  <1>7. QED
    BY <1>3, <1>4, <1>6 DEF IInv

LEMMA SignStep ==
    ASSUME IInv, NEW k \in Key, NEW c \in Challenge, Sign(k, c)
    PROVE  IInv'
  <1>1. /\ signed' = [signed EXCEPT ![k] = @ \cup {c}]
        /\ UNCHANGED <<now, registry, admin, paired, trusted, challenge, pending, ticket,
                       tickets, redeemed, unlocks>>
    BY DEF Sign, registryVars, brokerVars, ticketVars
  <1>2. DomainsInv' /\ RegistryInv'
    BY <1>1 DEF IInv, DomainsInv, RegistryInv, PairedInv, SubkeyInv, AloneInv, Working
  <1>3. \A x \in Key : signed[x] \subseteq signed'[x]
    BY <1>1 DEF IInv, DomainsInv
  <1>4. TicketsInv'
    BY <1>1, <1>3 DEF IInv, TicketsInv
  <1>5. UnlocksInv'
    BY <1>1 DEF IInv, UnlocksInv, OneUnlockPerChallenge
  <1>6. QED
    BY <1>2, <1>4, <1>5 DEF IInv

\* The answer that is accepted leaves _pending with the one ticket it will have,
\* signed by the key that the snapshot holds for the device.
LEMMA SubmitStep ==
    ASSUME IInv, NEW c \in Challenge, NEW k \in Key, NEW t \in Ticket, NEW at \in 0..HORIZON,
           NEW b \in BOOLEAN, SubmitResponse(c, k, t, at, b)
    PROVE  IInv'
  <1>1. PICK e : ticket' = [ticket EXCEPT ![t] = [challenge |-> c, expires |-> e]]
                 /\ e \in {at + TICKET_TTL, challenge[c].expires}
    BY DEF SubmitResponse, Issue
  <1> DEFINE r == [challenge |-> c, expires |-> e]
  <1>2. /\ ticket[t] = None /\ now' = at /\ c \in pending
        /\ pending' \subseteq pending \ {c}
        /\ tickets' \subseteq tickets \cup {t}
        /\ trusted[challenge[c].device] = k /\ c \in signed[k]
        /\ UNCHANGED <<registry, admin, paired, trusted, challenge, signed, redeemed, unlocks>>
    BY DEF SubmitResponse, Verify, Verified, Issue, Unexpired, LiveTickets, registryVars,
       brokerVars
  <1>3. challenge[c] \in ChallengeRecord
    BY <1>2 DEF IInv, DomainsInv
  <1>4. r \in TicketRecord /\ r # None
    BY <1>1, <1>3, UnlockConstants, NoneIsNoRecord DEF ChallengeRecord, TicketRecord
  <1>5. DomainsInv'
    BY <1>1, <1>2, <1>4, UnlockConstants DEF IInv, DomainsInv
  <1>6. RegistryInv' /\ UnlocksInv'
    <2>1. \A u \in redeemed : ticket'[u] = ticket[u]
      BY <1>1, <1>2 DEF IInv, DomainsInv
    <2>2. QED
      BY <1>2, <2>1 DEF IInv, RegistryInv, PairedInv, SubkeyInv, AloneInv, Working, UnlocksInv,
       OneUnlockPerChallenge
  <1>7. TicketsInv'
    <2>1. \A u \in Ticket \ {t} : ticket'[u] = ticket[u]
      BY <1>1 DEF IInv, DomainsInv
    <2>2. ticket'[t] = r
      BY <1>1 DEF IInv, DomainsInv
    <2>3. \A u \in Ticket \ {t} : ticket[u] # None => ticket[u].challenge # c
      BY <1>2 DEF IInv, TicketsInv
    <2>4. <<challenge[c].device, k>> \in paired /\ challenge[c] # None
      BY <1>2, <1>3, UnlockConstants, NoneIsNoRecord
         DEF IInv, DomainsInv, RegistryInv, PairedInv, ChallengeRecord
    <2>5. tickets' \cap redeemed' = {}
      BY <1>2 DEF IInv, DomainsInv, TicketsInv
    <2>6. ticket'[t].challenge = c
      BY <2>2
    <2>7. \A u, v \in Ticket :
            ticket'[u] # None /\ ticket'[v] # None
            /\ ticket'[u].challenge = ticket'[v].challenge => u = v
      BY <2>1, <2>3, <2>6 DEF IInv, TicketsInv
    <2>8. ASSUME NEW u \in Ticket, ticket'[u] # None
          PROVE  LET x == ticket'[u].challenge
                 IN /\ x \notin pending' /\ challenge'[x] # None
                    /\ \E y \in Key : x \in signed'[y]
                                      /\ <<challenge'[x].device, y>> \in paired'
      <3>1. CASE u = t
        BY <1>2, <2>4, <2>6, <3>1
      <3>2. CASE u # t
        BY <1>2, <2>1, <2>8, <3>2 DEF IInv, TicketsInv
      <3>3. QED
        BY <3>1, <3>2
    <2>9. QED
      BY <2>5, <2>7, <2>8 DEF TicketsInv
  <1>8. QED
    BY <1>5, <1>6, <1>7 DEF IInv

\* Answers that give no ticket only take challenges out of _pending.
LEMMA RefusedStep ==
    ASSUME IInv, NEW c \in Challenge, SubmitRefused(c) \/ \E k \in Key : SubmitTooLate(c, k)
    PROVE  IInv'
  <1>1. /\ pending' \subseteq pending /\ now' \in Int
        /\ UNCHANGED <<registryVars, trusted, challenge, signed, ticketVars>>
    BY DEF SubmitRefused, SubmitTooLate, Verify, Unexpired, IInv, DomainsInv, brokerVars
  <1>2. QED
    BY <1>1, ShrinkStep DEF ticketVars, IInv, DomainsInv, RegistryInv, PairedInv

\* A ticket is taken out of _tickets in the request that redeems it, and no other
\* ticket of its challenge was redeemed before.
LEMMA ConsumeStep ==
    ASSUME IInv, NEW t \in Ticket, ConsumeTicket(t)
    PROVE  IInv'
  <1> DEFINE c == ticket[t].challenge
  <1>1. /\ t \in tickets /\ tickets' \subseteq tickets \ {t}
        /\ redeemed' = redeemed \cup {t}
        /\ unlocks' = [unlocks EXCEPT ![c] = @ + 1]
        /\ UNCHANGED <<now, registry, admin, paired, trusted, challenge, pending, signed, ticket>>
    BY DEF ConsumeTicket, Redeem, TakesTicket, LiveTickets, registryVars, brokerVars,
       verifierVars
  <1>2. ticket[t] # None /\ c \in Challenge /\ t \notin redeemed
    BY <1>1 DEF IInv, DomainsInv, TicketsInv, TicketRecord
  <1>3. unlocks[c] = 0
    <2>1. unlocks[c] \in Nat /\ ~ (unlocks[c] > 0)
      BY <1>2 DEF IInv, DomainsInv, TicketsInv, UnlocksInv
    <2>2. QED
      BY <2>1
  <1>4. DomainsInv'
    BY <1>1, <1>2 DEF IInv, DomainsInv
  <1>5. RegistryInv' /\ TicketsInv'
    BY <1>1 DEF IInv, RegistryInv, PairedInv, SubkeyInv, AloneInv, Working,
       TicketsInv
  <1>6. UnlocksInv'
    BY <1>1, <1>2, <1>3 DEF IInv, DomainsInv, UnlocksInv, OneUnlockPerChallenge
  <1>7. QED
    BY <1>4, <1>5, <1>6 DEF IInv

LEMMA ExpiredStep ==
    ASSUME IInv, NEW t \in Ticket, ConsumeExpired(t)
    PROVE  IInv'
  <1>1. tickets' \subseteq tickets
    BY DEF ConsumeExpired, LiveTickets
  <1>2. QED
    BY <1>1, ShrinkStep DEF ConsumeExpired, IInv, DomainsInv, RegistryInv, PairedInv, brokerVars,
       verifierVars

LEMMA InvStep == IInv /\ [Next]_vars => IInv'
  BY RegistryStep, StartStep, LifeStep, CreateStep, SignStep, SubmitStep, RefusedStep,
     ConsumeStep, ExpiredStep DEF Next, RegistryAction

\* The invariant is inductive: every behaviour keeps it.
THEOREM UnlockInvariant == Spec => []IInv
  BY InvInit, InvStep, PTL DEF Spec

\* A signed challenge ends in one unlock at most, however much the broker forgets
\* and wherever the clock is set.
THEOREM OneUnlock == Spec => []OneUnlockPerChallenge
  <1>1. IInv => OneUnlockPerChallenge
    BY DEF IInv, UnlocksInv
  <1>2. QED
    BY <1>1, UnlockInvariant, PTL

\* What was unlocked was signed by a key that was completely registered for the
\* device of the challenge.
THEOREM UnlockAuthority == Spec => []UnlocksAreAuthorized
  <1>1. IInv => UnlocksAreAuthorized
    <2> SUFFICES ASSUME IInv, NEW c \in Challenge, unlocks[c] > 0
                 PROVE  \E k \in Key : c \in signed[k] /\ <<challenge[c].device, k>> \in paired
      BY DEF UnlocksAreAuthorized
    <2>1. PICK t \in redeemed : ticket[t].challenge = c
      BY DEF IInv, UnlocksInv
    <2>2. t \in Ticket /\ ticket[t] # None
      BY DEF IInv, DomainsInv
    <2>3. QED
      BY <2>1, <2>2 DEF IInv, TicketsInv
  <1>2. QED
    BY <1>1, UnlockInvariant, PTL

-----------------------------------------------------------------------------
(* The limit on what a device can have pending *)

PendingOf(d) == {c \in pending : challenge[c].device = d}

\* _pending stays within MAX_PENDING_PER_DEVICE.
PendingWithinLimit ==
    \A d \in Device : IsFiniteSet(PendingOf(d)) /\ Cardinality(PendingOf(d)) <= MAX_PENDING

\* What is not in the inductive invariant of the rest, since nothing depends on it.
StatusInv ==
    /\ enabled \in BOOLEAN /\ pipe \in {"down", "listening", "connected"}
    /\ now \in 0..HORIZON
    /\ held \subseteq Ticket /\ paired \subseteq Device \X Key

\* Challenges only leave, and keep their device.
LEMMA PendingShrinks ==
    ASSUME PendingWithinLimit, pending' \subseteq pending, challenge' = challenge
    PROVE  PendingWithinLimit'
  <1> SUFFICES ASSUME NEW d \in Device
               PROVE  IsFiniteSet(PendingOf(d)') /\ Cardinality(PendingOf(d)') <= MAX_PENDING
    BY DEF PendingWithinLimit
  <1>1. PendingOf(d)' \in SUBSET PendingOf(d)
    BY DEF PendingOf
  <1>2. IsFiniteSet(PendingOf(d)) /\ Cardinality(PendingOf(d)) <= MAX_PENDING
    BY DEF PendingWithinLimit
  <1>3. IsFiniteSet(PendingOf(d)') /\ Cardinality(PendingOf(d)') <= Cardinality(PendingOf(d))
    BY <1>1, <1>2, FS_Subset
  <1>4. Cardinality(PendingOf(d)') \in Nat /\ Cardinality(PendingOf(d)) \in Nat
    BY <1>2, <1>3, FS_CardinalityType
  <1> QED
    BY <1>2, <1>3, <1>4, UnlockConstants

\* create_challenge drops what expired and adds one only where there is room.
LEMMA PendingGrows ==
    ASSUME IInv, PendingWithinLimit, NEW c \in Challenge, NEW d \in Device,
           CreateChallenge(c, d)
    PROVE  PendingWithinLimit'
  <1> DEFINE kept == Unexpired(pending, now)
             of(e) == {x \in kept : challenge[x].device = e}
  <1>1. /\ challenge[c] = None /\ pending' = kept \cup {c}
        /\ challenge' = [challenge EXCEPT ![c] =
                            [device |-> d, issued |-> now, expires |-> now + TTL]]
        /\ Cardinality(of(d)) < MAX_PENDING
    BY DEF CreateChallenge
  <1>2. kept \subseteq pending /\ c \notin kept
    BY <1>1 DEF Unexpired, IInv, DomainsInv
  <1>3. \A x \in kept : challenge'[x] = challenge[x]
    BY <1>1, <1>2 DEF IInv, DomainsInv
  <1>4. challenge'[c].device = d
    BY <1>1 DEF IInv, DomainsInv
  <1>5. ASSUME NEW e \in Device
        PROVE  IsFiniteSet(PendingOf(e)') /\ Cardinality(PendingOf(e)') <= MAX_PENDING
    <2>1. of(e) \in SUBSET PendingOf(e) /\ c \notin of(e)
      BY <1>2 DEF PendingOf
    <2>2. IsFiniteSet(PendingOf(e)) /\ Cardinality(PendingOf(e)) <= MAX_PENDING
      BY DEF PendingWithinLimit
    <2>3. IsFiniteSet(of(e)) /\ Cardinality(of(e)) <= Cardinality(PendingOf(e))
      BY <2>1, <2>2, FS_Subset
    <2>4. Cardinality(of(e)) \in Nat /\ Cardinality(PendingOf(e)) \in Nat
      BY <2>2, <2>3, FS_CardinalityType
    <2>5. CASE e = d
      <3>1. PendingOf(e)' = of(e) \cup {c}
        BY <1>1, <1>3, <1>4, <2>5 DEF PendingOf
      <3>2. IsFiniteSet(of(e) \cup {c}) /\ Cardinality(of(e) \cup {c}) = Cardinality(of(e)) + 1
        BY <2>1, <2>3, FS_AddElement
      <3>3. Cardinality(of(e)) + 1 <= MAX_PENDING
        BY <1>1, <2>4, <2>5, UnlockConstants
      <3> QED
        BY <3>1, <3>2, <3>3
    <2>6. CASE e # d
      <3>1. PendingOf(e)' = of(e)
        BY <1>1, <1>3, <1>4, <2>6 DEF PendingOf
      <3> QED
        BY <2>2, <2>3, <2>4, <3>1, UnlockConstants
    <2> QED
      BY <2>5, <2>6
  <1> QED
    BY <1>5 DEF PendingWithinLimit

\* The broker never keeps more challenges of a device than its limit, whoever
\* asks for them and whatever the clock does (create_challenge, _prune).
THEOREM PendingIsBounded == Spec => []PendingWithinLimit
  <1>1. Init => PendingWithinLimit
    <2> SUFFICES ASSUME Init, NEW d \in Device
                 PROVE  IsFiniteSet(PendingOf(d)) /\ Cardinality(PendingOf(d)) <= MAX_PENDING
      BY DEF PendingWithinLimit
    <2>1. PendingOf(d) = {}
      BY DEF Init, PendingOf
    <2> QED
      BY <2>1, FS_EmptySet, UnlockConstants
  <1>2. IInv /\ PendingWithinLimit /\ [Next]_vars => PendingWithinLimit'
    <2> SUFFICES ASSUME IInv, PendingWithinLimit, [Next]_vars
                 PROVE  PendingWithinLimit'
      OBVIOUS
    <2>1. CASE \E c \in Challenge, d \in Device : CreateChallenge(c, d)
      BY <2>1, PendingGrows
    <2>2. CASE ~\E c \in Challenge, d \in Device : CreateChallenge(c, d)
      <3>1. pending' \subseteq pending /\ challenge' = challenge
        BY <2>2 DEF Next, vars, Revoke, BeginPair, WriteKey, WriteCreated, PairFails,
           StartBroker, ConnectClient, DisconnectClient, StopBroker, Clock, Sign,
           SubmitTooLate, SubmitResponse, SubmitRefused, ConsumeTicket, ConsumeExpired,
           Verify, Unexpired, verifierVars
      <3> QED
        BY <3>1, PendingShrinks
    <2> QED
      BY <2>1, <2>2
  <1> QED
    BY <1>1, <1>2, UnlockInvariant, PTL DEF Spec

\* The status of pipe and flag, and the histories, keep their domains.
LEMMA StatusInvariant == Spec => []StatusInv
  <1>1. Init => StatusInv
    <2> SUFFICES ASSUME Init
                 PROVE  StatusInv
      OBVIOUS
    <2>1. enabled \in BOOLEAN
      BY DEF Init
    <2>2. pipe = "down" /\ held = {} /\ paired = {}
      BY DEF Init
    <2>3. now \in 0..HORIZON
      BY UnlockConstants DEF Init
    <2> QED
      BY <2>1, <2>2, <2>3 DEF StatusInv
  <1>2. IInv /\ StatusInv /\ [Next]_vars => StatusInv'
    <2> SUFFICES ASSUME IInv, StatusInv, [Next]_vars
                 PROVE  StatusInv'
      OBVIOUS
    <2>1. enabled' = enabled
      BY DEF Next, vars, Revoke, BeginPair, WriteKey, WriteCreated, PairFails,
         StartBroker, ConnectClient, DisconnectClient, StopBroker, Clock, CreateChallenge,
         Sign, SubmitTooLate, SubmitResponse, SubmitRefused, ConsumeTicket, ConsumeExpired
    <2>2. pipe' = pipe \/ pipe' \in {"down", "listening", "connected"}
      BY DEF Next, vars, Revoke, BeginPair, WriteKey, WriteCreated, PairFails,
         StartBroker, ConnectClient, DisconnectClient, StopBroker, Clock, CreateChallenge,
         Sign, SubmitTooLate, SubmitResponse, SubmitRefused, ConsumeTicket, ConsumeExpired,
         brokerVars
    <2>3. held' \subseteq Ticket
      BY DEF StatusInv, Next, vars, Revoke, BeginPair, WriteKey, WriteCreated, PairFails,
         StartBroker, ConnectClient, DisconnectClient, StopBroker, Clock, CreateChallenge,
         Sign, SubmitTooLate, SubmitResponse, SubmitRefused, ConsumeTicket, ConsumeExpired,
         ticketVars, Told
    <2>4. paired' \subseteq Device \X Key
      <3>1. ASSUME NEW d \in Device, NEW e, SetEntry(d, e)
            PROVE  paired' \subseteq Device \X Key
        BY <3>1 DEF SetEntry, StatusInv
      <3>2. \A a \in Admin : admin[a] # None => admin[a].device \in Device
        BY DEF IInv, DomainsInv, Pairing
      <3>3. CASE paired' = paired
        BY <3>3 DEF StatusInv
      <3>4. CASE paired' # paired
        <4>1. \E d \in Device : \E e : SetEntry(d, e)
          BY <3>2, <3>4 DEF Next, vars, Revoke, BeginPair, WriteKey, WriteCreated, PairFails,
             StartBroker, ConnectClient, DisconnectClient, StopBroker, Clock,
             CreateChallenge, Sign, SubmitTooLate, SubmitResponse, SubmitRefused,
             ConsumeTicket, ConsumeExpired, registryVars
        <4> QED
          BY <3>1, <4>1
      <3> QED
        BY <3>3, <3>4
    <2>5. now' \in 0..HORIZON
      <3>1. now' = now \/ now' \in 0..HORIZON \/ (now < HORIZON /\ now' = now + 1)
        BY DEF Next, vars, Revoke, BeginPair, WriteKey, WriteCreated, PairFails,
           StartBroker, ConnectClient, DisconnectClient, StopBroker, Clock, CreateChallenge,
           Sign, SubmitTooLate, SubmitResponse, SubmitRefused, ConsumeTicket, ConsumeExpired
      <3> QED
        BY <3>1, UnlockConstants DEF StatusInv
    <2> QED
      BY <2>1, <2>2, <2>3, <2>4, <2>5 DEF StatusInv
  <1> QED
    BY <1>1, <1>2, UnlockInvariant, PTL DEF Spec

-----------------------------------------------------------------------------
(* What happens to a paired key *)

\* A step changes a complete entry only to revoke it, or in a pair command that
\* another one has met: one that runs alone has an entry that is not complete.
LEMMA EntryStep ==
    ASSUME IInv, [Next]_vars, NEW d \in Device, Complete(registry[d]),
           registry'[d] # registry[d]
    PROVE  Revoke(d) \/ \E a \in Admin : Working(a, d) /\ admin[a].overlaps
  <1>0. DomainsInv
    BY DEF IInv
  <1>1. ASSUME NEW a \in Admin, NEW x \in Device, NEW k \in Key, NEW shown \in Key,
               BeginPair(a, x, k, shown)
        PROVE  FALSE
    <2>1. registry[x] \in {None, EmptyEntry}
          /\ registry' = [registry EXCEPT ![x] = IF registry[x] = None THEN EmptyEntry
                                                 ELSE registry[x]]
      BY <1>1 DEF BeginPair, MayWrite, SetEntry
    <2>2. x # d
      BY <2>1 DEF Complete, EmptyEntry
    <2>3. QED
      BY <1>0, <2>1, <2>2 DEF DomainsInv
  <1>2. ASSUME NEW x \in Device, Revoke(x)
        PROVE  x = d
    BY <1>0, <1>2 DEF Revoke, SetEntry, DomainsInv
  <1>3. ASSUME NEW a \in Admin, admin[a] # None, NEW e,
               registry' = [registry EXCEPT ![admin[a].device] = e]
        PROVE  Working(a, d) /\ admin[a].overlaps
    <2>1. admin[a] \in Pairing /\ admin[a].device = d
      BY <1>0, <1>3 DEF DomainsInv
    <2>2. registry[d] # None /\ registry[d].created
      BY DEF Complete
    <2>3. QED
      BY <1>3, <2>1, <2>2 DEF Working, IInv, RegistryInv, AloneInv
  <1>4. ASSUME NEW a \in Admin,
               WriteKey(a) \/ WriteCreated(a) \/ \E b \in BOOLEAN : PairFails(a, b)
        PROVE  Working(a, d) /\ admin[a].overlaps
    BY <1>3, <1>4 DEF WriteKey, WriteCreated, PairFails, SetEntry
  <1>5. (\/ StartBroker \/ ConnectClient \/ DisconnectClient \/ StopBroker \/ Clock
         \/ UNCHANGED vars) => UNCHANGED registry
    BY DEF StartBroker, ConnectClient, DisconnectClient, StopBroker, Clock, vars, registryVars
  <1>6. \A c \in Challenge :
          (\/ \E x \in Device : CreateChallenge(c, x)
           \/ \E k \in Key : Sign(k, c) \/ SubmitTooLate(c, k)
           \/ \E k \in Key, t \in Ticket, at \in 0..HORIZON, b \in BOOLEAN :
                 SubmitResponse(c, k, t, at, b)
           \/ SubmitRefused(c)) => UNCHANGED registry
    BY DEF CreateChallenge, Sign, SubmitTooLate, SubmitResponse, SubmitRefused, registryVars
  <1>7. \A t \in Ticket : ConsumeTicket(t) \/ ConsumeExpired(t) => UNCHANGED registry
    BY DEF ConsumeTicket, ConsumeExpired, registryVars
  <1>8. QED
    BY <1>1, <1>2, <1>4, <1>5, <1>6, <1>7 DEF Next

\* The key of a paired device is kept until its entry is revoked, whatever pair
\* command fails, dies or is repeated with another key, unless two of them ran
\* for that id at the same time.
THEOREM KeysAreKept == Spec => NoSilentReplacement
  <1>1. IInv /\ [Next]_vars =>
          [\A d \in Device : Complete(registry[d]) /\ registry'[d] # registry[d] =>
              \/ Revoke(d)
              \/ \E a \in Admin : Working(a, d) /\ admin[a].overlaps]_vars
    BY EntryStep
  <1>2. QED
    BY <1>1, UnlockInvariant, PTL DEF Spec, NoSilentReplacement
-----------------------------------------------------------------------------
(* Every ticket is a one-use token *)

\* Steps that touch no ticket: the device of a ticket is that of its challenge,
\* which a step may only fill in when no ticket is for it.
LEMMA StutterStep ==
    ASSUME UNCHANGED <<ticket, tickets, redeemed>>,
           \A t \in Ticket : DeviceOf(t)' = DeviceOf(t)
    PROVE  UNCHANGED OneUseTicket!tokenVars
  BY DEF OneUseTicket!tokenVars, Stage

\* Tickets that leave _tickets without having been redeemed are void.
LEMMA VoidStep ==
    ASSUME IInv, tickets' \subseteq tickets, UNCHANGED <<ticket, redeemed, challenge>>
    PROVE  OneUseTicket!TokenNext
  <1> DEFINE V == tickets \ tickets'
  <1>1. V \in SUBSET Ticket /\ \A t \in V : Stage(t) = "live"
    BY DEF IInv, DomainsInv, TicketsInv, Stage
  <1>2. \A t \in Ticket : Stage(t)' = IF t \in V THEN "void" ELSE Stage(t)
    BY DEF IInv, DomainsInv, TicketsInv, Stage
  <1>3. \A t \in Ticket : DeviceOf(t)' = DeviceOf(t)
    BY DEF DeviceOf
  <1>4. OneUseTicket!Void(V)
    BY <1>1, <1>2, <1>3 DEF OneUseTicket!Void
  <1>5. QED
    BY <1>1, <1>4 DEF OneUseTicket!TokenNext

\* issue drops the expired tickets and gives a fresh one to the device that the
\* challenge was for.
LEMMA IssueStep ==
    ASSUME IInv, NEW c \in Challenge, NEW k \in Key, NEW t \in Ticket, NEW at \in 0..HORIZON,
           NEW b \in BOOLEAN, SubmitResponse(c, k, t, at, b)
    PROVE  OneUseTicket!TokenNext
  <1> DEFINE V == tickets \ tickets'
             d == challenge[c].device
  <1>1. PICK e : ticket' = [ticket EXCEPT ![t] = [challenge |-> c, expires |-> e]]
                 /\ e \in {at + TICKET_TTL, challenge[c].expires}
    BY DEF SubmitResponse, Issue
  <1>2. /\ ticket[t] = None /\ c \in pending
        /\ tickets' \subseteq tickets \cup {t} /\ t \in tickets'
        /\ UNCHANGED <<challenge, redeemed>>
    BY DEF SubmitResponse, Verified, Issue, LiveTickets
  <1>3. d \in Device /\ challenge[c].expires \in Int
    BY <1>2 DEF IInv, DomainsInv, ChallengeRecord
  <1>4. ticket'[t] = [challenge |-> c, expires |-> e] /\ ticket'[t] # None
        /\ \A u \in Ticket \ {t} : ticket'[u] = ticket[u]
    BY <1>1, <1>3, UnlockConstants, NoneIsNoRecord DEF IInv, DomainsInv, TicketRecord
  <1>5. t \notin tickets /\ t \notin redeemed
    BY <1>2 DEF IInv, DomainsInv
  <1>6. V \in SUBSET Ticket /\ \A u \in V : Stage(u) = "live"
    BY DEF IInv, DomainsInv, TicketsInv, Stage
  <1>7. Stage(t) = "fresh"
    BY <1>2, <1>5 DEF Stage
  <1>8. \A u \in Ticket : Stage(u)' = CASE u \in V -> "void"
                                       [] u = t   -> "live"
                                       [] OTHER   -> Stage(u)
    <2>1. Stage(t)' = "live" /\ t \notin V
      BY <1>2, <1>4, <1>5 DEF Stage
    <2>2. \A u \in Ticket \ {t} : Stage(u)' = IF u \in V THEN "void" ELSE Stage(u)
      BY <1>2, <1>4 DEF IInv, DomainsInv, TicketsInv, Stage
    <2>3. QED
      BY <2>1, <2>2
  <1>9. \A u \in Ticket : DeviceOf(u)' = IF u = t THEN d ELSE DeviceOf(u)
    BY <1>2, <1>4 DEF DeviceOf
  <1>10. OneUseTicket!SweepAndIssue(V, t, d)
    BY <1>2, <1>5, <1>6, <1>7, <1>8, <1>9 DEF OneUseTicket!SweepAndIssue
  <1>11. QED
    BY <1>3, <1>6, <1>10 DEF OneUseTicket!TokenNext

\* consume redeems a live ticket and drops the expired ones.
LEMMA RedeemStep ==
    ASSUME IInv, NEW t \in Ticket, ConsumeTicket(t)
    PROVE  OneUseTicket!TokenNext
  <1> DEFINE V == (tickets \ tickets') \ {t}
  <1>1. /\ t \in tickets /\ tickets' \subseteq tickets \ {t}
        /\ redeemed' = redeemed \cup {t}
        /\ UNCHANGED <<challenge, ticket>>
    BY DEF ConsumeTicket, Redeem, TakesTicket, LiveTickets, verifierVars
  <1>2. V \in SUBSET Ticket /\ \A u \in V \cup {t} : Stage(u) = "live"
    BY <1>1 DEF IInv, DomainsInv, TicketsInv, Stage
  <1>3. \A u \in Ticket : Stage(u)' = CASE u \in V -> "void"
                                       [] u = t   -> "spent"
                                       [] OTHER   -> Stage(u)
    BY <1>1 DEF IInv, DomainsInv, TicketsInv, Stage
  <1>4. \A u \in Ticket : DeviceOf(u)' = DeviceOf(u)
    BY <1>1 DEF DeviceOf
  <1>5. OneUseTicket!SweepAndRedeem(V, t)
    BY <1>1, <1>2, <1>3, <1>4 DEF OneUseTicket!SweepAndRedeem
  <1>6. QED
    BY <1>2, <1>5 DEF OneUseTicket!TokenNext

LEMMA RefinementStep ==
    ASSUME IInv, [Next]_vars
    PROVE  [OneUseTicket!TokenNext]_(OneUseTicket!tokenVars)
  <1> USE DEF verifierVars, ticketVars
  <1>1. UNCHANGED <<ticket, tickets, redeemed, challenge>>
            => UNCHANGED OneUseTicket!tokenVars
    BY StutterStep DEF DeviceOf
  <1>2. (\/ RegistryAction
         \/ StartBroker \/ ConnectClient \/ DisconnectClient \/ Clock \/ UNCHANGED vars)
            => UNCHANGED OneUseTicket!tokenVars
    BY <1>1 DEF RegistryAction, Revoke, BeginPair, WriteKey, WriteCreated, PairFails,
       StartBroker, ConnectClient, DisconnectClient, Clock, vars
  <1>3. StopBroker => OneUseTicket!TokenNext
    BY VoidStep DEF StopBroker
  <1>4. ASSUME NEW c \in Challenge, NEW d \in Device, CreateChallenge(c, d)
        PROVE  UNCHANGED OneUseTicket!tokenVars
    <2>1. UNCHANGED <<ticket, tickets, redeemed>> /\ challenge[c] = None
          /\ \A x \in Challenge \ {c} : challenge'[x] = challenge[x]
      BY <1>4 DEF CreateChallenge, IInv, DomainsInv
    <2>2. \A t \in Ticket : DeviceOf(t)' = DeviceOf(t)
      BY <2>1 DEF DeviceOf, IInv, DomainsInv, TicketsInv, TicketRecord
    <2>3. QED
      BY <2>1, <2>2, StutterStep
  <1>5. \A c \in Challenge, k \in Key :
            Sign(k, c) \/ SubmitTooLate(c, k) \/ SubmitRefused(c)
              => UNCHANGED OneUseTicket!tokenVars
    BY <1>1 DEF Sign, SubmitTooLate, SubmitRefused
  <1>6. \A c \in Challenge : SubmitRefused(c) => UNCHANGED OneUseTicket!tokenVars
    BY <1>1 DEF SubmitRefused
  <1>7. \A t \in Ticket : ConsumeExpired(t) => OneUseTicket!TokenNext
    BY VoidStep DEF ConsumeExpired, LiveTickets
  <1>8. QED
    BY <1>2, <1>3, <1>4, <1>5, <1>6, <1>7, IssueStep, RedeemStep
       DEF Next, RegistryAction

\* The broker refines the one-use token: a ticket is redeemed at most once, for
\* the device of its challenge, and never after it expired or was forgotten.
THEOREM TicketsImplementOneUse == Spec => TicketsAreOneUse
  <1>1. Init => OneUseTicket!TokenInit
    BY DEF Init, OneUseTicket!TokenInit, Stage, DeviceOf
  <1>2. QED
    BY <1>1, RefinementStep, UnlockInvariant, PTL
       DEF Spec, TicketsAreOneUse, OneUseTicket!TokenSpec
=============================================================================
