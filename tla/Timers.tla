------------------------------- MODULE Timers -------------------------------
(***************************************************************************)
(* The timers of the agent (tools/timers.py): records behind one lock, and *)
(* one thread per timer that waits outside the lock and takes it to fire.  *)
(* A record is registered before its thread is started, so a timer may be  *)
(* cancelled, or pruned, at any point of the life of its thread.           *)
(***************************************************************************)
EXTENDS Naturals, FiniteSets

CONSTANTS
    MAX_TIMERS_DRAWN,      \* bound: calls of create that draw an identifier
    MAX_ACTIVE_TIMERS,
    MAX_TIMER_RECORDS

\* Identifiers are random and opaque: they are numbered as they are inserted,
\* so that the order of the dict is the order of the numbers.
Timer == 1..MAX_TIMERS_DRAWN

ASSUME TimerLimits ==
    /\ MAX_ACTIVE_TIMERS \in Nat \ {0} /\ MAX_TIMER_RECORDS \in Nat
    /\ MAX_ACTIVE_TIMERS <= MAX_TIMER_RECORDS

VARIABLES
    records,    \* the keys of _timers
    status,     \* the status of each record, also once it is pruned
    thread      \* the threading.Timer of each record

timerVars == <<records, status, thread>>

TimersTypeOK ==
    /\ records \subseteq Timer
    /\ status \in [Timer -> {"none", "pending", "fired", "cancelled"}]
    /\ thread \in [Timer -> {"none", "made", "waiting", "due", "over"}]

TimersInit ==
    /\ records = {}
    /\ status = [t \in Timer |-> "none"] /\ thread = [t \in Timer |-> "none"]

-----------------------------------------------------------------------------
Completed(t) == status[t] \in {"fired", "cancelled"}
Active == {t \in records : status[t] = "pending"}

\* _prune_completed_locked: the oldest completed records beyond the limit.
Prune(recs) ==
    LET completed == {t \in recs : Completed(t)}
        gone == {t \in completed :
                   Cardinality({u \in completed : u < t}) + MAX_TIMER_RECORDS
                      < Cardinality(recs)}
    IN  recs \ gone

BelowActiveLimit == Cardinality(Active) < MAX_ACTIVE_TIMERS

\* create, up to the end of its critical section.
Create(t) ==
    /\ thread[t] = "none" /\ \A u \in 1..(t - 1) : thread[u] # "none"
    /\ BelowActiveLimit
    /\ records' = Prune(records) \cup {t}
    /\ status' = [status EXCEPT ![t] = "pending"]
    /\ thread' = [thread EXCEPT ![t] = "made"]

\* create over the limit of active timers; what it pruned stays pruned.
CreateRefused ==
    /\ ~BelowActiveLimit
    /\ records' = Prune(records)
    /\ UNCHANGED <<status, thread>>

\* timer.start(): a thread whose timer was cancelled in between ends at once.
\* When the system gives no thread, create fails and the record stays pending.
Start(t) ==
    /\ thread[t] = "made"
    /\ thread' = [thread EXCEPT ![t] = IF status[t] = "pending" THEN "waiting" ELSE "over"]
    /\ UNCHANGED <<records, status>>
StartFails(t) ==
    /\ thread[t] = "made"
    /\ thread' = [thread EXCEPT ![t] = "over"]
    /\ UNCHANGED <<records, status>>

\* cancel: it wakes a waiting thread; one that is already past its wait will
\* still call _fire.
MayCancel(t) == t \in records /\ status[t] = "pending"
Cancel(t) ==
    /\ IF MayCancel(t)
       THEN /\ status' = [status EXCEPT ![t] = "cancelled"]
            /\ thread' = [thread EXCEPT ![t] = IF @ = "waiting" THEN "over" ELSE @]
       ELSE UNCHANGED <<status, thread>>
    /\ UNCHANGED records

\* The interval has passed and the thread goes for the lock.
Elapse(t) ==
    /\ thread[t] = "waiting"
    /\ thread' = [thread EXCEPT ![t] = "due"]
    /\ UNCHANGED <<records, status>>

FireAnything(t) == t \in records
MayFire(t) == t \in records /\ status[t] = "pending"
Fire(t) ==
    /\ thread[t] = "due"
    /\ thread' = [thread EXCEPT ![t] = "over"]
    /\ status' = IF MayFire(t) THEN [status EXCEPT ![t] = "fired"] ELSE status
    /\ UNCHANGED records

TimersNext ==
    \/ CreateRefused
    \/ \E t \in Timer : \/ Create(t) \/ Start(t) \/ StartFails(t) \/ Cancel(t)
                        \/ Elapse(t) \/ Fire(t)

TimersSpec == TimersInit /\ [][TimersNext]_timerVars

-----------------------------------------------------------------------------
(* Properties *)

\* Whatever the race between cancel, _fire and the pruning, a timer has one
\* outcome, it never changes, and no timer is forgotten while it is pending.
OneOutcome ==
    [][\A t \in Timer :
         /\ Completed(t) => status'[t] = status[t]
         /\ status[t] = "pending" => t \in records']_timerVars

-----------------------------------------------------------------------------
\* The inductive invariant: a pending timer is in the table, and what was not
\* created has no outcome.
TimersInv ==
    /\ TimersTypeOK
    /\ \A t \in Timer : thread[t] = "none" => status[t] = "none"
    /\ \A t \in Timer : status[t] = "pending" => t \in records
=============================================================================
