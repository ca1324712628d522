---------------------------- MODULE Credentials -----------------------------
(***************************************************************************)
(* Short-lived credentials: src/canonic/credentials.py                     *)
(* (CachingCredentialProvider), connectors/redshift.py (_acquire,          *)
(* _inject_credential) and connectors/credential_providers.                *)
(*                                                                         *)
(* Several tasks connect through one engine.  A connect refreshes the held *)
(* credential in a worker thread, under a lock, and later, on the event    *)
(* loop, a driver hook stamps whatever the cache holds by then.            *)
(***************************************************************************)
EXTENDS Integers

CONSTANTS
    Tasks,       \* tasks that connect through one engine
    Nobody,
    Lifetime,    \* ticks a credential lives
    Skew,        \* REFRESH_SKEW in ticks
    MaxClock     \* bound: ticks

ASSUME ClockAssumption ==
    /\ Lifetime \in Nat \ {0} /\ Skew \in Nat \ {0} /\ MaxClock \in Nat \ {0}
    /\ Nobody \notin Tasks

VARIABLES
    clock,
    cached,    \* _cached: when the held credential expires; 0 before the first fetch
    lock,      \* _lock
    task,        \* [Tasks -> where the task stands]
    since,     \* [Tasks -> when its refresh returned]
    used       \* [Tasks -> expiry of the credential its connection was opened with]

cacheVars == <<clock, cached, lock, task, since, used>>

CacheInit ==
    /\ clock = 1 /\ cached = 0 /\ lock = Nobody
    /\ task = [t \in Tasks |-> "idle"]
    /\ since = [t \in Tasks |-> 0]
    /\ used = [t \in Tasks |-> 0]

\* Mutant: no skew.
IsFreshUntilExpiry == clock <= cached

IsFresh == clock + Skew < cached

\* _acquire: arefresh hands fetch_if_stale to a worker thread.
Acquire(t) ==
    /\ task[t] = "idle"
    /\ task' = [task EXCEPT ![t] = "queued"]
    /\ UNCHANGED <<clock, cached, lock, since, used>>

\* Mutant: the lock keeps nobody out.
TakeLockShared(t) ==
    /\ task[t] = "queued"
    /\ lock' = t
    /\ task' = [task EXCEPT ![t] = "locked"]
    /\ UNCHANGED <<clock, cached, since, used>>

TakeLock(t) ==
    /\ task[t] = "queued" /\ lock = Nobody
    /\ lock' = t
    /\ task' = [task EXCEPT ![t] = "locked"]
    /\ UNCHANGED <<clock, cached, since, used>>

\* Mutant: the early return keeps the lock.
StillGoodNoLock(t) ==
    /\ task[t] = "locked" /\ IsFresh
    /\ task' = [task EXCEPT ![t] = "refreshed"]
    /\ since' = [since EXCEPT ![t] = clock]
    /\ UNCHANGED <<clock, cached, lock, used>>

StillGood(t) ==
    /\ task[t] = "locked" /\ IsFresh
    /\ lock' = Nobody
    /\ task' = [task EXCEPT ![t] = "refreshed"]
    /\ since' = [since EXCEPT ![t] = clock]
    /\ UNCHANGED <<clock, cached, used>>

\* The provider is called with the lock held.
CallProvider(t) ==
    /\ task[t] = "locked" /\ ~IsFresh
    /\ task' = [task EXCEPT ![t] = "fetching"]
    /\ UNCHANGED <<clock, cached, lock, since, used>>

Fetched(t) ==
    /\ task[t] = "fetching"
    /\ cached' = clock + Lifetime
    /\ lock' = Nobody
    /\ task' = [task EXCEPT ![t] = "refreshed"]
    /\ since' = [since EXCEPT ![t] = clock]
    /\ UNCHANGED <<clock, used>>

\* The provider failed, or returned an empty value: the error leaves _acquire,
\* the cache keeps what it had, and the connect never happens.
FetchFailed(t) ==
    /\ task[t] = "fetching"
    /\ lock' = Nobody
    /\ task' = [task EXCEPT ![t] = "idle"]
    /\ UNCHANGED <<clock, cached, since, used>>

\* do_connect: _inject_credential stamps cached_value().
Connect(t) ==
    /\ task[t] = "refreshed"
    /\ used' = [used EXCEPT ![t] = cached]
    /\ task' = [task EXCEPT ![t] = "connected"]
    /\ UNCHANGED <<clock, cached, lock, since>>

Close(t) ==
    /\ task[t] = "connected"
    /\ task' = [task EXCEPT ![t] = "idle"]
    /\ used' = [used EXCEPT ![t] = 0]
    /\ UNCHANGED <<clock, cached, lock, since>>

\* What REFRESH_SKEW is sized for: a task that refreshed connects within it.
Tick ==
    /\ clock < MaxClock
    /\ \A t \in Tasks : task[t] = "refreshed" => clock - since[t] < Skew
    /\ clock' = clock + 1
    /\ UNCHANGED <<cached, lock, task, since, used>>

CacheNext ==
    \/ \E t \in Tasks :
         \/ Acquire(t) \/ TakeLock(t) \/ StillGood(t) \/ CallProvider(t)
         \/ Fetched(t) \/ FetchFailed(t) \/ Connect(t) \/ Close(t)
    \/ Tick

\* The provider answers or fails; a thread that waits for the lock gets it.
CacheFairness ==
    \A t \in Tasks :
      /\ SF_cacheVars(TakeLock(t))
      /\ WF_cacheVars(StillGood(t) \/ CallProvider(t))
      /\ WF_cacheVars(Fetched(t) \/ FetchFailed(t))

CacheSpec == CacheInit /\ [][CacheNext]_cacheVars /\ CacheFairness

-----------------------------------------------------------------------------
(* Properties.                                                              *)

CacheTypeOK ==
    /\ clock \in 1..MaxClock /\ cached \in 0..(MaxClock + Lifetime)
    /\ lock \in Tasks \cup {Nobody}
    /\ task \in [Tasks -> {"idle", "queued", "locked", "fetching", "refreshed", "connected"}]
    /\ since \in [Tasks -> 0..MaxClock]
    /\ used \in [Tasks -> 0..(MaxClock + Lifetime)]

\* No connection is opened with a dead credential, whichever task's refresh put it
\* into the cache and however long the task waited between its refresh and the
\* driver's hook, as long as that stays within the skew (credentials.py: is_fresh,
\* fetch_if_stale; redshift.py: _inject_credential).
NeverOpensWithExpired ==
    [][\A t \in Tasks : task[t] = "refreshed" /\ task'[t] = "connected" => clock < used'[t]]_cacheVars

\* Connects within one credential's life cost one fetch: the provider is called
\* only by the holder of the lock and never while the held credential is fresh
\* (fetch_if_stale re-checks under the lock).
OneFetchPerLife ==
    \A t \in Tasks : task[t] = "fetching" => lock = t /\ ~IsFresh

\* A task that asked for a credential gets it or an error, however many others
\* ask at the same time.
RefreshReturns ==
    \A t \in Tasks : (task[t] = "queued") ~> (task[t] \in {"refreshed", "connected", "idle"})

\* The cache holds a credential or none, and one fetch at a time renews it, only
\* when that is needed (credentials.py: fetch_if_stale).
CacheIsSound ==
    /\ CacheTypeOK
    /\ OneFetchPerLife
=============================================================================
