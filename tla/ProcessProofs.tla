---------------------------- MODULE ProcessProofs ----------------------------
(***************************************************************************)
(* Theorems about what runs beside the request that compiles a query.      *)
(*                                                                         *)
(*   Daemon       for any number of processes and upgrades, with and       *)
(*                without interrupted starts and foreground servers, while *)
(*                the commands run one at a time                           *)
(*   Credentials  for any number of tasks, any lifetime and skew, and any  *)
(*                number of ticks                                          *)
(*   Decompose    for any requests, calendar, warehouse and assertions     *)
(***************************************************************************)
EXTENDS Daemon, Credentials, Decompose, FiniteSetTheorems, WellFoundedInduction, TLAPS

-----------------------------------------------------------------------------
(* Daemon: inductive invariants                                             *)

\* A state file names a process or there is none, and a start that waits has
\* spawned one.
TypeInv ==
    /\ TypeOK
    /\ state.pid = NoPid => state = NoState
    /\ \A c \in Commands : pc[c] \in {"waiting", "ready"} => child[c] \in Pids

\* What a command knows of the daemon at each of its steps.
CommandInv ==
    \A c \in Commands :
        /\ pc[c] = "judge" => seen[c] = state
        /\ pc[c] \in {"cleared", "signalled"} => LiveChildren = {}
        /\ pc[c] \in {"waiting", "ready"} => LiveChildren \subseteq {child[c]}
        /\ pc[c] \notin {"waiting", "ready"} => LiveChildren \subseteq {state.pid}

AtMostOne == \A p, q \in LiveChildren : p = q

DaemonInv == TypeInv /\ CommandInv /\ AtMostOne /\ NoOrphan

OneAtATime == \A c, d \in Commands : c = d

-----------------------------------------------------------------------------
(* Type correctness                                                         *)

LEMMA TypeInit == Init => TypeInv
  BY DaemonAssumption DEF Init, TypeInv, TypeOK, NoState

LEMMA TypeStep == TypeInv /\ [Next]_vars => TypeInv'
  <1> SUFFICES ASSUME TypeInv, [Next]_vars PROVE TypeInv'
    OBVIOUS
  <1> USE DaemonAssumption DEF TypeInv, TypeOK, NoState, osVars, cmdVars
  <1>1. ASSUME NEW c \in Commands, RefuseEarly(c) PROVE TypeInv'
    BY <1>1 DEF RefuseEarly
  <1>2. ASSUME NEW c \in Commands, JudgeDown(c) PROVE TypeInv'
    BY <1>2 DEF JudgeDown, AfterJudge
  <1>3. ASSUME NEW c \in Commands, JudgeRunning(c) PROVE TypeInv'
    BY <1>3 DEF JudgeRunning
  <1>4. ASSUME NEW c \in Commands, JudgeTenant(c) PROVE TypeInv'
    BY <1>4 DEF JudgeTenant
  <1>5. ASSUME NEW c \in Commands, StopSignal(c) PROVE TypeInv'
    BY <1>5 DEF StopSignal, Running, PidAlive
  <1>6. ASSUME NEW c \in Commands, StopRemove(c) PROVE TypeInv'
    BY <1>6 DEF StopRemove
  <1>7. ASSUME NEW c \in Commands, Spawn(c) PROVE TypeInv'
    BY <1>7 DEF Spawn
  <1>8. ASSUME NEW c \in Commands, SawExit(c) PROVE TypeInv'
    BY <1>8 DEF SawExit
  <1>9. ASSUME NEW c \in Commands, Connected(c) PROVE TypeInv'
    BY <1>9 DEF Connected
  <1>10. ASSUME NEW c \in Commands, TimedOut(c) PROVE TypeInv'
    BY <1>10 DEF TimedOut
  <1>11. ASSUME NEW c \in Commands, WriteState(c) PROVE TypeInv'
    BY <1>11 DEF WriteState
  <1>12. ASSUME NEW c \in Commands, Exit(c) PROVE TypeInv'
    BY <1>12 DEF Exit
  <1>13. ASSUME NEW c \in Commands, Interrupt(c) PROVE TypeInv'
    BY <1>13 DEF Interrupt
  <1>14. ASSUME NEW c \in Commands, NEW k \in {"start", "stop", "status", "stdio"}, ReadState(c, k)
        PROVE  TypeInv'
    BY <1>14 DEF ReadState
  <1>15. ASSUME NEW p \in Pids, RunForeground(p) PROVE TypeInv'
    BY <1>15 DEF RunForeground
  <1>16. ASSUME NEW p \in Pids, Bind(p) PROVE TypeInv'
    BY <1>16 DEF Bind
  <1>17. ASSUME NEW p \in Pids, Die(p) PROVE TypeInv'
    BY <1>17 DEF Die
  <1>18. ASSUME NEW p \in Pids, ShutDown(p) PROVE TypeInv'
    BY <1>18 DEF ShutDown
  <1>19. CASE Upgrade
    BY <1>19 DEF Upgrade
  <1>20. CASE UNCHANGED vars
    BY <1>20 DEF vars, osVars, cmdVars
  <1> QED
    BY <1>1, <1>2, <1>3, <1>4, <1>5, <1>6, <1>7, <1>8, <1>9, <1>10, <1>11, <1>12, <1>13, <1>14, <1>15, <1>16, <1>17, <1>18, <1>19, <1>20 DEF Next

-----------------------------------------------------------------------------
(* One daemon                                                               *)

LEMMA DaemonInit == Init => DaemonInv
  <1> SUFFICES ASSUME Init PROVE DaemonInv
    OBVIOUS
  <1>1. LiveChildren = {}
    BY DEF Init, LiveChildren
  <1> QED
    BY <1>1, TypeInit DEF Init, DaemonInv, CommandInv, AtMostOne, NoOrphan

\* A command that is alone and does not wait for a child sees every live daemon in
\* the state file; when that file names no live process there is none.
LEMMA NotRunningMeansNone ==
    ASSUME OneAtATime, DaemonInv, NEW c \in Commands, pc[c] = "judge", ~Running(c)
    PROVE  LiveChildren = {}
  BY DaemonAssumption
  DEF DaemonInv, CommandInv, TypeInv, TypeOK, LiveChildren, Running, PidAlive, NoState

LEMMA DaemonStep ==
    ASSUME OneAtATime, DaemonInv, [Next]_vars
    PROVE  DaemonInv'
  <1> DEFINE Kept == CommandInv' /\ AtMostOne' /\ NoOrphan'
  <1>0. TypeInv'
    BY TypeStep DEF DaemonInv
  <1> SUFFICES Kept
    BY <1>0 DEF DaemonInv
  <1> USE DaemonAssumption DEF OneAtATime, DaemonInv, TypeInv, TypeOK, CommandInv, AtMostOne, NoOrphan, Owned,
          LiveChildren, osVars, cmdVars
  <1>1. ASSUME NEW c \in Commands, RefuseEarly(c) PROVE Kept
    BY <1>1 DEF RefuseEarly
  <1>2. ASSUME NEW c \in Commands, JudgeDown(c) PROVE Kept
    <2>1. LiveChildren = {} /\ LiveChildren' = LiveChildren
      BY <1>2, NotRunningMeansNone DEF JudgeDown
    <2> QED
      BY <1>2, <2>1 DEF JudgeDown, AfterJudge
  <1>3. ASSUME NEW c \in Commands, JudgeRunning(c) PROVE Kept
    BY <1>3 DEF JudgeRunning
  <1>4. ASSUME NEW c \in Commands, JudgeTenant(c) PROVE Kept
    <2>1. CASE Stale(c)
      <3>1. LiveChildren = {} /\ LiveChildren' = LiveChildren
        BY <1>4, <2>1, NotRunningMeansNone DEF JudgeTenant, Stale, Running
      <3> QED
        BY <1>4, <3>1 DEF JudgeTenant
    <2> QED
      BY <1>4, <2>1 DEF JudgeTenant
  <1>5. ASSUME NEW c \in Commands, StopSignal(c) PROVE Kept
    BY <1>5 DEF StopSignal, Running
  <1>6. ASSUME NEW c \in Commands, StopRemove(c) PROVE Kept
    BY <1>6 DEF StopRemove
  <1>7. ASSUME NEW c \in Commands, Spawn(c) PROVE Kept
    BY <1>7 DEF Spawn
  <1>8. ASSUME NEW c \in Commands, SawExit(c) PROVE Kept
    BY <1>8 DEF SawExit
  <1>9. ASSUME NEW c \in Commands, Connected(c) PROVE Kept
    BY <1>9 DEF Connected
  <1>10. ASSUME NEW c \in Commands, TimedOut(c) PROVE Kept
    BY <1>10 DEF TimedOut
  <1>11. ASSUME NEW c \in Commands, WriteState(c) PROVE Kept
    BY <1>11 DEF WriteState
  <1>12. ASSUME NEW c \in Commands, Exit(c) PROVE Kept
    BY <1>12 DEF Exit
  <1>13. ASSUME NEW c \in Commands, Interrupt(c) PROVE Kept
    BY <1>13 DEF Interrupt
  <1>14. ASSUME NEW c \in Commands, NEW k \in {"start", "stop", "status", "stdio"}, ReadState(c, k)
        PROVE  Kept
    BY <1>14 DEF ReadState
  <1>15. ASSUME NEW p \in Pids, RunForeground(p) PROVE Kept
    BY <1>15 DEF RunForeground
  <1>16. ASSUME NEW p \in Pids, Bind(p) PROVE Kept
    BY <1>16 DEF Bind
  <1>17. ASSUME NEW p \in Pids, Die(p) PROVE Kept
    BY <1>17 DEF Die
  <1>18. ASSUME NEW p \in Pids, ShutDown(p) PROVE Kept
    BY <1>18 DEF ShutDown
  <1>19. CASE Upgrade
    BY <1>19 DEF Upgrade
  <1>20. CASE UNCHANGED vars
    BY <1>20 DEF vars, osVars, cmdVars
  <1> HIDE DaemonAssumption DEF OneAtATime, DaemonInv, TypeInv, TypeOK, CommandInv, AtMostOne, NoOrphan,
          Owned, LiveChildren, osVars, cmdVars, Kept
  <1> QED
    BY <1>1, <1>2, <1>3, <1>4, <1>5, <1>6, <1>7, <1>8, <1>9, <1>10, <1>11, <1>12, <1>13, <1>14, <1>15,
       <1>16, <1>17, <1>18, <1>19, <1>20 DEF Next

\* One command at a time leaves at most one daemon, and one that the commands can
\* find, after any sequence of starts, stops, crashes, upgrades and interrupted
\* starts (daemon.py: start_http, status, stop).
THEOREM OneDaemon ==
    ASSUME OneAtATime
    PROVE  Spec => []OneFindableDaemon
  <1>1. DaemonInv => OneFindableDaemon
    <2> SUFFICES ASSUME DaemonInv PROVE OneLiveDaemon
      BY DEF DaemonInv, TypeInv, OneFindableDaemon
    <2>1. CASE LiveChildren = {}
      BY <2>1, FS_EmptySet DEF OneLiveDaemon
    <2>2. ASSUME NEW p \in LiveChildren PROVE OneLiveDaemon
      <3>1. LiveChildren = {p}
        BY <2>2 DEF DaemonInv, AtMostOne
      <3> QED
        BY <3>1, FS_Singleton DEF OneLiveDaemon
    <2> QED
      BY <2>1, <2>2
  <1> QED
    BY <1>1, DaemonInit, DaemonStep, PTL DEF Spec

-----------------------------------------------------------------------------
(* Credentials: inductive invariants                                        *)

\* The lock is held by the task that is inside fetch_if_stale, and by no other;
\* a credential that was found stale is stale until the holder replaces it.
LockInv ==
    /\ CacheTypeOK
    /\ \A t \in Tasks : task[t] \in {"locked", "fetching"} <=> lock = t
    /\ \A t \in Tasks : task[t] = "fetching" => ~IsFresh

\* A refresh that returned at `since` left a credential that outlives the skew,
\* and the task has not been away for longer than that.
RefreshInv ==
    \A t \in Tasks :
        task[t] = "refreshed" =>
          /\ since[t] <= clock /\ clock <= since[t] + Skew
          /\ since[t] + Skew < cached

-----------------------------------------------------------------------------
(* The cache                                                                *)

LEMMA LockInit == CacheInit => LockInv
  BY ClockAssumption DEF CacheInit, LockInv, CacheTypeOK, IsFresh

LEMMA LockStep == LockInv /\ [CacheNext]_cacheVars => LockInv'
  <1> SUFFICES ASSUME LockInv, [CacheNext]_cacheVars PROVE LockInv'
    OBVIOUS
  <1> USE ClockAssumption DEF LockInv, CacheTypeOK, IsFresh
  <1>1. ASSUME NEW t \in Tasks, Acquire(t) PROVE LockInv'
    BY <1>1 DEF Acquire
  <1>2. ASSUME NEW t \in Tasks, TakeLock(t) PROVE LockInv'
    BY <1>2 DEF TakeLock
  <1>3. ASSUME NEW t \in Tasks, StillGood(t) PROVE LockInv'
    BY <1>3 DEF StillGood
  <1>4. ASSUME NEW t \in Tasks, CallProvider(t) PROVE LockInv'
    BY <1>4 DEF CallProvider
  <1>5. ASSUME NEW t \in Tasks, Fetched(t) PROVE LockInv'
    BY <1>5 DEF Fetched
  <1>6. ASSUME NEW t \in Tasks, FetchFailed(t) PROVE LockInv'
    BY <1>6 DEF FetchFailed
  <1>7. ASSUME NEW t \in Tasks, Connect(t) PROVE LockInv'
    BY <1>7 DEF Connect
  <1>8. ASSUME NEW t \in Tasks, Close(t) PROVE LockInv'
    BY <1>8 DEF Close
  <1>9. CASE Tick
    BY <1>9 DEF Tick
  <1>10. CASE UNCHANGED cacheVars
    BY <1>10 DEF cacheVars
  <1> QED
    BY <1>1, <1>2, <1>3, <1>4, <1>5, <1>6, <1>7, <1>8, <1>9, <1>10 DEF CacheNext

\* However many tasks connect at once, the provider is called by one of them at a
\* time and never while the held credential is fresh (credentials.py: fetch_if_stale).
THEOREM CacheSound == CacheSpec => []CacheIsSound
  <1>1. LockInv => CacheIsSound
    BY DEF LockInv, CacheIsSound, OneFetchPerLife
  <1> QED
    BY <1>1, LockInit, LockStep, PTL DEF CacheSpec

-----------------------------------------------------------------------------
(* What a connection is opened with                                         *)

LEMMA RefreshStep ==
    ASSUME Skew < Lifetime, LockInv, RefreshInv, [CacheNext]_cacheVars
    PROVE  RefreshInv'
  <1> USE ClockAssumption DEF LockInv, CacheTypeOK, RefreshInv
  <1>1. ASSUME NEW t \in Tasks, Acquire(t) PROVE RefreshInv'
    BY <1>1 DEF Acquire
  <1>2. ASSUME NEW t \in Tasks, TakeLock(t) PROVE RefreshInv'
    BY <1>2 DEF TakeLock
  <1>3. ASSUME NEW t \in Tasks, StillGood(t) PROVE RefreshInv'
    BY <1>3 DEF StillGood, IsFresh
  <1>4. ASSUME NEW t \in Tasks, CallProvider(t) PROVE RefreshInv'
    BY <1>4 DEF CallProvider
  <1>5. ASSUME NEW t \in Tasks, Fetched(t) PROVE RefreshInv'
    BY <1>5 DEF Fetched
  <1>6. ASSUME NEW t \in Tasks, FetchFailed(t) PROVE RefreshInv'
    BY <1>6 DEF FetchFailed
  <1>7. ASSUME NEW t \in Tasks, Connect(t) PROVE RefreshInv'
    BY <1>7 DEF Connect
  <1>8. ASSUME NEW t \in Tasks, Close(t) PROVE RefreshInv'
    BY <1>8 DEF Close
  <1>9. CASE Tick
    BY <1>9 DEF Tick
  <1>10. CASE UNCHANGED cacheVars
    BY <1>10 DEF cacheVars
  <1> QED
    BY <1>1, <1>2, <1>3, <1>4, <1>5, <1>6, <1>7, <1>8, <1>9, <1>10 DEF CacheNext

\* Only the driver's hook opens a connection, and it stamps the cached credential.
LEMMA OnlyConnectOpens ==
    ASSUME LockInv, [CacheNext]_cacheVars, NEW t \in Tasks, task[t] = "refreshed", task'[t] = "connected"
    PROVE  used'[t] = cached /\ clock' = clock
  <1> USE DEF LockInv, CacheTypeOK
  <1>1. ASSUME NEW u \in Tasks, Connect(u) PROVE used'[t] = cached /\ clock' = clock
    BY <1>1 DEF Connect
  <1>2. ASSUME NEW u \in Tasks,
               \/ Acquire(u) \/ TakeLock(u) \/ StillGood(u) \/ CallProvider(u)
               \/ Fetched(u) \/ FetchFailed(u) \/ Close(u)
        PROVE  FALSE
    BY <1>2 DEF Acquire, TakeLock, StillGood, CallProvider, Fetched, FetchFailed, Close
  <1>3. ~Tick /\ ~UNCHANGED cacheVars
    BY DEF Tick, cacheVars
  <1> QED
    BY <1>1, <1>2, <1>3 DEF CacheNext

\* A connection is never opened with an expired credential, whichever task's fetch
\* put it into the cache, when a credential lives longer than the skew and a task
\* connects within the skew of its refresh (credentials.py: is_fresh; redshift.py:
\* _inject_credential).  With a shorter life every fetched credential is stale at
\* once and the hook may stamp a dead one.
THEOREM NeverExpired ==
    ASSUME Skew < Lifetime
    PROVE  CacheSpec => NeverOpensWithExpired
  <1> DEFINE Inv == LockInv /\ RefreshInv
  <1>1. CacheInit => Inv
    BY LockInit DEF CacheInit, RefreshInv
  <1>2. Inv /\ [CacheNext]_cacheVars => Inv'
    BY LockStep, RefreshStep
  <1>3. Inv /\ [CacheNext]_cacheVars =>
          [\A t \in Tasks : task[t] = "refreshed" /\ task'[t] = "connected" => clock < used'[t]]_cacheVars
    <2> SUFFICES ASSUME Inv, [CacheNext]_cacheVars, NEW t \in Tasks, task[t] = "refreshed", task'[t] = "connected"
                 PROVE  clock < used'[t]
      OBVIOUS
    <2>1. used'[t] = cached
      BY OnlyConnectOpens
    <2>2. clock <= since[t] + Skew /\ since[t] + Skew < cached
      BY DEF RefreshInv
    <2> QED
      BY <2>1, <2>2, ClockAssumption DEF LockInv, CacheTypeOK
  <1> QED
    BY <1>1, <1>2, <1>3, PTL DEF CacheSpec, NeverOpensWithExpired

-----------------------------------------------------------------------------
(* Decompose: the least number, and induction                               *)

LEMMA LeastNatural ==
    ASSUME NEW S \in SUBSET Nat, S # {}
    PROVE  \E x \in S : \A y \in S : x <= y
  <1> DEFINE R == OpToRel(<, Nat)
  <1>1. IsWellFoundedOn(R, Nat)
    BY NatLessThanWellFounded
  <1>2. \A x, y \in Nat : <<y, x>> \in R <=> y < x
    BY DEF OpToRel
  <1> HIDE DEF R
  <1>3. PICK x \in S : \A y \in S : ~(<<y, x>> \in R)
    BY <1>1, WFMin
  <1>4. \A y \in S : ~(y < x)
    BY <1>2, <1>3
  <1> QED
    BY <1>4

LEMMA Induction ==
    ASSUME NEW S \in SUBSET Nat, 0 \in S, \A n \in S : n + 1 \in S
    PROVE  S = Nat
  <1> SUFFICES ASSUME Nat \ S # {} PROVE FALSE
    OBVIOUS
  <1>1. PICK x \in Nat \ S : \A y \in Nat \ S : x <= y
    <2>1. (Nat \ S) \in SUBSET Nat
      OBVIOUS
    <2> QED
      BY <2>1, LeastNatural
  <1>2. x # 0 /\ x - 1 \in Nat /\ x - 1 < x
    BY <1>1
  <1>3. x - 1 \in S
    BY <1>1, <1>2
  <1> QED
    BY <1>1, <1>2, <1>3

-----------------------------------------------------------------------------
(* Decompose: the calendar                                                             *)

StartsUpTo(f, n) == f = [m \in 0..n |-> IF m <= 1 THEN 1 ELSE f[m - 1] + MonthLengths[m - 1]]

LEMMA MonthStartUpTo ==
    \A n \in Nat : \E f : StartsUpTo(f, n)
  <1> DEFINE S == {n \in Nat : \E f : StartsUpTo(f, n)}
  <1>1. 0 \in S
    <2>1. StartsUpTo([m \in 0..0 |-> 1], 0)
      BY DEF StartsUpTo
    <2> QED
      BY <2>1
  <1>2. ASSUME NEW n \in S PROVE n + 1 \in S
    <2>1. PICK f : StartsUpTo(f, n)
      OBVIOUS
    <2> DEFINE g == [m \in 0..(n + 1) |-> IF m <= 1 THEN 1 ELSE f[m - 1] + MonthLengths[m - 1]]
    <2>2. \A m \in 0..n : g[m] = f[m]
      BY <2>1 DEF StartsUpTo
    <2>3. \A m \in 0..(n + 1) : ~(m <= 1) => m - 1 \in 0..n
      OBVIOUS
    <2>4. g = [m \in 0..(n + 1) |-> IF m <= 1 THEN 1 ELSE g[m - 1] + MonthLengths[m - 1]]
      BY <2>2, <2>3
    <2>5. StartsUpTo(g, n + 1)
      BY <2>4 DEF StartsUpTo
    <2> QED
      BY <2>5
  <1> HIDE DEF S
  <1>3. S = Nat
    <2>1. S \in SUBSET Nat
      BY DEF S
    <2> QED
      BY <1>1, <1>2, <2>1, Induction
  <1> QED
    BY <1>3 DEF S

LEMMA MonthStartAgree ==
    ASSUME NEW n \in Nat, NEW k \in Nat, NEW f, NEW g, StartsUpTo(f, n), StartsUpTo(g, k)
    PROVE  \A m \in Nat : m <= n /\ m <= k => f[m] = g[m]
  <1> DEFINE S == {m \in Nat : m <= n /\ m <= k => f[m] = g[m]}
  <1>1. 0 \in S
    BY DEF StartsUpTo
  <1>2. ASSUME NEW m \in S PROVE m + 1 \in S
    <2> SUFFICES ASSUME m + 1 <= n, m + 1 <= k PROVE f[m + 1] = g[m + 1]
      OBVIOUS
    <2>1. f[m] = g[m] /\ m + 1 \in 0..n /\ m + 1 \in 0..k /\ (m + 1) - 1 = m
      OBVIOUS
    <2>2. /\ f[m + 1] = IF m + 1 <= 1 THEN 1 ELSE f[(m + 1) - 1] + MonthLengths[(m + 1) - 1]
          /\ g[m + 1] = IF m + 1 <= 1 THEN 1 ELSE g[(m + 1) - 1] + MonthLengths[(m + 1) - 1]
      BY <2>1 DEF StartsUpTo
    <2> QED
      BY <2>1, <2>2
  <1> HIDE DEF S
  <1>3. S = Nat
    <2>1. S \in SUBSET Nat
      BY DEF S
    <2> QED
      BY <1>1, <1>2, <2>1, Induction
  <1> QED
    BY <1>3 DEF S

LEMMA MonthStartIs ==
    MonthStart = [m \in Nat |-> IF m <= 1 THEN 1 ELSE MonthStart[m - 1] + MonthLengths[m - 1]]
  <1> DEFINE At(n) == CHOOSE f : StartsUpTo(f, n)
             F == [m \in Nat |-> At(m)[m]]
  <1>1. \A n \in Nat : StartsUpTo(At(n), n)
    BY MonthStartUpTo
  <1> HIDE DEF At
  <1>2. ASSUME NEW m \in Nat, ~(m <= 1)
        PROVE  F[m] = F[m - 1] + MonthLengths[m - 1]
    <2>1. m - 1 \in Nat /\ m \in 0..m /\ m - 1 <= m /\ m - 1 <= m - 1
      BY <1>2
    <2>2. At(m)[m - 1] = At(m - 1)[m - 1]
      BY <1>1, <2>1, MonthStartAgree
    <2>3. At(m)[m] = At(m)[m - 1] + MonthLengths[m - 1]
      BY <1>1, <1>2, <2>1 DEF StartsUpTo
    <2> QED
      BY <2>1, <2>2, <2>3
  <1>3. ASSUME NEW m \in Nat, m <= 1 PROVE F[m] = 1
    BY <1>1, <1>3 DEF StartsUpTo
  <1>4. F = [m \in Nat |-> IF m <= 1 THEN 1 ELSE F[m - 1] + MonthLengths[m - 1]]
    BY <1>2, <1>3
  <1> HIDE DEF F
  <1>5. \E f : f = [m \in Nat |-> IF m <= 1 THEN 1 ELSE f[m - 1] + MonthLengths[m - 1]]
    BY <1>4
  <1> QED
    BY <1>5 DEF MonthStart

LEMMA MonthsFollow ==
    \A m \in Months : /\ MonthStart[m] \in Int
                      /\ MonthStart[m + 1] = MonthStart[m] + MonthLengths[m]
                      /\ MonthLengths[m] \in 28..31 /\ m \in Nat /\ m >= 1
  <1> DEFINE S == {m \in Nat : m \in Months => MonthStart[m] \in Int}
  <1>1. Months = 1..Len(MonthLengths) /\ Len(MonthLengths) \in Nat /\ \A m \in Months : MonthLengths[m] \in 28..31
    BY CalendarAssumption DEF Months
  <1>2. 0 \in S
    BY <1>1
  <1>3. ASSUME NEW m \in S PROVE m + 1 \in S
    <2> SUFFICES ASSUME m + 1 \in Months PROVE MonthStart[m + 1] \in Int
      OBVIOUS
    <2>1. m + 1 \in Nat /\ (m + 1) - 1 = m
      OBVIOUS
    <2>2. MonthStart[m + 1] = IF m + 1 <= 1 THEN 1 ELSE MonthStart[m] + MonthLengths[m]
      BY <2>1, MonthStartIs
    <2>3. CASE m = 0
      BY <2>2, <2>3
    <2>4. CASE m # 0
      <3>1. m \in Months
        BY <1>1, <2>4
      <3> QED
        BY <1>1, <2>2, <2>4, <3>1
    <2> QED
      BY <2>3, <2>4
  <1> HIDE DEF S
  <1>4. S = Nat
    <2>1. S \in SUBSET Nat
      BY DEF S
    <2> QED
      BY <1>2, <1>3, <2>1, Induction
  <1>5. ASSUME NEW m \in Months PROVE MonthStart[m + 1] = MonthStart[m] + MonthLengths[m]
    <2>1. m \in Nat /\ m >= 1 /\ m + 1 \in Nat /\ (m + 1) - 1 = m
      BY <1>1
    <2> QED
      BY <2>1, MonthStartIs
  <1> QED
    BY <1>1, <1>4, <1>5, SMTT(60) DEF S

LEMMA MonthsAscend ==
    \A m, k \in Months : m < k => MonthStart[m] + MonthLengths[m] <= MonthStart[k]
  <1> SUFFICES ASSUME NEW m \in Months
               PROVE  \A k \in Months : m < k => MonthStart[m] + MonthLengths[m] <= MonthStart[k]
    OBVIOUS
  <1> DEFINE S == {k \in Nat : k \in Months /\ m < k => MonthStart[m] + MonthLengths[m] <= MonthStart[k]}
  <1>1. Months = 1..Len(MonthLengths) /\ Len(MonthLengths) \in Nat
    BY CalendarAssumption DEF Months
  <1>2. 0 \in S
    BY <1>1
  <1>3. ASSUME NEW k \in S PROVE k + 1 \in S
    <2> SUFFICES ASSUME k + 1 \in Months, m < k + 1
                 PROVE  MonthStart[m] + MonthLengths[m] <= MonthStart[k + 1]
      OBVIOUS
    <2>1. k \in Months /\ m <= k
      BY <1>1
    <2>2. MonthStart[k + 1] = MonthStart[k] + MonthLengths[k] /\ MonthStart[k] \in Int /\ MonthLengths[k] \in 28..31
          /\ MonthStart[m] \in Int /\ MonthLengths[m] \in 28..31
      BY <2>1, MonthsFollow
    <2>3. CASE m = k
      BY <2>2, <2>3
    <2>4. CASE m < k
      <3>1. MonthStart[m] + MonthLengths[m] <= MonthStart[k]
        BY <2>1, <2>4
      <3> QED
        BY <2>2, <3>1
    <2> QED
      BY <1>1, <2>1, <2>3, <2>4
  <1> HIDE DEF S
  <1>4. S = Nat
    <2>1. S \in SUBSET Nat
      BY DEF S
    <2> QED
      BY <1>2, <1>3, <2>1, Induction
  <1> QED
    BY <1>1, <1>4 DEF S

Grains == {"day", "week", "month"}

LEMMA MonthOfDay ==
    ASSUME NEW day, IsDay(day)
    PROVE  /\ MonthOf(day) \in Months /\ day \in Int
           /\ MonthStart[MonthOf(day)] <= day
           /\ day < MonthStart[MonthOf(day)] + MonthLengths[MonthOf(day)]
  <1>1. MonthOf(day) \in Months /\ day \in MonthStart[MonthOf(day)] .. MonthStart[MonthOf(day)] + MonthLengths[MonthOf(day)] - 1
    BY DEF IsDay, MonthOf
  <1>2. MonthStart[MonthOf(day)] \in Int /\ MonthLengths[MonthOf(day)] \in 28..31
    BY <1>1, MonthsFollow
  <1> QED
    BY <1>1, <1>2

LEMMA MonthOfStart ==
    ASSUME NEW m \in Months
    PROVE  MonthOf(MonthStart[m]) = m
  <1> DEFINE k == MonthOf(MonthStart[m])
  <1>1. MonthStart[m] \in Int /\ MonthLengths[m] \in 28..31
    BY MonthsFollow
  <1>2. IsDay(MonthStart[m])
    BY <1>1 DEF IsDay
  <1>3. k \in Months /\ MonthStart[k] <= MonthStart[m] /\ MonthStart[m] < MonthStart[k] + MonthLengths[k]
    BY <1>2, MonthOfDay
  <1> HIDE DEF k
  <1>4. MonthStart[k] \in Int /\ MonthLengths[k] \in 28..31 /\ k \in Nat /\ m \in Nat
    BY <1>3, MonthsFollow
  <1>5. ~(k < m)
    BY <1>1, <1>3, <1>4, MonthsAscend
  <1>6. ~(m < k)
    BY <1>1, <1>3, <1>4, MonthsAscend
  <1> QED
    BY <1>4, <1>5, <1>6 DEF k

LEMMA FloorFacts ==
    ASSUME NEW day, IsDay(day), NEW grain \in Grains
    PROVE  /\ FloorDate(day, grain) \in Int /\ FloorDate(day, grain) <= day
           /\ PeriodEnd(FloorDate(day, grain), grain) \in Int
           /\ grain = "month" => FloorDate(day, grain) = MonthStart[MonthOf(day)]
  <1>1. MonthOf(day) \in Months /\ day \in Int /\ MonthStart[MonthOf(day)] <= day
    BY MonthOfDay
  <1>2. CASE grain = "day"
    BY <1>1, <1>2 DEF FloorDate, PeriodEnd
  <1>3. CASE grain = "week"
    <2>1. Weekday(day) \in 0..6
      BY <1>1, CalendarAssumption DEF Weekday
    <2>2. FloorDate(day, grain) = day - Weekday(day)
      BY <1>3 DEF FloorDate
    <2>3. PeriodEnd(FloorDate(day, grain), grain) = FloorDate(day, grain) + 7
      BY <1>3 DEF PeriodEnd
    <2> QED
      BY <1>1, <1>3, <2>1, <2>2, <2>3
  <1>4. CASE grain = "month"
    <2> DEFINE m == MonthOf(day)
    <2>1. FloorDate(day, grain) = MonthStart[m]
      BY <1>4 DEF FloorDate
    <2>2. PeriodEnd(MonthStart[m], grain) = MonthStart[m + 1]
      BY <1>1, <1>4, MonthOfStart DEF PeriodEnd
    <2>3. MonthStart[m] \in Int /\ MonthStart[m + 1] = MonthStart[m] + MonthLengths[m] /\ MonthLengths[m] \in 28..31
      BY <1>1, MonthsFollow
    <2> QED
      BY <1>1, <1>4, <2>1, <2>2, <2>3
  <1> QED
    BY <1>2, <1>3, <1>4 DEF Grains

\* The later of two periods ends later.
LEMMA PeriodsInOrder ==
    ASSUME NEW x, IsDay(x), NEW y, IsDay(y), NEW grain \in Grains,
           FloorDate(x, grain) <= FloorDate(y, grain)
    PROVE  PeriodEnd(FloorDate(x, grain), grain) <= PeriodEnd(FloorDate(y, grain), grain)
  <1>1. FloorDate(x, grain) \in Int /\ FloorDate(y, grain) \in Int
    BY FloorFacts
  <1>2. CASE grain \in {"day", "week"}
    BY <1>1, <1>2 DEF PeriodEnd
  <1>3. CASE grain = "month"
    <2> DEFINE m == MonthOf(x)  k == MonthOf(y)
    <2>1. m \in Months /\ k \in Months
      BY MonthOfDay
    <2>2. FloorDate(x, grain) = MonthStart[m] /\ FloorDate(y, grain) = MonthStart[k]
      BY <1>3, FloorFacts
    <2>3. PeriodEnd(MonthStart[m], grain) = MonthStart[m + 1] /\ PeriodEnd(MonthStart[k], grain) = MonthStart[k + 1]
      BY <1>3, <2>1, MonthOfStart DEF PeriodEnd
    <2>4. /\ MonthStart[m] \in Int /\ MonthStart[m + 1] = MonthStart[m] + MonthLengths[m] /\ MonthLengths[m] \in 28..31
          /\ MonthStart[k] \in Int /\ MonthStart[k + 1] = MonthStart[k] + MonthLengths[k] /\ MonthLengths[k] \in 28..31
          /\ m \in Nat /\ k \in Nat
      BY <2>1, MonthsFollow
    <2> HIDE DEF m, k
    <2>5. MonthStart[m] <= MonthStart[k]
      BY <2>2
    <2>6. CASE m < k
      <3>1. MonthStart[m] + MonthLengths[m] <= MonthStart[k]
        BY <2>1, <2>6, MonthsAscend
      <3> QED
        BY <2>2, <2>3, <2>4, <3>1
    <2>7. CASE m = k
      BY <2>2, <2>3, <2>4, <2>7
    <2>8. CASE k < m
      <3>1. MonthStart[k] + MonthLengths[k] <= MonthStart[m]
        BY <2>1, <2>8, MonthsAscend
      <3> QED
        BY <2>4, <2>5, <3>1
    <2> QED
      BY <2>4, <2>6, <2>7, <2>8
  <1> QED
    BY <1>2, <1>3 DEF Grains

\* A set of whole numbers with a bound has a largest one.
LEMMA LargestExists ==
    ASSUME NEW S \in SUBSET Int, S # {}, NEW bound \in Int, \A x \in S : x <= bound
    PROVE  Max(S) \in S /\ \A y \in S : y <= Max(S)
  <1> DEFINE T == {bound - x : x \in S}
  <1>1. T \in SUBSET Nat /\ T # {}
    <2>1. \A x \in S : bound - x \in Nat
      OBVIOUS
    <2>2. PICK x \in S : TRUE
      OBVIOUS
    <2>3. bound - x \in T
      OBVIOUS
    <2> QED
      BY <2>1, <2>3
  <1>2. PICK t \in T : \A u \in T : t <= u
    <2> HIDE DEF T
    <2> QED
      BY <1>1, LeastNatural
  <1>3. PICK x \in S : t = bound - x
    BY <1>2
  <1>4. \A y \in S : x >= y
    <2> SUFFICES ASSUME NEW y \in S PROVE x >= y
      OBVIOUS
    <2>1. bound - y \in T
      OBVIOUS
    <2> QED
      BY <1>2, <1>3, <2>1
  <1>5. Max(S) \in S /\ \A y \in S : Max(S) >= y
    BY <1>4 DEF Max
  <1> QED
    BY <1>5

DaysOK(rows) == \A f \in rows : IsDay(f.day)

\* If a statement reads a row of a period that has not ended, the latest period
\* it reads has not ended.
LEMMA LatestIsOpen ==
    ASSUME DaysOK(facts), NEW r \in Requests, ChecksOpen(r),
           NEW f \in InPeriods(r), NEW i \in Open(r), IsInPeriod(f, r, i)
    PROVE  LatestOpen(r)
  <1> DEFINE met == {FloorDate(g.day, r.grain) : g \in InPeriods(r)}
             bound == MonthStart[Len(MonthLengths)] + MonthLengths[Len(MonthLengths)]
  <1>1. r.grain \in Grains /\ r.now \in Int /\ i \in 1..2
    BY DecomposeAssumption DEF Grains, Open
  <1>2. \A g \in InPeriods(r) : IsDay(g.day)
    BY DEF InPeriods, DaysOK
  <1>3. Len(MonthLengths) \in Months /\ \A m \in Months : m <= Len(MonthLengths)
    BY CalendarAssumption DEF Months
  <1>4. bound \in Int
    BY <1>3, MonthsFollow
  <1>5. ASSUME NEW g \in InPeriods(r)
        PROVE  FloorDate(g.day, r.grain) \in Int /\ FloorDate(g.day, r.grain) <= bound
    <2> DEFINE m == MonthOf(g.day)
    <2>1. m \in Months /\ g.day \in Int /\ g.day < MonthStart[m] + MonthLengths[m]
      BY <1>2, MonthOfDay
    <2>2. FloorDate(g.day, r.grain) \in Int /\ FloorDate(g.day, r.grain) <= g.day
      BY <1>1, <1>2, FloorFacts
    <2> HIDE DEF m
    <2>3. MonthStart[m] + MonthLengths[m] <= bound
      <3>1. CASE m = Len(MonthLengths)
        <4>1. MonthStart[m] \in Int /\ MonthLengths[m] \in 28..31
          BY <2>1, MonthsFollow
        <4> QED
          BY <3>1, <4>1
      <3>2. CASE m < Len(MonthLengths)
        <4>1. MonthStart[m] + MonthLengths[m] <= MonthStart[Len(MonthLengths)]
          BY <1>3, <2>1, <3>2, MonthsAscend
        <4>2. /\ MonthStart[m] \in Int /\ MonthLengths[m] \in 28..31
              /\ MonthStart[Len(MonthLengths)] \in Int /\ MonthLengths[Len(MonthLengths)] \in 28..31
          BY <1>3, <2>1, MonthsFollow
        <4> QED
          BY <4>1, <4>2, SMTT(60)
      <3>3. m \in Nat /\ Len(MonthLengths) \in Nat /\ m <= Len(MonthLengths)
        BY <1>3, <2>1, MonthsFollow
      <3> QED
        BY <3>1, <3>2, <3>3
    <2>4. MonthStart[m] \in Int /\ MonthLengths[m] \in 28..31
      BY <2>1, MonthsFollow
    <2> HIDE DEF bound
    <2> QED
      BY <1>4, <2>1, <2>2, <2>3, <2>4
  <1> HIDE DEF bound
  <1>6. met \in SUBSET Int /\ met # {} /\ \A x \in met : x <= bound
    BY <1>5
  <1>7. Max(met) \in met /\ \A y \in met : y <= Max(met)
    <2> HIDE DEF met
    <2> QED
      BY <1>4, <1>6, LargestExists
  <1>8. PICK g \in InPeriods(r) : Max(met) = FloorDate(g.day, r.grain)
    BY <1>7
  <1>9. FloorDate(f.day, r.grain) <= FloorDate(g.day, r.grain)
    <2>1. FloorDate(f.day, r.grain) \in met
      OBVIOUS
    <2> QED
      BY <1>7, <1>8, <2>1
  <1>10. PeriodEnd(FloorDate(f.day, r.grain), r.grain) <= PeriodEnd(Max(met), r.grain)
    BY <1>1, <1>2, <1>8, <1>9, PeriodsInOrder
  <1>11. FloorDate(f.day, r.grain) = Starts(r)[i]
    BY DEF IsInPeriod
  <1>12. PeriodEnd(Starts(r)[i], r.grain) > r.now
    BY DEF Open
  <1>13. PeriodEnd(FloorDate(f.day, r.grain), r.grain) \in Int /\ PeriodEnd(Max(met), r.grain) \in Int
    BY <1>1, <1>2, <1>8, FloorFacts
  <1>14. PeriodEnd(Max(met), r.grain) > r.now
    <2> HIDE DEF met
    <2> QED
      BY <1>1, <1>10, <1>11, <1>12, <1>13
  <1> QED
    BY <1>6, <1>14 DEF LatestOpen

\* A value that is not zero comes from a row.
LEMMA NothingAddsUpToZero ==
    ASSUME NEW rows, NEW leaf, NEW r, NEW i, \A f \in rows : ~IsInPeriod(f, r, i)
    PROVE  SumIn(rows, leaf, r, i) = 0
  <1> DEFINE own == {f \in rows : IsInPeriod(f, r, i)}
             in == {IsProvisional(f, r) : f \in own}
             v(side) == Aggregate(r.agg, leaf, {f \in own : IsProvisional(f, r) = side})
             B(g) == [s \in SUBSET in |-> IF s = {} THEN 0
                                          ELSE LET x == CHOOSE y \in s : TRUE IN v(x) + g[s \ {x}]]
             iter == CHOOSE g : g = B(g)
             h == [s \in SUBSET in |-> 0]
  <1>1. in = {}
    OBVIOUS
  <1>2. h = B(h)
    <2> HIDE DEF in
    <2> QED
      BY <1>1
  <1>3. iter = B(iter)
    <2> HIDE DEF h, B
    <2> QED
      BY <1>2
  <1>4. SumIn(rows, leaf, r, i) = iter[in]
    BY Zenon DEF SumIn, MapThenSumSet, MapThenFoldSet
  <1>5. iter[in] = 0
    <2> HIDE DEF iter, in
    <2> QED
      BY <1>1, <1>3
  <1> QED
    BY <1>4, <1>5

LEMMA OpenValue ==
    ASSUME DaysOK(facts), NEW r \in Requests, ChecksOpen(r), NEW rows \in SUBSET InPeriods(r),
           NEW leaf \in LeafNames, NEW i \in Open(r), ValuesOf(rows, r)[leaf][i] # 0
    PROVE  LatestOpen(r)
  <1>1. i \in {1, 2}
    BY DEF Open
  <1>2. SumIn(rows, leaf, r, i) # 0
    BY <1>1 DEF ValuesOf
  <1>3. PICK f \in rows : IsInPeriod(f, r, i)
    BY <1>2, NothingAddsUpToZero
  <1> QED
    BY <1>3, LatestIsOpen

-----------------------------------------------------------------------------
(* The tier of a statement                                                  *)

LEMMA ScoreIsLeast ==
    ASSUME NEW caps \in SUBSET Tiers
    PROVE  Score(caps) \in Tiers /\ \A t \in caps : Score(caps) <= t
  <1> DEFINE all == caps \cup {Trusted}
  <1>1. \E t \in all : \A u \in all : t <= u
    <2>1. CASE 1 \in all
      BY <2>1 DEF Tiers, Caution, Provisional, Trusted
    <2>2. CASE 1 \notin all /\ 2 \in all
      BY <2>2 DEF Tiers, Caution, Provisional, Trusted
    <2>3. CASE 1 \notin all /\ 2 \notin all
      BY <2>3 DEF Tiers, Caution, Provisional, Trusted
    <2> QED
      BY <2>1, <2>2, <2>3
  <1>2. Score(caps) \in all /\ \A u \in all : Score(caps) <= u
    BY <1>1 DEF Score
  <1> QED
    BY <1>2 DEF Tiers, Caution, Provisional, Trusted

Bindings == {Inputs[leaf].binding : leaf \in LeafNames}

LEMMA TierFacts ==
    ASSUME NEW r \in Requests, r.kind \in Decomposable, history \in [Bindings -> {"none", "pass", "fail"}]
    PROVE  /\ StatementTier(r) \in Tiers
           /\ LatestOpen(r) \/ HasProvisional(r) => StatementTier(r) <= Provisional
           /\ StatementTier(r) = Trusted => \A leaf \in Leaves(r.kind) : history[Inputs[leaf].binding] = "pass"
  <1> DEFINE ins == {Inputs[leaf] : leaf \in Leaves(r.kind)}
             own(i) == {ProvenanceCap(i), AssertionCap(i, history), OutcomeCap(i, {})}
             all == UNION {own(i) : i \in ins}
             last == {AnswerCap(d) : d \in {HasProvisional(r), LatestOpen(r)}}
             caps == all \cup last
  <1>1. StatementTier(r) = Score(caps)
    BY Zenon DEF StatementTier, TrustFor
  <1>2. Leaves(r.kind) \subseteq LeafNames
    BY DEF Leaves, LeafNames, Decomposable
  <1>3. \A i \in ins : ProvenanceCap(i) \in Tiers /\ OutcomeCap(i, {}) \in Tiers /\ AssertionCap(i, history) \in Tiers
    BY DEF ProvenanceCap, OutcomeCap, AssertionCap, Tiers
  <1>4. /\ AnswerCap(LatestOpen(r)) \in Tiers /\ (LatestOpen(r) => AnswerCap(LatestOpen(r)) = Provisional)
        /\ AnswerCap(HasProvisional(r)) \in Tiers /\ (HasProvisional(r) => AnswerCap(HasProvisional(r)) = Provisional)
    BY DEF AnswerCap, Tiers
  <1>5. last = {AnswerCap(HasProvisional(r)), AnswerCap(LatestOpen(r))}
    BY Zenon
  <1>6. all \subseteq Tiers /\ \A leaf \in Leaves(r.kind) : AssertionCap(Inputs[leaf], history) \in all
    <2>1. \A leaf \in Leaves(r.kind) : AssertionCap(Inputs[leaf], history) \in own(Inputs[leaf]) /\ Inputs[leaf] \in ins
      OBVIOUS
    <2>2. \A i \in ins : own(i) \subseteq Tiers
      BY <1>3
    <2> HIDE DEF own, ins
    <2> QED
      BY <2>1, <2>2
  <1> HIDE DEF all, last
  <1>10. caps \in SUBSET Tiers /\ AnswerCap(LatestOpen(r)) \in caps /\ AnswerCap(HasProvisional(r)) \in caps
    BY <1>4, <1>5, <1>6
  <1>11. \A leaf \in Leaves(r.kind) : AssertionCap(Inputs[leaf], history) \in caps
    BY <1>6
  <1> HIDE DEF caps
  <1>7. Score(caps) \in Tiers /\ \A t \in caps : Score(caps) <= t
    BY <1>10, ScoreIsLeast
  <1>8. LatestOpen(r) \/ HasProvisional(r) => Score(caps) <= Provisional
    BY <1>4, <1>7, <1>10
  <1>9. ASSUME Score(caps) = Trusted, NEW leaf \in Leaves(r.kind)
        PROVE  history[Inputs[leaf].binding] = "pass"
    <2>1. AssertionCap(Inputs[leaf], history) \in Tiers /\ Trusted <= AssertionCap(Inputs[leaf], history)
      BY <1>3, <1>7, <1>9, <1>11
    <2>2. AssertionCap(Inputs[leaf], history) = Trusted
      BY <2>1 DEF Tiers, Caution, Provisional, Trusted
    <2>3. leaf \in LeafNames /\ history[Inputs[leaf].binding] \in {"none", "pass", "fail"}
      BY <1>2 DEF Bindings
    <2> QED
      BY <2>2, <2>3, DecomposeAssumption DEF AssertionCap, Caution, Provisional, Trusted
  <1> QED
    BY <1>1, <1>7, <1>8, <1>9

LEMMA LeastTier ==
    ASSUME NEW ts \in Seq(Tiers), ts # <<>>
    PROVE  MergedTrust(ts) \in ToSet(ts) /\ \A t \in ToSet(ts) : MergedTrust(ts) <= t
  <1> DEFINE all == ToSet(ts)
  <1>1. all \in SUBSET Tiers /\ all # {}
    <2>1. Len(ts) \in Nat /\ DOMAIN ts = 1..Len(ts) /\ 1 \in DOMAIN ts
      OBVIOUS
    <2>2. all = {ts[i] : i \in 1..Len(ts)}
      BY <2>1 DEF ToSet
    <2> QED
      BY <2>1, <2>2
  <1> HIDE DEF all
  <1>2. \E t \in all : \A u \in all : t =< u
    <2>0. all \subseteq {1, 2, 3} /\ \E t \in all : TRUE
      BY <1>1 DEF Tiers, Caution, Provisional, Trusted
    <2>1. CASE 1 \in all
      BY <2>0, <2>1
    <2>2. CASE 1 \notin all /\ 2 \in all
      BY <2>0, <2>2
    <2>3. CASE 1 \notin all /\ 2 \notin all
      BY <2>0, <2>3
    <2> QED
      BY <2>1, <2>2, <2>3
  <1> QED
    BY <1>2 DEF MergedTrust, Min, all

IsList(s) == \E S : s \in Seq(S)

LEMMA ListFacts ==
    ASSUME NEW s, IsList(s), NEW e
    PROVE  /\ Len(s) \in Nat /\ DOMAIN s = 1..Len(s)
           /\ IsList(Append(s, e)) /\ Len(Append(s, e)) = Len(s) + 1
           /\ DOMAIN Append(s, e) = 1..(Len(s) + 1)
           /\ Append(s, e)[Len(s) + 1] = e
           /\ \A i \in 1..Len(s) : Append(s, e)[i] = s[i]
  <1>1. PICK S : s \in Seq(S)
    BY DEF IsList
  <1> DEFINE T == S \cup {e}
  <1>2. s \in Seq(T) /\ e \in T
    BY <1>1
  <1> HIDE DEF T
  <1>3. Append(s, e) \in Seq(T)
    BY <1>2
  <1>4. IsList(Append(s, e))
    BY <1>3 DEF IsList
  <1> QED
    BY <1>2, <1>4

LEMMA EmptyList == IsList(<<>>) /\ Len(<<>>) = 0 /\ DOMAIN <<>> = {}
  <1>1. <<>> \in Seq({})
    OBVIOUS
  <1> QED
    BY <1>1 DEF IsList
-----------------------------------------------------------------------------
(* A request                                                                *)

RequestInv ==
    /\ loaded \in BOOLEAN /\ DaysOK(facts)
    /\ stage \in {"idle", "overall", "splits", "done"}
    /\ IsList(splits) /\ Len(splits) <= MaxBy
    /\ IsList(reads)
    /\ stage \in {"idle", "overall"} => splits = <<>> /\ tiers = <<>> /\ reads = <<>>
    /\ stage # "done" => answer = Null /\ events = <<>>
    /\ stage # "idle" => request \in Requests
    /\ stage \in {"overall", "splits"} => Refusal(request) = "none"
    /\ stage = "splits" => Len(splits) <= Len(request.by)
    /\ Len(events) <= 1 /\ EventTellsTheTier

TiersInv ==
    /\ tiers \in Seq(Tiers)
    /\ stage = "splits" \/ Answered => tiers # <<>>
    /\ Answered => stage = "done" /\ answer.tier = MergedTrust(tiers)

HarnessInv ==
    /\ history \in [Bindings -> {"none", "pass", "fail"}]
    /\ asserting # Null => /\ IsList(asserting) /\ Len(asserting) <= Len(Assertions)
                           /\ \A i \in DOMAIN asserting : /\ asserting[i].bindings = Covered(Assertions[i])
                                                          /\ asserting[i].verdict \in Verdicts
    /\ \A b \in Bindings : \/ history[b] = "none"
                           \/ /\ asserting # Null /\ Len(asserting) = Len(Assertions)
                              /\ history[b] = Recorded(asserting, Bindings)[b]

ShowsOpen == ChecksOpen(request) /\ \E pair \in ShownPairs : \E i \in Open(request) : pair[i] # 0
ReadProvisional == \E i \in DOMAIN reads : \E f \in reads[i] : IsProvisional(f, request)

CapInv ==
    (stage = "splits" \/ Answered) /\ (ShowsOpen \/ ReadProvisional) => \E t \in ToSet(tiers) : t <= Provisional

Passed(leaf) ==
    LET own == {i \in 1..Len(Assertions) : Inputs[leaf].binding \in Covered(Assertions[i])}
    IN  own # {} /\ \A i \in own : asserting[i].verdict = "pass"

EarnedInv ==
    Trusted \in ToSet(tiers) =>
        /\ asserting # Null /\ Len(asserting) = Len(Assertions)
        /\ \A leaf \in Leaves(request.kind) : Passed(leaf)

AttributionInv == RequestInv /\ TiersInv /\ HarnessInv /\ CapInv /\ EarnedInv

\* What the merged outcomes amount to.
Verdict(outcomes, n, b) ==
    LET own == {i \in 1..n : b \in outcomes[i].bindings}
    IN  IF own = {} THEN "none" ELSE IF \E i \in own : outcomes[i].verdict = "fail" THEN "fail" ELSE "pass"

LEMMA VerdictMerges ==
    ASSUME NEW outcomes, NEW n \in Nat, NEW b, \A i \in 1..(n + 1) : outcomes[i].verdict \in {"pass", "fail"}
    PROVE  Verdict(outcomes, n + 1, b) =
             IF b \in outcomes[n + 1].bindings THEN Merged(Verdict(outcomes, n, b), outcomes[n + 1].verdict)
             ELSE Verdict(outcomes, n, b)
  <1> DEFINE own == {i \in 1..n : b \in outcomes[i].bindings}
             more == {i \in 1..(n + 1) : b \in outcomes[i].bindings}
  <1>1. n + 1 \in 1..(n + 1) /\ \A i : i \in 1..(n + 1) <=> i \in 1..n \/ i = n + 1
    OBVIOUS
  <1>2. CASE b \notin outcomes[n + 1].bindings
    <2>1. more = own
      BY <1>1, <1>2
    <2> QED
      BY <1>2, <2>1 DEF Verdict
  <1>3. CASE b \in outcomes[n + 1].bindings
    <2>1. more = own \cup {n + 1}
      BY <1>1, <1>3
    <2>2. outcomes[n + 1].verdict \in {"pass", "fail"}
      BY <1>1
    <2>3. Verdict(outcomes, n + 1, b) = IF \E i \in more : outcomes[i].verdict = "fail" THEN "fail" ELSE "pass"
      BY <2>1 DEF Verdict
    <2>4. Verdict(outcomes, n, b) =
             IF own = {} THEN "none" ELSE IF \E i \in own : outcomes[i].verdict = "fail" THEN "fail" ELSE "pass"
      BY DEF Verdict
    <2> HIDE DEF own, more
    <2>5. CASE \E i \in own : outcomes[i].verdict = "fail"
      BY <1>3, <2>1, <2>2, <2>3, <2>4, <2>5 DEF Merged
    <2>6. CASE ~ \E i \in own : outcomes[i].verdict = "fail"
      <3>1. (\E i \in more : outcomes[i].verdict = "fail") <=> outcomes[n + 1].verdict = "fail"
        BY <2>1, <2>6
      <3> QED
        BY <1>3, <2>2, <2>3, <2>4, <2>6, <3>1 DEF Merged
    <2> QED
      BY <2>5, <2>6
  <1> QED
    BY <1>2, <1>3

LEMMA RecordedIs ==
    ASSUME NEW outcomes, Len(outcomes) \in Nat, NEW bindings,
           \A i \in 1..Len(outcomes) : outcomes[i].verdict \in {"pass", "fail"}
    PROVE  Recorded(outcomes, bindings) = [b \in bindings |-> Verdict(outcomes, Len(outcomes), b)]
  <1> DEFINE N == Len(outcomes)
             B(per) == [n \in 0..N |->
                          [b \in bindings |->
                             IF n = 0 THEN "none"
                             ELSE IF b \in outcomes[n].bindings THEN Merged(per[n - 1][b], outcomes[n].verdict)
                             ELSE per[n - 1][b]]]
             W == [n \in 0..N |-> [b \in bindings |-> Verdict(outcomes, n, b)]]
             per == CHOOSE f : f = B(f)
  <1>1. Recorded(outcomes, bindings) = per[N]
    BY DEF Recorded
  <1> HIDE DEF N
  <1>2. N \in Nat /\ \A i \in 1..N : outcomes[i].verdict \in {"pass", "fail"}
    BY DEF N
  <1>3. \A b : Verdict(outcomes, 0, b) = "none"
    BY DEF Verdict
  <1>4. ASSUME NEW n \in 0..N, n # 0, NEW b
        PROVE  Verdict(outcomes, n, b) =
                 IF b \in outcomes[n].bindings THEN Merged(Verdict(outcomes, n - 1, b), outcomes[n].verdict)
                 ELSE Verdict(outcomes, n - 1, b)
    <2>1. n - 1 \in Nat /\ (n - 1) + 1 = n /\ 1..n \subseteq 1..N
      BY <1>2, <1>4
    <2> QED
      BY <1>2, <2>1, VerdictMerges
  <1>5. \A n \in 0..N : n # 0 => n - 1 \in 0..N
    BY <1>2
  <1>6. W = B(W)
    BY <1>3, <1>4, <1>5, ZenonT(60) DEF W
  <1>7. per = B(per)
    <2> HIDE DEF W, B
    <2> QED
      BY <1>6
  <1> HIDE DEF W, per
  <1> DEFINE S == {n \in Nat : n \in 0..N => per[n] = [b \in bindings |-> Verdict(outcomes, n, b)]}
  <1>8. 0 \in S
    BY <1>2, <1>3, <1>7
  <1>9. ASSUME NEW n \in S PROVE n + 1 \in S
    <2> SUFFICES ASSUME n + 1 \in 0..N
                 PROVE  per[n + 1] = [b \in bindings |-> Verdict(outcomes, n + 1, b)]
      OBVIOUS
    <2>1. n \in Nat /\ n \in 0..N /\ n + 1 # 0 /\ (n + 1) - 1 = n
      BY <1>2
    <2>2. per[n] = [b \in bindings |-> Verdict(outcomes, n, b)]
      BY <2>1
    <2>3. per[n + 1] = [b \in bindings |->
                          IF b \in outcomes[n + 1].bindings THEN Merged(per[n][b], outcomes[n + 1].verdict)
                          ELSE per[n][b]]
      BY <1>7, <2>1
    <2>4. \A b \in bindings : per[n][b] = Verdict(outcomes, n, b)
      BY <2>2
    <2>5. \A b \in bindings : Verdict(outcomes, n + 1, b) =
             IF b \in outcomes[n + 1].bindings THEN Merged(Verdict(outcomes, n, b), outcomes[n + 1].verdict)
             ELSE Verdict(outcomes, n, b)
      BY <1>4, <2>1
    <2> QED
      BY ONLY <2>3, <2>4, <2>5, ZenonT(60)
  <1>10. S = Nat
    <2>1. S \in SUBSET Nat
      OBVIOUS
    <2> HIDE DEF S
    <2> QED
      BY <1>8, <1>9, <2>1, Induction
  <1>11. N \in 0..N
    BY <1>2
  <1> QED
    BY <1>1, <1>2, <1>10, <1>11 DEF N

LEMMA PassIsEarned ==
    ASSUME HarnessInv, NEW leaf \in LeafNames, history[Inputs[leaf].binding] = "pass"
    PROVE  asserting # Null /\ Len(asserting) = Len(Assertions) /\ Passed(leaf)
  <1> DEFINE b == Inputs[leaf].binding
             own == {i \in 1..Len(Assertions) : b \in Covered(Assertions[i])}
  <1>1. b \in Bindings
    BY DEF Bindings
  <1>2. asserting # Null /\ Len(asserting) = Len(Assertions) /\ "pass" = Recorded(asserting, Bindings)[b]
    BY <1>1 DEF HarnessInv
  <1>3. IsList(asserting) /\ DOMAIN asserting = 1..Len(asserting)
    BY <1>2, ListFacts DEF HarnessInv
  <1>4. /\ Len(asserting) \in Nat
        /\ \A i \in 1..Len(Assertions) : /\ asserting[i].bindings = Covered(Assertions[i])
                                         /\ asserting[i].verdict \in {"pass", "fail"}
    BY <1>2, <1>3, DecomposeAssumption DEF HarnessInv
  <1>5. Recorded(asserting, Bindings)[b] = Verdict(asserting, Len(asserting), b)
    <2> HIDE DEF b
    <2> QED
      BY <1>1, <1>2, <1>4, RecordedIs
  <1>6. own = {i \in 1..Len(asserting) : b \in asserting[i].bindings}
    BY <1>2, <1>4
  <1>7. "pass" = IF own = {} THEN "none" ELSE IF \E i \in own : asserting[i].verdict = "fail" THEN "fail" ELSE "pass"
    BY <1>2, <1>5, <1>6 DEF Verdict
  <1>8. own # {} /\ \A i \in own : asserting[i].verdict = "pass"
    <2>1. own \subseteq 1..Len(Assertions)
      OBVIOUS
    <2> HIDE DEF own
    <2> QED
      BY <1>4, <1>7, <2>1
  <1> QED
    BY <1>2, <1>8 DEF Passed

LEMMA AttributionStart == AttributionInit => AttributionInv
  <1> SUFFICES ASSUME AttributionInit PROVE AttributionInv
    OBVIOUS
  <1> USE DEF AttributionInit, Idle
  <1>1. RequestInv
    <2>1. DaysOK(facts)
      BY DecomposeAssumption DEF DaysOK
    <2>2. IsList(splits) /\ Len(splits) <= MaxBy
      BY EmptyList, DecomposeAssumption
    <2>3. IsList(reads) /\ Len(events) <= 1
      BY EmptyList
    <2>4. EventTellsTheTier
      BY DEF EventTellsTheTier
    <2> QED
      BY <2>1, <2>2, <2>3, <2>4 DEF RequestInv
  <1>2. TiersInv
    BY DEF TiersInv, Answered
  <1>3. HarnessInv
    BY DEF HarnessInv, Bindings
  <1>4. CapInv
    BY DEF CapInv, Answered
  <1>5. EarnedInv
    <2>1. ToSet(tiers) = {}
      BY EmptyList DEF ToSet
    <2> QED
      BY <2>1 DEF EarnedInv
  <1> QED
    BY <1>1, <1>2, <1>3, <1>4, <1>5 DEF AttributionInv

\* What a request that is served has passed.
LEMMA ServedFacts ==
    ASSUME NEW r \in Requests, Refusal(r) = "none"
    PROVE  r.kind \in Decomposable /\ Len(r.by) <= MaxBy /\ Len(r.by) \in Nat
  <1>1. ~Malformed(r) /\ ~Unsupported(r)
    BY DEF Refusal
  <1> QED
    BY <1>1, DecomposeAssumption DEF Malformed, Unsupported

\* A statement's tier is added to those of the answer.
LEMMA TierAdded ==
    ASSUME NEW ts \in Seq(Tiers), NEW t \in Tiers
    PROVE  Append(ts, t) \in Seq(Tiers) /\ Append(ts, t) # <<>> /\ ToSet(Append(ts, t)) = ToSet(ts) \cup {t}
  <1> DEFINE more == Append(ts, t)
  <1>1. /\ more \in Seq(Tiers) /\ Len(ts) \in Nat /\ DOMAIN ts = 1..Len(ts)
        /\ DOMAIN more = 1..(Len(ts) + 1) /\ Len(more) = Len(ts) + 1
        /\ more[Len(ts) + 1] = t /\ \A i \in 1..Len(ts) : more[i] = ts[i]
    OBVIOUS
  <1> HIDE DEF more
  <1>2. ToSet(more) = ToSet(ts) \cup {t}
    <2>1. ASSUME NEW x \in ToSet(more) PROVE x \in ToSet(ts) \cup {t}
      <3>1. PICK i \in 1..(Len(ts) + 1) : x = more[i]
        BY <1>1, <2>1 DEF ToSet
      <3>2. i = Len(ts) + 1 \/ i \in 1..Len(ts)
        BY <1>1
      <3> QED
        BY <1>1, <3>1, <3>2 DEF ToSet
    <2>2. ASSUME NEW x \in ToSet(ts) \cup {t} PROVE x \in ToSet(more)
      <3>1. CASE x = t
        <4>1. Len(ts) + 1 \in DOMAIN more
          BY <1>1
        <4> QED
          BY <1>1, <3>1, <4>1 DEF ToSet
      <3>2. CASE x \in ToSet(ts)
        <4>1. PICK i \in 1..Len(ts) : x = ts[i]
          BY <1>1, <3>2 DEF ToSet
        <4>2. i \in DOMAIN more /\ more[i] = x
          BY <1>1, <4>1
        <4> QED
          BY <4>2 DEF ToSet
      <3> QED
        BY <3>1, <3>2
    <2> QED
      BY <2>1, <2>2
  <1>3. more # <<>>
    BY <1>1
  <1> QED
    BY <1>1, <1>2, <1>3 DEF more

\* The event of a request that ends.
LEMMA EventAtTheEnd ==
    ASSUME events = <<>>, NEW error, NEW result, End(error, result)
    PROVE  /\ stage' = "done" /\ answer' = result /\ Len(events') <= 1
           /\ events' # <<>> => events'[1].tier = IF result = Null THEN Null ELSE result.tier
  <1> DEFINE e == [error |-> error, tier |-> IF result = Null THEN Null ELSE result.tier]
  <1>1. events' = Append(<<>>, e) \/ events' = <<>>
    BY DEF End, Emit
  <1>2. Len(<<>>) = 0 /\ IsList(<<>>)
    BY EmptyList
  <1>3. CASE events' = <<>>
    BY <1>2, <1>3 DEF End
  <1>4. CASE events' = Append(<<>>, e)
    <2>1. e.tier = IF result = Null THEN Null ELSE result.tier
      OBVIOUS
    <2> HIDE DEF e
    <2>2. Len(events') = 1 /\ events'[1] = e
      BY <1>2, <1>4, ListFacts
    <2> QED
      BY <2>1, <2>2 DEF End
  <1> QED
    BY <1>1, <1>3, <1>4

\* The warehouse and the harness change nothing that a request has.
LEMMA BesideARequest ==
    ASSUME AttributionInv, UNCHANGED <<request, stage, overall, splits, reads, tiers, answer, events>>,
           loaded' \in BOOLEAN, DaysOK(facts')
    PROVE  RequestInv' /\ TiersInv' /\ CapInv'
  <1>1. RequestInv'
    BY DEF AttributionInv, RequestInv, EventTellsTheTier, Answered
  <1>2. TiersInv'
    BY DEF AttributionInv, TiersInv, Answered
  <1>3. CapInv'
    <2>1. ShowsOpen' = ShowsOpen /\ ReadProvisional' = ReadProvisional
      BY DEF ShowsOpen, ShownPairs, Open, ChecksOpen, ReadProvisional, IsProvisional
    <2> QED
      BY <2>1 DEF AttributionInv, CapInv, Answered
  <1> QED
    BY <1>1, <1>2, <1>3

LEMMA ReceiveKeeps ==
    ASSUME AttributionInv, NEW r \in Requests, Receive(r)
    PROVE  AttributionInv'
  <1> USE DEF Receive, World
  <1>1. stage = "idle" /\ splits = <<>> /\ tiers = <<>> /\ answer = Null /\ events = <<>> /\ request' = r
    BY DEF AttributionInv, RequestInv
  <1>2. Refusal(request') = Refusal(r)
    BY <1>1
  <1>3. Len(splits) = 0 /\ ToSet(tiers') = {}
    BY <1>1, EmptyList DEF ToSet
  <1>4. HarnessInv'
    BY DEF AttributionInv, HarnessInv
  <1>5. EarnedInv'
    BY <1>3 DEF EarnedInv
  <1>6. CASE Refusal(r) # "none"
    <2>1. End(Refusal(r), Null)
      BY <1>6
    <2>2. /\ stage' = "done" /\ answer' = Null /\ Len(events') <= 1
          /\ events' # <<>> => events'[1].tier = Null
      BY <1>1, <2>1, EventAtTheEnd
    <2>3. RequestInv'
      BY <1>1, <1>2, <2>2 DEF AttributionInv, RequestInv, EventTellsTheTier, Answered
    <2>4. TiersInv' /\ CapInv'
      BY <1>1, <2>2 DEF AttributionInv, TiersInv, CapInv, Answered
    <2> QED
      BY <1>4, <1>5, <2>3, <2>4 DEF AttributionInv
  <1>7. CASE Refusal(r) = "none"
    <2>1. stage' = "overall" /\ answer' = Null /\ events' = <<>>
      BY <1>1, <1>7
    <2>2. RequestInv'
      BY <1>1, <1>2, <1>7, <2>1 DEF AttributionInv, RequestInv, EventTellsTheTier, Answered
    <2>3. TiersInv' /\ CapInv'
      BY <1>1, <2>1 DEF AttributionInv, TiersInv, CapInv, Answered
    <2> QED
      BY <1>4, <1>5, <2>2, <2>3 DEF AttributionInv
  <1> QED
    BY <1>6, <1>7

\* What the tier of a statement says of the harness.
LEMMA TrustAdded ==
    ASSUME AttributionInv, request \in Requests, Refusal(request) = "none",
           tiers' = Append(tiers, StatementTier(request)),
           UNCHANGED <<facts, loaded, asserting, history, request>>
    PROVE  /\ StatementTier(request) \in Tiers
           /\ tiers' \in Seq(Tiers) /\ tiers' # <<>> /\ ToSet(tiers') = ToSet(tiers) \cup {StatementTier(request)}
           /\ HarnessInv' /\ EarnedInv'
           /\ LatestOpen(request) \/ HasProvisional(request) => \E t \in ToSet(tiers') : t <= Provisional
  <1> DEFINE tier == StatementTier(request)
  <1>1. request.kind \in Decomposable
    BY ServedFacts
  <1>2. /\ tier \in Tiers
        /\ LatestOpen(request) \/ HasProvisional(request) => tier <= Provisional
        /\ tier = Trusted => \A leaf \in Leaves(request.kind) : history[Inputs[leaf].binding] = "pass"
    BY <1>1, TierFacts DEF AttributionInv, HarnessInv
  <1>3. tiers' \in Seq(Tiers) /\ tiers' # <<>> /\ ToSet(tiers') = ToSet(tiers) \cup {tier}
    BY <1>2, TierAdded DEF AttributionInv, TiersInv
  <1>4. HarnessInv'
    BY DEF AttributionInv, HarnessInv
  <1>5. Leaves(request.kind) \subseteq LeafNames /\ \E leaf \in Leaves(request.kind) : TRUE
    BY <1>1 DEF Leaves, LeafNames, Decomposable
  <1>6. ASSUME tier = Trusted
        PROVE  /\ asserting # Null /\ Len(asserting) = Len(Assertions)
               /\ \A leaf \in Leaves(request.kind) : Passed(leaf)
    BY <1>2, <1>5, <1>6, PassIsEarned DEF AttributionInv
  <1>7. EarnedInv'
    <2>1. Trusted \in ToSet(tiers') =>
             /\ asserting # Null /\ Len(asserting) = Len(Assertions)
             /\ \A leaf \in Leaves(request.kind) : Passed(leaf)
      BY <1>3, <1>6 DEF AttributionInv, EarnedInv
    <2> QED
      BY <2>1 DEF EarnedInv, Passed
  <1> QED
    BY <1>2, <1>3, <1>4, <1>7

LEMMA RunOverallKeeps ==
    ASSUME AttributionInv, RunOverall
    PROVE  AttributionInv'
  <1> USE DEF RunOverall, World
  <1> DEFINE rows == InPeriods(request)
             failure == CheckFails(request.kind, overall')
  <1>1. /\ stage = "overall" /\ splits = <<>> /\ reads = <<>> /\ tiers = <<>> /\ answer = Null /\ events = <<>>
        /\ request \in Requests /\ Refusal(request) = "none" /\ request' = request /\ splits' = <<>>
    BY DEF AttributionInv, RequestInv
  <1>2. /\ tiers' \in Seq(Tiers) /\ tiers' # <<>> /\ HarnessInv' /\ EarnedInv'
        /\ LatestOpen(request) \/ HasProvisional(request) => \E t \in ToSet(tiers') : t <= Provisional
    BY <1>1, TrustAdded
  <1>3. Len(splits') = 0 /\ IsList(splits') /\ DOMAIN splits' = {}
    BY <1>1, EmptyList
  <1>4. Refusal(request') = "none" /\ Len(request'.by) \in Nat /\ Len(request'.by) <= MaxBy /\ MaxBy \in Nat
    BY <1>1, ServedFacts, DecomposeAssumption
  <1>7. IsList(reads') /\ DOMAIN reads' = {1} /\ reads'[1] = InPeriods(request)
    <2>1. Len(<<>>) = 0 /\ IsList(<<>>) /\ 0 + 1 = 1 /\ 1..1 = {1}
      BY EmptyList
    <2>2. reads' = Append(<<>>, InPeriods(request))
      BY <1>1
    <2> DEFINE e == InPeriods(request)
    <2> HIDE DEF e
    <2>3. IsList(Append(<<>>, e)) /\ DOMAIN Append(<<>>, e) = 1..(0 + 1) /\ Append(<<>>, e)[0 + 1] = e
      BY <2>1, ListFacts
    <2> QED
      BY <2>1, <2>2, <2>3 DEF e
  <1>5. CASE failure # "none"
    <2>1. End(failure, Null)
      BY <1>5
    <2>2. /\ stage' = "done" /\ answer' = Null /\ Len(events') <= 1
          /\ events' # <<>> => events'[1].tier = Null
      BY <1>1, <2>1, EventAtTheEnd
    <2>3. RequestInv'
      BY <1>1, <1>3, <1>4, <1>7, <2>2 DEF AttributionInv, RequestInv, EventTellsTheTier, Answered
    <2>4. TiersInv' /\ CapInv'
      BY <1>2, <2>2 DEF TiersInv, CapInv, Answered
    <2> QED
      BY <1>2, <2>3, <2>4 DEF AttributionInv
  <1>6. CASE failure = "none"
    <2>1. stage' = "splits" /\ answer' = Null /\ events' = <<>>
      BY <1>1, <1>6
    <2>2. RequestInv'
      BY <1>1, <1>3, <1>4, <1>7, <2>1 DEF AttributionInv, RequestInv, EventTellsTheTier, Answered
    <2>3. TiersInv'
      BY <1>2, <2>1 DEF TiersInv, Answered
    <2>4. CapInv'
      <3>0. ReadProvisional' => HasProvisional(request)
        BY <1>1, <1>7 DEF ReadProvisional, HasProvisional, IsProvisional
      <3> SUFFICES ASSUME ShowsOpen' PROVE \E t \in ToSet(tiers') : t <= Provisional
        BY <1>2, <3>0 DEF CapInv
      <3>4. ChecksOpen(request)
        BY <1>1 DEF ShowsOpen, ChecksOpen
      <3>1. PICK leaf \in LeafNames, i \in Open(request) : overall'[leaf][i] # 0
        BY <1>1, <1>3 DEF ShowsOpen, ShownPairs, Open
      <3>2. ValuesOf(rows, request)[leaf][i] # 0 /\ rows \in SUBSET InPeriods(request)
        BY <3>1
      <3>3. LatestOpen(request)
        <4>1. DaysOK(facts)
          BY DEF AttributionInv, RequestInv
        <4> HIDE DEF rows
        <4> QED
          BY <1>1, <3>1, <3>2, <3>4, <4>1, OpenValue
      <3> QED
        BY <1>2, <3>3
    <2> QED
      BY <1>2, <2>2, <2>3, <2>4 DEF AttributionInv
  <1> QED
    BY <1>5, <1>6

LEMMA RunSplitKeeps ==
    ASSUME AttributionInv, RunSplit
    PROVE  AttributionInv'
  <1> USE DEF World
  <1> DEFINE dim == request.by[Len(splits) + 1]
             members == MembersBy(dim, request)
             new == Split(request.kind, overall, members, request.top)
  <1>1. /\ stage = "splits" /\ answer = Null /\ events = <<>> /\ IsList(splits) /\ DaysOK(facts)
        /\ request \in Requests /\ Refusal(request) = "none" /\ request' = request
        /\ Len(splits) < Len(request.by) /\ splits' = Append(splits, new)
        /\ tiers' = Append(tiers, StatementTier(request))
        /\ IsList(reads) /\ reads' = Append(reads, InPeriods(request))
        /\ UNCHANGED <<facts, loaded, asserting, history, stage, overall, answer, events>>
    BY DEF AttributionInv, RequestInv, RunSplit
  <1>2. /\ StatementTier(request) \in Tiers
        /\ tiers' \in Seq(Tiers) /\ tiers' # <<>> /\ ToSet(tiers') = ToSet(tiers) \cup {StatementTier(request)}
        /\ HarnessInv' /\ EarnedInv'
        /\ LatestOpen(request) \/ HasProvisional(request) => \E t \in ToSet(tiers') : t <= Provisional
    BY <1>1, TrustAdded
  <1>3. new.members = members
    BY DEF Split
  <1> HIDE DEF new
  <1>4. /\ Len(splits) \in Nat /\ DOMAIN splits = 1..Len(splits) /\ IsList(splits') /\ Len(splits') = Len(splits) + 1
        /\ DOMAIN splits' = 1..(Len(splits) + 1) /\ splits'[Len(splits) + 1] = new
        /\ \A i \in 1..Len(splits) : splits'[i] = splits[i]
    BY <1>1, ListFacts
  <1>5. Len(request.by) \in Nat /\ Len(request.by) <= MaxBy /\ MaxBy \in Nat
    BY <1>1, ServedFacts, DecomposeAssumption
  <1>9. /\ Len(reads) \in Nat /\ DOMAIN reads = 1..Len(reads) /\ IsList(reads')
        /\ DOMAIN reads' = 1..(Len(reads) + 1) /\ reads'[Len(reads) + 1] = InPeriods(request)
        /\ \A i \in 1..Len(reads) : reads'[i] = reads[i]
    BY ONLY <1>1, ListFacts
  <1>6. RequestInv'
    <2>1. Len(splits') <= Len(request.by) /\ Len(splits') <= MaxBy
      BY <1>1, <1>4, <1>5
    <2>2. Refusal(request') = "none"
      BY <1>1
    <2> QED
      BY <1>1, <1>4, <1>9, <2>1, <2>2 DEF AttributionInv, RequestInv, EventTellsTheTier, Answered
  <1>7. TiersInv'
    BY <1>1, <1>2 DEF TiersInv, Answered
  <1>8. CapInv'
    <2>4. ASSUME ReadProvisional' PROVE \E t \in ToSet(tiers') : t <= Provisional
      <3>1. PICK i \in DOMAIN reads' : \E f \in reads'[i] : IsProvisional(f, request)
        BY <1>1, <2>4 DEF ReadProvisional, IsProvisional
      <3>2. CASE i = Len(reads) + 1
        <4>1. HasProvisional(request)
          BY <1>9, <3>1, <3>2 DEF HasProvisional
        <4> QED
          BY <1>2, <4>1
      <3>3. CASE i \in 1..Len(reads)
        <4>1. ReadProvisional
          BY <1>9, <3>1, <3>3 DEF ReadProvisional
        <4>2. \E t \in ToSet(tiers) : t <= Provisional
          BY <1>1, <4>1 DEF AttributionInv, CapInv
        <4> QED
          BY <1>2, <4>2
      <3> QED
        BY <1>9, <3>2, <3>3
    <2> SUFFICES ASSUME ShowsOpen' PROVE \E t \in ToSet(tiers') : t <= Provisional
      BY <2>4 DEF CapInv
    <2>5. ChecksOpen(request)
      BY <1>1 DEF ShowsOpen, ChecksOpen
    <2>1. PICK pair \in ShownPairs', i \in Open(request) : pair[i] # 0
      BY <1>1 DEF ShowsOpen, Open
    <2>2. CASE pair \in ShownPairs
      <3>1. ShowsOpen
        BY <2>1, <2>2, <2>5 DEF ShowsOpen
      <3>2. \E t \in ToSet(tiers) : t <= Provisional
        BY <1>1, <3>1 DEF AttributionInv, CapInv
      <3> QED
        BY <1>2, <3>2
    <2>3. CASE pair \notin ShownPairs
      <3>1. PICK k \in DOMAIN splits' : \E m \in DOMAIN splits'[k].members, leaf \in LeafNames :
                                           pair = splits'[k].members[m][leaf]
        BY <1>1, <2>1, <2>3 DEF ShownPairs
      <3>2. PICK m \in DOMAIN splits'[k].members, leaf \in LeafNames : pair = splits'[k].members[m][leaf]
        BY <3>1
      <3>3. k = Len(splits) + 1
        <4> SUFFICES ASSUME k \in 1..Len(splits) PROVE FALSE
          BY <1>4
        <4>1. k \in DOMAIN splits /\ splits'[k] = splits[k]
          BY <1>4
        <4> QED
          BY <2>3, <3>2, <4>1 DEF ShownPairs
      <3>4. m \in DOMAIN members /\ pair = members[m][leaf]
        BY <1>3, <1>4, <3>2, <3>3
      <3> DEFINE mine == {f \in InPeriods(request) : f[dim] = m}
      <3>5. pair = ValuesOf(mine, request)[leaf] /\ mine \in SUBSET InPeriods(request)
        BY <3>4 DEF MembersBy
      <3> HIDE DEF mine
      <3>6. LatestOpen(request)
        BY <1>1, <2>1, <2>5, <3>5, OpenValue
      <3> QED
        BY <1>2, <3>6
    <2> QED
      BY <2>2, <2>3
  <1> QED
    BY <1>2, <1>6, <1>7, <1>8 DEF AttributionInv

\* Ending a request that is being served.
LEMMA EndKeeps ==
    ASSUME AttributionInv, stage \in {"overall", "splits"}, NEW error, NEW result, End(error, result),
           UNCHANGED <<World, request, overall, splits, reads, tiers>>,
           result # Null => stage = "splits" /\ error = "none" /\ result.tier = MergedTrust(tiers)
    PROVE  AttributionInv'
  <1> USE DEF World
  <1>1. events = <<>> /\ Refusal(request') = "none"
    BY DEF AttributionInv, RequestInv
  <1>2. /\ stage' = "done" /\ answer' = result /\ Len(events') <= 1
        /\ events' # <<>> => events'[1].tier = IF result = Null THEN Null ELSE result.tier
    BY <1>1, EventAtTheEnd
  <1>3. RequestInv'
    BY <1>1, <1>2 DEF AttributionInv, RequestInv, EventTellsTheTier, Answered
  <1>4. TiersInv'
    BY <1>2 DEF AttributionInv, TiersInv, Answered
  <1>5. HarnessInv' /\ EarnedInv'
    BY DEF AttributionInv, HarnessInv, EarnedInv, Passed
  <1>6. CapInv'
    <2>1. ShowsOpen' = ShowsOpen /\ ReadProvisional' = ReadProvisional
      BY DEF ShowsOpen, ShownPairs, Open, ChecksOpen, ReadProvisional, IsProvisional
    <2> QED
      BY <1>2, <2>1 DEF AttributionInv, CapInv, Answered
  <1> QED
    BY <1>3, <1>4, <1>5, <1>6 DEF AttributionInv

LEMMA HarnessKeeps ==
    ASSUME AttributionInv, StartHarness \/ (\E v \in Verdicts : RunAssertion(v)) \/ HarnessFails \/ RecordAssertions
    PROVE  AttributionInv'
  <1>1. RequestInv' /\ TiersInv' /\ CapInv'
    <2>1. UNCHANGED <<facts, loaded, request, stage, overall, splits, reads, tiers, answer, events>>
      BY DEF StartHarness, RunAssertion, HarnessFails, RecordAssertions
    <2>2. loaded' \in BOOLEAN /\ DaysOK(facts')
      BY <2>1 DEF AttributionInv, RequestInv
    <2> QED
      BY <2>1, <2>2, BesideARequest
  <1>2. tiers' = tiers /\ request' = request
    BY DEF StartHarness, RunAssertion, HarnessFails, RecordAssertions
  <1>3. CASE StartHarness
    <2>1. asserting = Null /\ asserting' = <<>> /\ history' = history
      BY <1>3 DEF StartHarness
    <2>2. \A b \in Bindings : history[b] = "none"
      BY <2>1 DEF AttributionInv, HarnessInv
    <2>3. HarnessInv'
      <3>1. IsList(asserting') /\ Len(asserting') = 0 /\ DOMAIN asserting' = {}
        BY <2>1, EmptyList
      <3>2. 0 <= Len(Assertions)
        BY DecomposeAssumption
      <3> QED
        BY <2>1, <2>2, <3>1, <3>2 DEF AttributionInv, HarnessInv
    <2>4. EarnedInv'
      BY <1>2, <2>1 DEF AttributionInv, EarnedInv
    <2> QED
      BY <1>1, <2>3, <2>4 DEF AttributionInv
  <1>4. CASE \E v \in Verdicts : RunAssertion(v)
    <2>1. PICK v \in Verdicts : RunAssertion(v)
      BY <1>4
    <2> DEFINE e == [bindings |-> Covered(Assertions[Len(asserting) + 1]), verdict |-> v]
    <2>2. asserting # Null /\ Len(asserting) < Len(Assertions) /\ asserting' = Append(asserting, e) /\ history' = history
      BY <2>1 DEF RunAssertion
    <2>3. IsList(asserting) /\ e.bindings = Covered(Assertions[Len(asserting) + 1]) /\ e.verdict \in Verdicts
      BY <2>2 DEF AttributionInv, HarnessInv
    <2> HIDE DEF e
    <2>4. /\ Len(asserting) \in Nat /\ DOMAIN asserting = 1..Len(asserting)
          /\ IsList(asserting') /\ Len(asserting') = Len(asserting) + 1
          /\ DOMAIN asserting' = 1..(Len(asserting) + 1) /\ asserting'[Len(asserting) + 1] = e
          /\ \A i \in 1..Len(asserting) : asserting'[i] = asserting[i]
      BY <2>2, <2>3, ListFacts
    <2>5. Len(asserting) # Len(Assertions) /\ \A b \in Bindings : history[b] = "none"
      <3>1. Len(asserting) # Len(Assertions)
        <4>1. Len(Assertions) \in Nat
          BY DecomposeAssumption
        <4> QED
          BY <2>2, <2>4, <4>1
      <3> QED
        BY <3>1 DEF AttributionInv, HarnessInv
    <2>6. Len(asserting') <= Len(Assertions)
      BY <2>2, <2>4, DecomposeAssumption
    <2>7. \A i \in DOMAIN asserting' : asserting'[i].bindings = Covered(Assertions[i]) /\ asserting'[i].verdict \in Verdicts
      <3> SUFFICES ASSUME NEW i \in DOMAIN asserting'
                   PROVE  asserting'[i].bindings = Covered(Assertions[i]) /\ asserting'[i].verdict \in Verdicts
        OBVIOUS
      <3>1. CASE i = Len(asserting) + 1
        BY <2>3, <2>4, <3>1
      <3>2. CASE i \in 1..Len(asserting)
        BY <2>2, <2>4, <3>2 DEF AttributionInv, HarnessInv
      <3> QED
        BY <2>4, <3>1, <3>2
    <2>8. HarnessInv'
      BY <2>2, <2>4, <2>5, <2>6, <2>7 DEF AttributionInv, HarnessInv
    <2>9. EarnedInv'
      BY <1>2, <2>5 DEF AttributionInv, EarnedInv
    <2> QED
      BY <1>1, <2>8, <2>9 DEF AttributionInv
  <1>5. CASE RecordAssertions
    <2>1. asserting # Null /\ Len(asserting) = Len(Assertions) /\ asserting' = asserting
          /\ history' = Recorded(asserting, Bindings)
      BY <1>5 DEF RecordAssertions, AttributionInv, HarnessInv
    <2>2. history' \in [Bindings -> {"none", "pass", "fail"}]
      <3>1. /\ Len(asserting) \in Nat /\ DOMAIN asserting = 1..Len(asserting)
            /\ \A i \in DOMAIN asserting : asserting[i].verdict \in {"pass", "fail"}
        BY <2>1, ListFacts, DecomposeAssumption DEF AttributionInv, HarnessInv
      <3>2. history' = [b \in Bindings |-> Verdict(asserting, Len(asserting), b)]
        BY <2>1, <3>1, RecordedIs
      <3>3. \A b \in Bindings : Verdict(asserting, Len(asserting), b) \in {"none", "pass", "fail"}
        BY DEF Verdict
      <3> QED
        BY <3>2, <3>3
    <2>3. HarnessInv'
      BY <2>1, <2>2 DEF AttributionInv, HarnessInv
    <2>4. EarnedInv'
      BY <1>2, <2>1 DEF AttributionInv, EarnedInv, Passed
    <2> QED
      BY <1>1, <2>3, <2>4 DEF AttributionInv
  <1>6. CASE HarnessFails
    <2>1. /\ asserting # Null /\ asserting' = Null /\ history' = history
          /\ IsList(asserting) /\ Len(asserting) < Len(Assertions)
      BY <1>6 DEF HarnessFails, AttributionInv, HarnessInv
    <2>2. Len(asserting) # Len(Assertions)
      BY <2>1, ListFacts, DecomposeAssumption
    <2>3. HarnessInv' /\ EarnedInv'
      BY <1>2, <2>1, <2>2 DEF AttributionInv, HarnessInv, EarnedInv
    <2> QED
      BY <1>1, <2>3 DEF AttributionInv
  <1> QED
    BY <1>3, <1>4, <1>5, <1>6

LEMMA AttributionStep ==
    ASSUME AttributionInv, [AttributionNext]_attributionVars
    PROVE  AttributionInv'
  <1>1. ASSUME NEW r \in Requests, Receive(r) PROVE AttributionInv'
    BY <1>1, ReceiveKeeps
  <1>2. CASE RunOverall
    BY <1>2, RunOverallKeeps
  <1>3. CASE RunSplit
    BY <1>3, RunSplitKeeps
  <1>4. CASE Finish
    <2> DEFINE result == [total |-> Total(request.kind, overall), effects |-> Effects(request.kind, overall),
                          by |-> splits, tier |-> MergedTrust(tiers)]
    <2>1. stage = "splits" /\ End("none", result) /\ UNCHANGED <<World, request, overall, splits, reads, tiers>>
      BY <1>4 DEF Finish
    <2>2. result.tier = MergedTrust(tiers)
      OBVIOUS
    <2> HIDE DEF result
    <2> QED
      BY <2>1, <2>2, EndKeeps
  <1>5. CASE Interrupted
    <2>1. PICK error : End(error, Null)
      BY <1>5 DEF Interrupted
    <2>2. stage \in {"overall", "splits"} /\ UNCHANGED <<World, request, overall, splits, reads, tiers>>
      BY <1>5 DEF Interrupted
    <2> QED
      BY <2>1, <2>2, EndKeeps
  <1>6. ASSUME NEW new \in Loads, Load(new) PROVE AttributionInv'
    <2>1. loaded' \in BOOLEAN /\ DaysOK(facts')
      BY <1>6, DecomposeAssumption DEF Load, DaysOK
    <2>2. UNCHANGED <<asserting, history, request, stage, overall, splits, reads, tiers, answer, events>>
      BY <1>6 DEF Load
    <2>3. RequestInv' /\ TiersInv' /\ CapInv'
      BY <2>1, <2>2, BesideARequest
    <2>4. HarnessInv' /\ EarnedInv'
      BY <2>2 DEF AttributionInv, HarnessInv, EarnedInv, Passed
    <2> QED
      BY <2>3, <2>4 DEF AttributionInv
  <1>7. CASE StartHarness \/ (\E v \in Verdicts : RunAssertion(v)) \/ HarnessFails \/ RecordAssertions
    BY <1>7, HarnessKeeps
  <1>8. CASE UNCHANGED attributionVars
    <2>1. UNCHANGED <<facts, loaded, asserting, history, request, stage, overall, splits, reads, tiers, answer, events>>
      BY <1>8 DEF attributionVars
    <2>2. loaded' \in BOOLEAN /\ DaysOK(facts')
      BY <2>1 DEF AttributionInv, RequestInv
    <2>3. RequestInv' /\ TiersInv' /\ CapInv'
      BY <2>1, <2>2, BesideARequest
    <2>4. HarnessInv' /\ EarnedInv'
      BY <2>1 DEF AttributionInv, HarnessInv, EarnedInv, Passed
    <2> QED
      BY <2>3, <2>4 DEF AttributionInv
  <1> QED
    BY <1>1, <1>2, <1>3, <1>4, <1>5, <1>6, <1>7, <1>8 DEF AttributionNext

LEMMA AttributionHolds == AttributionSpec => []AttributionInv
  BY AttributionStart, AttributionStep, PTL DEF AttributionSpec

\* The tier of an answer is the worst of its statements': provisional at most if it
\* shows a value of a period that has not ended while open periods are looked for, or
\* a statement read a provisional row, whichever statement it was; and trusted only if
\* every executable assertion on the metrics it rests on was run and passed.  The event
\* that is written, if it is, tells that tier.  For any warehouse, calendar and
\* assertions (decompose.py, _merged_trust; scorer.py; assertion_history.py).
THEOREM EarnedTier == AttributionSpec => []TierIsEarned
  <1>1. ASSUME AttributionInv PROVE TierIsEarned
    <2>1. tiers \in Seq(Tiers) /\ ToSet(tiers) \subseteq Tiers
      BY <1>1 DEF AttributionInv, TiersInv, ToSet
    <2>2. ASSUME Answered
          PROVE  /\ stage = "done" /\ answer.tier \in ToSet(tiers) /\ answer.tier \in Tiers
                 /\ \A t \in ToSet(tiers) : answer.tier <= t
      <3>1. tiers # <<>> /\ stage = "done" /\ answer.tier = MergedTrust(tiers)
        BY <1>1, <2>2 DEF AttributionInv, TiersInv
      <3> QED
        BY <2>1, <3>1, LeastTier
    <2>3. AttributionTypeOK
      <3>1. \A b \in DOMAIN history : history[b] \in {"none", "pass", "fail"}
        BY <1>1 DEF AttributionInv, HarnessInv
      <3> QED
        BY <1>1, <2>1, <2>2, <3>1 DEF AttributionTypeOK, AttributionInv, RequestInv, Answered
    <2>4. OpenValuesAreCapped
      <3> SUFFICES ASSUME Answered, ShowsOpen \/ ReadProvisional PROVE answer.tier <= Provisional
        BY DEF OpenValuesAreCapped, ShowsOpen, ReadProvisional
      <3>1. PICK t \in ToSet(tiers) : t <= Provisional
        BY <1>1 DEF AttributionInv, CapInv
      <3>2. answer.tier <= t /\ answer.tier \in Tiers /\ t \in Tiers
        BY <2>1, <2>2
      <3> QED
        BY <3>1, <3>2 DEF Tiers, Caution, Provisional, Trusted
    <2>5. TrustedIsEarned
      <3> SUFFICES ASSUME Answered, answer.tier = Trusted
                   PROVE  \A leaf \in Leaves(request.kind) : Passed(leaf)
        BY DEF TrustedIsEarned, Passed
      <3> QED
        BY <1>1, <2>2 DEF AttributionInv, EarnedInv
    <2>6. EventTellsTheTier
      BY <1>1 DEF AttributionInv, RequestInv
    <2> QED
      BY <2>3, <2>4, <2>5, <2>6 DEF TierIsEarned
  <1> QED
    BY <1>1, AttributionHolds, PTL
=============================================================================
