---------------------------- MODULE CacheBackend ----------------------------
(***************************************************************************)
(* The cache backends of src/src/dualeai/cache.py, seen through one key:   *)
(* how a backend is created, what it stores for how long, and what reads,  *)
(* writes, clears and the expiry of entries do to it.  Redis and the       *)
(* SQLite file are shared by the backends that use them, the data of a     *)
(* mock backend is its own.  The engines behind them are external.         *)
(***************************************************************************)
EXTENDS Naturals

CONSTANTS
  Users,     \* who may create a backend; a backend is named after its creator
  NoUser,
  Second,    \* ticks of the clock in a second
  Ttls,      \* the cache_ttl of the activity in ticks; 0 stands for None and for zero
  JitterPercent,  \* 100 * ttl_jitter_factor, or 0 if ttl_jitter_enabled is not set
  MaxClock   \* bound: ticks of the clock

ASSUME TimeAssumption == Second \in Nat \ {0} /\ Ttls \subseteq Nat /\ NoUser \notin Users

\* A tick is short enough for the limits of a jittered TTL to be whole ticks; a TTL
\* between two ticks then ends, for whoever reads at a tick, like one of the two.
ASSUME JitterAssumption ==
  /\ JitterPercent \in 0 .. 50
  /\ \A t \in Ttls : t >= Second => (t * JitterPercent) % 100 = 0

VARIABLES
  redisUrl,  \* what config.redis_url asks for
  ttl,
  clock,
  kind,      \* the kind of the backend each user created
  handle,    \* its connection: "none", "open", "closed", or "reopened" by a late user
  stored     \* the entry of the key at each place

cacheVars == <<redisUrl, ttl, clock, kind, handle, stored>>

Kinds == {"redis", "sqlite", "mock"}
\* The file of SQLite is one; a mock backend keeps its entries itself.
Places == {"redis", "sqlite"} \cup Users
Place(b) == IF kind[b] = "mock" THEN b ELSE kind[b]

\* `until` is the first tick at which the entry is no longer read; 0 if it never ends.
Forever == 0
NoEntry == [by |-> NoUser, at |-> 0, until |-> 0]
Live(entry) == entry # NoEntry /\ (entry.until = Forever \/ clock < entry.until)

CacheInit ==
  /\ redisUrl \in {"none", "redis", "mock"}
  /\ clock = 0
  /\ kind \in [Users -> {"none"}]
  /\ handle \in [Users -> {"none"}]
  /\ stored = [p \in Places |-> NoEntry]

Tick ==
  /\ clock < MaxClock
  /\ clock' = clock + 1
  /\ UNCHANGED <<redisUrl, ttl, kind, handle, stored>>

\* _apply_ttl_jitter: a TTL of a second or more is scaled by a factor in
\* [1 - ttl_jitter_factor, 1 + ttl_jitter_factor].
Jitter == IF ttl < Second THEN 0 ELSE (ttl * JitterPercent) \div 100
Jittered == (ttl - Jitter) .. (ttl + Jitter)

\* Redis is given whole seconds, and no expiry if there are none.
RedisTicks(jittered) == (jittered \div Second) * Second

\* A row of SQLite is good while expires_at > now, an entry of a mock backend
\* until now > expires_at.
SQLiteTicks(jittered) == jittered
MockTicks(jittered) == jittered + 1

Ticks(k, jittered) ==
  CASE k = "redis" -> RedisTicks(jittered)
    [] k = "sqlite" -> SQLiteTicks(jittered)
    [] k = "mock" -> MockTicks(jittered)

\* How long an entry of a backend of kind k is good.
Lifetime(k, jittered) == IF ttl = 0 THEN Forever ELSE Ticks(k, jittered)

Until(b, jittered, now) ==
  LET lifetime == Lifetime(kind[b], jittered)
  IN IF lifetime = Forever THEN Forever ELSE now + lifetime

\* The entries a write of u to b that started at `now` may leave.
Entries(u, b, now) ==
  {[by |-> u, at |-> now, until |-> Until(b, jittered, now)] : jittered \in Jittered}

\* create_cache_backend: the mock backend if asked for, else Redis, else SQLite.  A
\* mock backend is there at once; the others are awaited and may fail.  A backend
\* that is open has a cleanup loop.
Creatable == CASE redisUrl = "mock" -> {"mock"}
               [] redisUrl = "redis" -> {"redis", "sqlite"}
               [] redisUrl = "none" -> {"sqlite"}

Create(b) ==
  /\ \E k \in Creatable : kind' = [kind EXCEPT ![b] = k]
  /\ handle' = [handle EXCEPT ![b] = "open"]
  /\ UNCHANGED <<redisUrl, ttl, clock, stored>>

\* ensure_initialized: a backend that was closed connects again.
Reconnected(b) == IF kind[b] # "mock" /\ handle[b] = "closed" THEN "reopened" ELSE handle[b]
Touch(b) == handle' = [handle EXCEPT ![b] = Reconnected(b)]

\* Redis or SQLite fail: the engine, or connecting again.  Redis engine errors are
\* swallowed in get and set; the others are raised.
MayFail(b) == kind[b] # "mock"
Raises(b) == kind[b] = "sqlite" \/ (kind[b] = "redis" /\ handle[b] = "closed")
Swallows(b) == kind[b] = "redis"

Keep == UNCHANGED <<redisUrl, ttl, clock, kind>>

\* Mutant: the row is read whatever its expiry.
RowUnexpired == stored["sqlite"]

\* get: what a key of Redis holds, the row that is still good, or the entry of a mock
\* backend, which forgets one that is over.
Key == IF Live(stored["redis"]) THEN stored["redis"] ELSE NoEntry
Row == IF Live(stored["sqlite"]) THEN stored["sqlite"] ELSE NoEntry

GetMock(b, entry) ==
  /\ entry = IF Live(stored[b]) THEN stored[b] ELSE NoEntry
  /\ stored' = [stored EXCEPT ![b] = entry]

Get(b, entry) ==
  \/ kind[b] = "redis" /\ entry = Key /\ UNCHANGED stored
  \/ kind[b] = "sqlite" /\ entry = Row /\ UNCHANGED stored
  \/ kind[b] = "mock" /\ GetMock(b, entry)

Put(b, entry) == stored' = [stored EXCEPT ![Place(b)] = entry]

\* clear()
Drop(b) == stored' = [stored EXCEPT ![Place(b)] = NoEntry]

\* cleanup_expired: nothing to do for Redis, which expires keys itself.
DropExpired(b) ==
  IF Live(stored[Place(b)]) THEN UNCHANGED stored ELSE Drop(b)

\* Mutant: the loop of a backend drops what it finds.
CleanupLoopDropsAll(b) ==
  /\ handle[b] = "open" /\ kind[b] # "redis"
  /\ Drop(b)
  /\ UNCHANGED handle /\ Keep

\* The loop of a backend wakes up; it ended when the backend was closed.
CleanupLoop(b) ==
  /\ handle[b] = "open" /\ kind[b] # "redis"
  /\ stored[Place(b)] # NoEntry
  /\ DropExpired(b)
  /\ UNCHANGED handle /\ Keep

\* close(): the loop of the backend is stopped, then its connection.
CloseConnection(b) == kind[b] # "mock" /\ UNCHANGED stored

\* A mock backend forgets all.
CloseMock(b) == kind[b] = "mock" /\ Drop(b)

Close(b) ==
  /\ handle' = [handle EXCEPT ![b] = "closed"]
  /\ CloseConnection(b) \/ CloseMock(b)
  /\ Keep
=============================================================================
