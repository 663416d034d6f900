------------------------------- MODULE LruTtl -------------------------------
(***************************************************************************)
(* LruCacheWithTtl (crates/lruttl/src/lib.rs): a map with expiry and       *)
(* approximate LRU eviction, in which one of the tasks that miss a key     *)
(* populates it while the others wait on a semaphore.                      *)
(*                                                                         *)
(* Every action is one access to the sharded map under its shard lock, one *)
(* semaphore operation, or one await.  A value is told apart only by the   *)
(* instant at which it expires.  Ticks appear as the order lru (least      *)
(* recently used key first); "the tick has not changed since it was        *)
(* sampled" is kept by striking a key from the samples when it is touched. *)
(***************************************************************************)
EXTENDS Integers, Sequences, FiniteSets, SequencesExt

CONSTANTS
  Keys, Tasks,
  Semas,        \* identities of semaphores, re-used once nobody refers to them
  Capacities,   \* values the capacity takes
  LruSamples,   \* lru_samples
  Ttls,         \* what ttl_func may return
  FailTtl,      \* how long a failure is remembered (60 s)
  Timeout,      \* sema_timeout_milliseconds
  MaxAttempts,  \* MAX_ATTEMPTS
  MaxTime,      \* bound: the clock stops here
  MaxPurges,    \* bound on the number of purges for want of memory
  None

ASSUME DurationsAssumption ==
  /\ {FailTtl, Timeout, MaxTime, MaxPurges} \subseteq Nat
  /\ {LruSamples, MaxAttempts} \subseteq Nat \ {0}
  /\ Capacities \cup Ttls \subseteq Nat
ASSUME SemasAssumption == None \notin Semas

VARIABLES
  now,
  purges,    \* how many purges there have been
  allow_stale_reads, capacity,   \* settings of the cache
  cache,     \* the map: an Item or None for each key
  lru,       \* the keys of the map by ascending last_tick
  closed,    \* the semaphores that have been closed
  task,      \* the call of get_or_try_insert a task is in
  permit,    \* the tasks that hold the permit of their semaphore
  job        \* the keys the pruner has collected for removal

config == <<allow_stale_reads, capacity>>
cacheVars == <<now, purges, config, cache, lru, closed, task, permit, job>>

Mapped == {k \in Keys : cache[k] # None}
NoJob == [step |-> "none", now |-> 0, expired |-> {}, samples |-> {}, target |-> 0]
Idle == [pc |-> "idle", key |-> None, deadline |-> 0, tries |-> 0, sema |-> None, stale |-> None]
Item(state, s, expiration) == [state |-> state, sema |-> s, expiration |-> expiration]

\* ItemState::Pending and ItemState::Refreshing: somebody is to populate it.
Pending(e) == e.state \in {"Pending", "Refreshing"}
Expired(e, time) == time >= e.expiration

CacheInit ==
  /\ now = 0
  /\ purges = 0
  /\ allow_stale_reads \in BOOLEAN
  /\ capacity \in Capacities
  /\ cache = [k \in Keys |-> None]
  /\ lru = <<>>
  /\ closed = {}
  /\ task = [t \in Tasks |-> Idle]
  /\ permit = {}
  /\ job = NoJob
-----------------------------------------------------------------------------
\* Semaphore::new(1): one that neither the map nor a task refers to.
FreeSemas == {s \in Semas : /\ \A t \in Tasks : task[t].sema # s
                            /\ \A k \in Mapped : cache[k].sema # s}
NewSema == CHOOSE s \in FreeSemas : TRUE
Held(s) == \E t \in permit : task[t].sema = s

\* The semaphores of c that something still refers to after the step.
StillKnown(c) == {s \in c : \/ \E t \in Tasks : task'[t].sema = s
                            \/ \E k \in Keys : cache'[k] # None /\ cache'[k].sema = s}

\* The keys seq in their order, without those of ks.
Drop(seq, ks) == SelectSeq(seq, LAMBDA k : k \notin ks)

\* The n keys of S that come first in the order seq.
Oldest(seq, S, n) ==
  LET Before(x, k) == \E i \in 1..Len(seq) : seq[i] = k /\ \E h \in 1..(i - 1) : seq[h] = x
  IN  {k \in S : Cardinality({x \in S : Before(x, k)}) < n}

\* The bound on one round of evict_some: half of the samples, but at least one.
HalfOfSamples(excess, n) == IF excess < n \div 2 THEN excess ELSE n \div 2
EvictTarget(excess, n) ==
  LET m == IF excess < n \div 2 THEN excess ELSE n \div 2 IN IF m > 1 THEN m ELSE 1

\* evict_some: a random choice of keys, of which those that are pending are
\* passed over; the expired ones go, and if these are not enough then the least
\* recently used.  m is the map, order its keys by tick.
Sample(m, order, S) ==
  LET ready == {k \in S : ~Pending(m[k])}
      live == {k \in ready : ~Expired(m[k], now)}
  IN  [step |-> "evict", now |-> now, samples |-> live,
       expired |-> {k \in ready : Expired(m[k], now)},
       target |-> EvictTarget(Len(order) - capacity, Cardinality(live))]
SampleSets(order) ==
  {S \in SUBSET ToSet(order) :
     Cardinality(S) = IF LruSamples < Len(order) THEN LruSamples ELSE Len(order)}

\* cache.insert of e under k as the newest key, and maybe_evict if evict holds.
Put(k, e, evict) ==
  LET m == [cache EXCEPT ![k] = e]
      order == Append(Drop(lru, {k}), k)
      victims(j) == j.expired \cup Oldest(order, j.samples, j.target - Cardinality(j.expired))
      Store(gone) == /\ cache' = [x \in Keys |-> IF x \in gone THEN None ELSE m[x]]
                     /\ lru' = Drop(order, gone)
  IN  /\ IF evict /\ Len(order) > capacity
         THEN \E S \in SampleSets(order) : Store(victims(Sample(m, order, S)))
         ELSE Store({})
      /\ job' = [job EXCEPT !.samples = @ \ {k}]

Without(ks) == /\ cache' = [k \in Keys |-> IF k \in ks THEN None ELSE cache[k]]
               /\ lru' = Drop(lru, ks)

-----------------------------------------------------------------------------
\* Fast path of get_or_try_insert: lookup.  An expired item is removed in a
\* step of its own, for the reference into the map is dropped first.
Call(t, k) ==
  /\ task[t].pc = "idle"
  /\ now + Timeout <= MaxTime
  /\ LET e == cache[k]
         present == e # None /\ e.state = "Present"
         start == [Idle EXCEPT !.key = k, !.deadline = now + Timeout]
     IN  \/ /\ present /\ ~Expired(e, now)
            /\ Put(k, e, FALSE)
            /\ task' = task
         \/ /\ present => Expired(e, now)
            /\ task' = [task EXCEPT ![t] =
                 [start EXCEPT !.pc = IF present /\ ~allow_stale_reads THEN "expire" ELSE "clone"]]
            /\ UNCHANGED <<cache, lru, job>>
  /\ UNCHANGED <<now, purges, config, closed, permit>>

\* The remove_if of lookup, which looks at the expiration again (against the
\* time of the lookup).
LookupExpire(t) ==
  /\ task[t].pc = "expire"
  /\ LET k == task[t].key
     IN  Without({k} \cap {x \in Mapped : Expired(cache[x], task[t].deadline - Timeout)})
  /\ task' = [task EXCEPT ![t].pc = "clone"]
  /\ closed' = StillKnown(closed)
  /\ UNCHANGED <<now, purges, config, permit, job>>

\* clone_item_state: what becomes of the item e of a key, where s is a new
\* semaphore.  An expired Present item keeps its expiration.
Cloned(e, s, deadline) ==
  IF e = None THEN Item("Pending", s, deadline)
  ELSE CASE Pending(e) /\ e.sema \in closed -> [e EXCEPT !.sema = s]
         [] e.state = "Pending" /\ e.sema \notin closed /\ Expired(e, now) ->
              Item("Pending", s, now + Timeout)
         [] e.state = "Present" /\ Expired(e, now) ->
              Item(IF allow_stale_reads THEN "Refreshing" ELSE "Pending", s, e.expiration)
         [] e.state = "Failed" /\ Expired(e, now) -> Item("Pending", s, now + Timeout)
         [] OTHER -> e

\* The closed semaphores, but for the new one that the item e brings.
Reopened(k, e) == IF cache[k] = e THEN closed ELSE closed \ {e.sema}

\* The first clone_item_state of an attempt; a new key is followed by maybe_evict.
Clone(t) ==
  /\ task[t].pc = "clone" /\ FreeSemas # {}
  /\ LET k == task[t].key
         e == Cloned(cache[k], NewSema, task[t].deadline)
     IN  /\ task' = [task EXCEPT ![t] =
              IF ~Pending(e) THEN Idle
              ELSE [@ EXCEPT !.pc = "wait", !.sema = e.sema,
                             !.stale = IF e.state = "Refreshing" THEN e.expiration ELSE None]]
         /\ Put(k, e, cache[k] = None)
         /\ closed' = StillKnown(Reopened(k, e))
  /\ UNCHANGED <<now, purges, config, permit>>

\* acquire_owned, with the permit or with the error of a closed semaphore.
Acquire(t) ==
  /\ task[t].pc = "wait"
  /\ task[t].sema \in closed \/ ~Held(task[t].sema)
  /\ permit' = IF task[t].sema \in closed THEN permit ELSE permit \cup {t}
  /\ task' = [task EXCEPT ![t].pc = "check", ![t].stale = None]
  /\ UNCHANGED <<now, purges, config, cache, lru, closed, job>>

WaitForever(t) == task[t].pc = "wait" /\ now < 0 /\ UNCHANGED cacheVars

\* timeout_at has fired: the stale value if there is one, else an error.
WaitTimeout(t) ==
  /\ task[t].pc = "wait"
  /\ now >= task[t].deadline
  /\ task[t].sema \notin closed /\ Held(task[t].sema)
  /\ task' = [task EXCEPT ![t] = Idle]
  /\ UNCHANGED <<now, purges, config, cache, lru, closed, permit, job>>

\* The defer! that closes the semaphore of a permit when its scope is left.
Closing(t) == IF t \in permit THEN {task[t].sema} ELSE {}

\* continue 'retry, or the error after MAX_ATTEMPTS.
Again(c) == IF c.tries + 1 = MaxAttempts THEN Idle
            ELSE [c EXCEPT !.pc = "clone", !.sema = None, !.tries = @ + 1]

CheckAnyPermit(t) ==
  /\ task[t].pc = "check" /\ FreeSemas # {}
  /\ LET k == task[t].key
         e == Cloned(cache[k], NewSema, task[t].deadline)
         mine == t \in permit
     IN  /\ task' = [task EXCEPT ![t] = CASE ~Pending(e) -> Idle
                                          [] Pending(e) /\ mine -> [@ EXCEPT !.pc = "populate"]
                                          [] Pending(e) /\ ~mine -> Again(@)]
         /\ Put(k, e, cache[k] = None)
         /\ permit' = IF Pending(e) /\ mine THEN permit ELSE permit \ {t}
         /\ closed' = StillKnown(Reopened(k, e) \cup (IF Pending(e) /\ ~mine THEN Closing(t) ELSE {}))
  /\ UNCHANGED <<now, purges, config>>

\* The second clone_item_state: somebody may have satisfied the lookup (the
\* permit is then dropped, the semaphore stays open), or it is up to the
\* holder of the permit, provided that the map still has his semaphore.  Else
\* the attempt is over.
Check(t) ==
  /\ task[t].pc = "check" /\ FreeSemas # {}
  /\ LET k == task[t].key
         e == Cloned(cache[k], NewSema, task[t].deadline)
         mine == t \in permit /\ e.sema = task[t].sema
     IN  /\ task' = [task EXCEPT ![t] = CASE ~Pending(e) -> Idle
                                          [] Pending(e) /\ mine -> [@ EXCEPT !.pc = "populate"]
                                          [] Pending(e) /\ ~mine -> Again(@)]
         /\ Put(k, e, cache[k] = None)
         /\ permit' = IF Pending(e) /\ mine THEN permit ELSE permit \ {t}
         /\ closed' = StillKnown(Reopened(k, e) \cup (IF Pending(e) /\ ~mine THEN Closing(t) ELSE {}))
  /\ UNCHANGED <<now, purges, config>>

\* fut has finished: its result replaces whatever the map has for the key, and
\* the semaphore is closed.
Populate(t, state, ttl) ==
  /\ task[t].pc = "populate"
  /\ Put(task[t].key, Item(state, None, now + ttl), TRUE)
  /\ task' = [task EXCEPT ![t] = Idle]
  /\ permit' = permit \ {t}
  /\ closed' = StillKnown(closed \cup Closing(t))
  /\ UNCHANGED <<now, purges, config>>

\* The caller drops the future at one of its two awaits.
Cancel(t) ==
  /\ task[t].pc = "wait" \/ task[t].pc = "populate"
  /\ task' = [task EXCEPT ![t] = Idle]
  /\ permit' = permit \ {t}
  /\ cache' = cache /\ closed' = StillKnown(closed \cup Closing(t))
  /\ UNCHANGED <<now, purges, config, lru, job>>

\* insert: a value from outside, whatever the map has for the key.
Insert(t, k, ttl) ==
  /\ task[t].pc = "idle"
  /\ now + Timeout <= MaxTime
  /\ Put(k, Item("Present", None, now + ttl), TRUE)
  /\ task' = task /\ closed' = StillKnown(closed)
  /\ UNCHANGED <<now, purges, config, permit>>
-----------------------------------------------------------------------------
\* process_expirations: the expired keys are collected first ...
Collect ==
  /\ job.step = "none"
  /\ LET gone == {k \in Mapped : ~Pending(cache[k]) /\ Expired(cache[k], now)}
     IN  job' = [NoJob EXCEPT !.step = "prune", !.expired = gone,
                              !.now = IF gone = {} THEN 0 ELSE now]
  /\ UNCHANGED <<now, purges, allow_stale_reads, cache, lru, closed, task, permit>>
PruneCollect == Collect /\ capacity' = capacity

\* update_capacity, which goes on with a process_expirations of its own (one at
\* a time is modelled, the pruner's or this one).
UpdateCapacity(c) ==
  /\ now + Timeout <= MaxTime
  /\ capacity' = c /\ c # capacity
  /\ Collect

\* The keys a remove_if on the expiration still removes.
StillExpired == {k \in job.expired \cap Mapped : Expired(cache[k], job.now)}

\* ... and removed afterwards, and then the capacity is seen to.
PruneRemove ==
  /\ job.step = "prune"
  /\ Without(StillExpired)
  /\ job' = IF Cardinality(Mapped \ StillExpired) > capacity
            THEN [NoJob EXCEPT !.step = "sample"] ELSE NoJob
  /\ task' = task /\ closed' = StillKnown(closed)
  /\ UNCHANGED <<now, purges, config, permit>>

\* The eviction of the pruner, in its two halves: other tasks run in between,
\* and what they have touched since is spared.
EvictSample ==
  /\ job.step = "sample"
  /\ \E S \in SampleSets(lru) : job' = Sample(cache, lru, S)
  /\ UNCHANGED <<now, purges, config, cache, lru, closed, task, permit>>

EvictRemove ==
  /\ job.step = "evict"
  /\ Without(StillExpired \cup
       Oldest(lru, job.samples \cap Mapped, job.target - Cardinality(StillExpired)))
  /\ job' = NoJob
  /\ task' = task /\ closed' = StillKnown(closed)
  /\ UNCHANGED <<now, purges, config, permit>>

\* clear, on a purge for want of memory: the waiters of a pending lookup are
\* woken up, those of a refresh are not.
Clear ==
  /\ purges < MaxPurges
  /\ purges' = purges + 1
  /\ Without(Keys)
  /\ task' = task
  /\ closed' = StillKnown(closed \cup {cache[k].sema : k \in {x \in Mapped : cache[x].state = "Pending"}})
  /\ UNCHANGED <<now, config, permit, job>>

Tick ==
  /\ now < MaxTime
  /\ now' = now + 1
  /\ UNCHANGED <<purges, config, cache, lru, closed, task, permit, job>>

Step(t) == \/ LookupExpire(t) \/ Clone(t) \/ Acquire(t) \/ WaitTimeout(t)
           \/ Check(t)

CacheNext ==
  \/ \E t \in Tasks, k \in Keys : Call(t, k) \/ \E ttl \in Ttls : Insert(t, k, ttl)
  \/ \E t \in Tasks : Step(t) \/ Cancel(t) \/ Populate(t, "Failed", FailTtl)
                   \/ \E ttl \in Ttls : Populate(t, "Present", ttl)
  \/ PruneCollect \/ PruneRemove \/ EvictSample \/ EvictRemove
  \/ \E c \in Capacities : UpdateCapacity(c)
  \/ Clear \/ Tick

CacheSpec == CacheInit /\ [][CacheNext]_cacheVars

\* Tasks and timers make progress and the pruner comes round for ever; nothing
\* is assumed of the future that populates an item, which may never finish.
CacheFairSpec ==
  /\ CacheSpec
  /\ \A t \in Tasks : WF_cacheVars(Step(t))
  /\ WF_cacheVars(PruneCollect) /\ WF_cacheVars(PruneRemove \/ EvictSample \/ EvictRemove)
  /\ WF_cacheVars(Tick)
-----------------------------------------------------------------------------
\* The items and samples are well formed; the map and the LRU order have the
\* same keys; an item has a semaphore exactly while it is pending; and no two
\* tasks hold the permit of one semaphore.
CacheTypeOK ==
  /\ now \in 0..MaxTime /\ capacity \in Capacities /\ allow_stale_reads \in BOOLEAN
  /\ \A k \in Mapped : /\ cache[k].state \in {"Present", "Failed", "Pending", "Refreshing"}
                       /\ cache[k].sema \in IF Pending(cache[k]) THEN Semas ELSE {None}
                       /\ cache[k].expiration \in Nat
  /\ ToSet(lru) = Mapped /\ Len(lru) = Cardinality(Mapped)
  /\ job.samples \cup job.expired \subseteq Keys
  /\ \A t \in permit : task[t].sema \in Semas /\ task[t].pc \in {"check", "populate"}
  /\ \A t, u \in permit : t # u => task[t].sema # task[u].sema

\* Whether the map still has the item that a task holds the permit of.
HasItem(t) == cache[task[t].key] # None /\ cache[task[t].key].sema = task[t].sema

\* "This is done atomically wrt. other callers": no second task begins to
\* populate a key as long as the first has its item in the map; and it only
\* loses that item to a purge, to a value put in its place from outside, or
\* once the item is past its expiration, never because of a stale permit, a
\* cancelled caller or a semaphore that somebody else has closed.
OnePopulator ==
  [][\A t \in Tasks : task[t].pc = "populate" /\ HasItem(t) =>
       /\ \A u \in Tasks \ {t} :
            task[u].key = task[t].key /\ task[u].pc # "populate" => task'[u].pc # "populate"
       /\ \/ task'[t] # task[t]
          \/ HasItem(t)'
          \/ Clear
          \/ Expired(cache[task[t].key], now)
          \/ \E u \in Tasks, ttl \in Ttls : Insert(u, task[t].key, ttl)
          \/ \E u \in Tasks \ {t} : task[u].pc = "populate" /\ ~HasItem(u) /\ task'[u] = Idle]_cacheVars

\* Whatever happens to the task that populates an item (it fails, it is
\* cancelled, it never ends, its item is purged or replaced), every other
\* caller gets an answer or the permit: nobody waits for ever.
CallAnswered ==
  \A t \in Tasks : task[t].pc \in {"expire", "clone", "wait", "check"} ~>
                     task[t].pc \in {"idle", "populate"}

\* "we'll eventually trim down via ongoing process_expirations() calls": once
\* no more keys come in, and the capacity is no longer changed, the map is
\* within its capacity, or it has nothing but items that are being populated.
TrimsDown == <>[](Cardinality(Mapped) <= capacity \/ \A k \in Mapped : Pending(cache[k]))

\* "Cannot evict a pending lookup": eviction and expiry leave alone the item
\* that a task is populating or about to populate.
NeverEvictsPending ==
  [][PruneRemove \/ EvictRemove =>
       \A k \in Mapped : Pending(cache[k]) => cache'[k] = cache[k]]_cacheVars
=============================================================================
