------------------------------ MODULE LeaseSet ------------------------------
(***************************************************************************)
(* The leases that bound the number of connections (crates/throttle/src/   *)
(* limit.rs and limit.lua): one limit, kept in memory (LeaseSet, with a    *)
(* Notify that a release signals) or in a Redis sorted set (which is       *)
(* polled).  A task is a maintainer that acquires a lease for a session it *)
(* is about to open, and then that session, which extends the lease while  *)
(* it waits for messages and releases it at its end.                       *)
(*                                                                         *)
(* Time is counted in ticks of which Second make a second: Redis keeps     *)
(* expirations in seconds, rounded by the script.  A node reads its own     *)
(* clock before it sends a command to Redis, so the time that the command  *)
(* carries is behind that of the fastest clock, by the difference of the   *)
(* clocks and by what the command is delayed.                              *)
(***************************************************************************)
EXTENDS Integers, FiniteSets

CONSTANTS
  Tasks,
  Uuids,      \* identities of leases, re-used once nobody refers to them
  NoUuid,
  Backends,   \* the backends to consider: "Memory", "Redis"
  Limit,      \* LimitSpec::limit
  Duration,   \* LimitSpecWithDuration::duration, also the time an acquire waits
  Second,
  Lag,        \* how far the time in a command to Redis may be behind
  MaxTime     \* bound: the clock stops here, and nothing lasts beyond it

ASSUME LimitAssumption == Limit \in Nat
ASSUME TimeAssumption == /\ Duration \in Nat /\ MaxTime \in Nat
                         /\ Second \in Nat \ {0}
ASSUME LagAssumption == Lag \in Nat /\ Lag <= Second
ASSUME UuidsAssumption == IsFiniteSet(Uuids) /\ NoUuid \notin Uuids
ASSUME BackendsAssumption == Backends \subseteq {"Memory", "Redis"}
ASSUME TasksAssumption == IsFiniteSet(Tasks)

VARIABLES
  now,
  backend,
  members,    \* the leases in the set
  expiry,     \* the expiration of each of them
  permit,     \* the permit that Notify::notify_one leaves when nobody waits
  task,       \* the acquire a task is in, or the lease it holds
  deferred    \* leases whose release has been left to a spawned task by Drop

vars == <<now, backend, members, expiry, permit, task, deferred>>

Idle == [pc |-> "idle", uuid |-> NoUuid, deadline |-> 0, until |-> 0]

Init ==
  /\ now = 0
  /\ backend \in Backends
  /\ members = {}
  /\ expiry = [u \in Uuids |-> 0]
  /\ permit = FALSE
  /\ task = [t \in Tasks |-> Idle]
  /\ deferred = {}
-----------------------------------------------------------------------------
Floor(time) == time - (time % Second)
Ceil(time) == Floor(time + Second - 1)

\* The times that an operation may take for the current one.
Behind == IF backend = "Memory" THEN 0 ELSE Lag
Stamps == {at \in 0..now : now - at <= Behind}

\* Leases that the next attempt leaves in the set: Instants are compared in
\* memory, the script removes what expired a second before the current one.
ExpiresEarly(at) == {u \in members : expiry[u] > at + 1}
Unexpired(at) == {u \in members : IF backend = "Memory" THEN expiry[u] > at
                                  ELSE expiry[u] > Floor(at) - Second}

\* The expiration that goes with a new lease.
NewExpiry(at) == IF backend = "Memory" THEN at + Duration ELSE Ceil(at + Duration)

Room(at) == Cardinality(Unexpired(at)) + 1 <= Limit

\* acquire_immediate, or the script: drop what has expired, and add the lease
\* if there is room for it.
Claim(u, at) ==
  /\ members' = IF Room(at) THEN Unexpired(at) \cup {u} ELSE Unexpired(at)
  /\ expiry' = [x \in Uuids |-> IF x = u /\ Room(at) THEN NewExpiry(at)
                              ELSE IF x \in Unexpired(at) THEN expiry[x] ELSE 0]

Holding(c) == [c EXCEPT !.pc = "holding", !.until = now + Duration, !.deadline = 0]

\* Uuid::new_v4 does not return an identity that is still in use.
Unused == Uuids \ (members \cup deferred \cup {task[t].uuid : t \in Tasks})

\* acquire_lease: a new uuid, and a deadline one lease duration away.
Acquire(t) ==
  /\ task[t].pc = "idle"
  /\ now + Duration <= MaxTime
  /\ Unused # {}
  /\ task' = [task EXCEPT ![t] = [pc |-> "try", uuid |-> CHOOSE u \in Unused : TRUE,
                                  deadline |-> now + Duration, until |-> 0]]
  /\ UNCHANGED <<now, backend, members, expiry, permit, deferred>>

\* One turn of the loop.  A refused task waits for a release (in memory), or
\* sleeps and asks again unless its deadline has passed (Redis).
Try(t) ==
  /\ task[t].pc = "try"
  /\ \E at \in Stamps :
       /\ Claim(task[t].uuid, at)
       /\ task' = [task EXCEPT ![t] =
            IF Room(at) THEN Holding(@)
            ELSE IF backend = "Memory" THEN [@ EXCEPT !.pc = "notified"]
            ELSE IF now >= @.deadline THEN Idle ELSE [@ EXCEPT !.pc = "sleep"]]
  /\ UNCHANGED <<now, backend, permit, deferred>>

\* The first poll of notified() takes the permit, or queues the task.
Notified(t) ==
  /\ task[t].pc = "notified"
  /\ permit' = FALSE
  /\ task' = [task EXCEPT ![t].pc = IF permit THEN "try" ELSE "waiting"]
  /\ UNCHANGED <<now, backend, members, expiry, deferred>>

GivesUp(t) ==
  /\ task[t].pc = "waiting"
  /\ now >= task[t].deadline
  /\ task' = [task EXCEPT ![t].pc = "refused"]
  /\ UNCHANGED <<now, backend, members, expiry, permit, deferred>>

\* timeout_at has fired: the loop is left for one last attempt.
Unlimited(t) == FALSE
Timeout(t) ==
  /\ task[t].pc = "waiting"
  /\ now >= task[t].deadline
  /\ task' = [task EXCEPT ![t].pc = "last"]
  /\ UNCHANGED <<now, backend, members, expiry, permit, deferred>>

LastTry(t) ==
  /\ task[t].pc = "last"
  /\ Claim(task[t].uuid, now)
  /\ task' = [task EXCEPT ![t] = IF Room(now) THEN Holding(@) ELSE [@ EXCEPT !.pc = "refused"]]
  /\ UNCHANGED <<now, backend, permit, deferred>>

\* TooManyLeases, with the smallest expiration: the lock is taken again for it,
\* and expect("some elements") panics on an empty set.
Refuse(t) ==
  /\ task[t].pc = "refused"
  /\ task' = [task EXCEPT ![t] = IF members = {} THEN [Idle EXCEPT !.pc = "panicked"] ELSE Idle]
  /\ UNCHANGED <<now, backend, members, expiry, permit, deferred>>

Sleep(t) ==
  /\ task[t].pc = "sleep"
  /\ task' = [task EXCEPT ![t].pc = "try"]
  /\ UNCHANGED <<now, backend, members, expiry, permit, deferred>>

\* The acquire is dropped while it waits (maintain() lost a select), ...
Cancel(t) ==
  /\ task[t].pc \in {"waiting", "sleep"}
  /\ task' = [task EXCEPT ![t] = Idle]
  /\ UNCHANGED <<now, backend, members, expiry, permit, deferred>>

\* ... or the answer of the script is lost: the lease stays without a holder.
AnswerLost(t) ==
  /\ backend = "Redis" /\ task[t].pc = "try"
  /\ \E at \in Stamps : Claim(task[t].uuid, at)
  /\ task' = [task EXCEPT ![t] = Idle]
  /\ UNCHANGED <<now, backend, permit, deferred>>
-----------------------------------------------------------------------------
\* LimitLease::extend, before the session takes its next message.  A lease that
\* is not in the set any more cannot be extended (ZADD XX CH also reports one
\* whose score does not change), and the session closes.
Extensible(u, at) ==
  u \in members /\ (backend = "Redis" => expiry[u] # at + Duration)

Extend(t) ==
  /\ task[t].pc = "holding"
  /\ \E at \in Stamps :
       \/ /\ Extensible(task[t].uuid, at)
          /\ expiry' = [expiry EXCEPT ![task[t].uuid] = at + Duration]
          /\ task' = [task EXCEPT ![t].until = now + Duration]
       \/ /\ ~Extensible(task[t].uuid, at)
          /\ task' = [task EXCEPT ![t].pc = "closing"]
          /\ expiry' = expiry
  /\ UNCHANGED <<now, backend, members, permit, deferred>>

\* LeaseSet::release, or ZREM, of u, when the tasks are tk: the one signal of
\* notify_one goes to a waiter (to any: its order is left open here), or it is
\* kept, once, for the next.
Waiting == {t \in Tasks : task[t].pc = "waiting"}
ReleaseUuid(u, tk) ==
  /\ members' = members \ {u}
  /\ expiry' = [expiry EXCEPT ![u] = 0]
  /\ \/ \E w \in Waiting : task' = [tk EXCEPT ![w].pc = "try"] /\ permit' = permit
     \/ Waiting = {} /\ task' = tk /\ permit' = (backend = "Memory")
  /\ UNCHANGED <<now, backend>>

\* release_leases at the end of a session.
Release(t) ==
  /\ task[t].pc \in {"holding", "closing"}
  /\ ReleaseUuid(task[t].uuid, [task EXCEPT ![t] = Idle])
  /\ deferred' = deferred

\* Drop of a lease that is still armed (an aborted session) spawns the release.
DropLease(t) ==
  /\ task[t].pc \in {"holding", "closing"}
  /\ deferred' = deferred \cup {task[t].uuid}
  /\ task' = [task EXCEPT ![t] = Idle]
  /\ UNCHANGED <<now, backend, members, expiry, permit>>

DeferredRelease(u) ==
  /\ u \in deferred
  /\ deferred' = deferred \ {u}
  /\ ReleaseUuid(u, task)

Tick ==
  /\ now < MaxTime
  /\ now' = now + 1
  /\ UNCHANGED <<backend, members, expiry, permit, task, deferred>>

Step(t) == Try(t) \/ Notified(t) \/ Timeout(t) \/ LastTry(t) \/ Refuse(t) \/ Sleep(t)

Next ==
  \/ \E t \in Tasks : \/ Acquire(t) \/ Step(t) \/ Cancel(t) \/ AnswerLost(t)
                      \/ Extend(t) \/ Release(t) \/ DropLease(t)
  \/ \E u \in Uuids : DeferredRelease(u)
  \/ Tick

Spec == Init /\ [][Next]_vars

\* An acquire is scheduled and its timer runs; nothing is assumed of sessions.
FairSpec == Spec /\ WF_vars(Tick) /\ \A t \in Tasks : WF_vars(Step(t))
-----------------------------------------------------------------------------
Phases == {"idle", "try", "notified", "waiting", "last", "refused", "sleep",
           "holding", "closing", "panicked"}

TaskRecord == [pc : Phases, uuid : Uuids \cup {NoUuid}, deadline : Nat, until : Nat]

\* Every variable and every field of a task has its type.
TypeOK ==
  /\ now \in Nat
  /\ backend \in {"Memory", "Redis"}
  /\ members \subseteq Uuids
  /\ expiry \in [Uuids -> Nat]
  /\ permit \in BOOLEAN
  /\ task \in [Tasks -> TaskRecord]
  /\ deferred \subseteq Uuids

\* The sessions that rely on a lease: it was granted or extended less than a
\* lease duration ago.
Relying == {t \in Tasks : task[t].pc = "holding" /\ now < task[t].until}

\* At no time do more sessions than the limit rely on their lease, although
\* leases expire under a slow holder and are given to others, although an
\* expired lease that is still in the set may be extended, and although
\* releases of dropped leases arrive late.  With Redis this needs clocks and
\* commands that together are behind by no more than the second that the script
\* adds before it drops a lease (LagAssumption).
WithinLimit == Cardinality(Relying) <= Limit

\* An acquire is refused only if the limit was exhausted when it last looked,
\* at or after its deadline: no free place is overlooked for want of a signal.
RefusedOnlyWhenFull ==
  [][\A t \in Tasks : /\ task[t].pc \notin {"refused", "idle"}
                      /\ task'[t].pc = "refused" \/ (task[t].pc = "try" /\ task'[t] = Idle)
                      /\ ~AnswerLost(t)
                      => now >= task[t].deadline /\ Cardinality(members') >= Limit]_vars

\* Every acquire ends, with a lease or without, whether it is woken or not.
AcquireEnds ==
  \A t \in Tasks : task[t].pc \in {"try", "notified", "waiting", "last", "sleep"} ~>
                     task[t].pc \in {"idle", "holding", "refused"}

\* expect("some elements"): when the limit is exhausted there is a lease whose
\* expiration can be reported.
SomeElements == \A t \in Tasks : task[t].pc # "panicked"
=============================================================================
