------------------------- MODULE LeaseAndLogProofs --------------------------
(***************************************************************************)
(* Theorems about two crates that the daemon is built on.  LeaseSet: the   *)
(* limit is respected for every limit, duration, number of tasks and length *)
(* of a behaviour, in memory and in Redis.  LogTail: what is before the    *)
(* checkpoint of a consumer was dealt with, up to exceptions that are named, *)
(* and a run repeats nothing, for every number of segments, lines and      *)
(* consumers.                                                              *)
(***************************************************************************)
EXTENDS LeaseSet, LogTail, FiniteSetTheorems, SequenceTheorems, TLAPS

-----------------------------------------------------------------------------
(* LeaseSet                                                                *)

\* A task has a lease identity exactly while it acquires or holds a lease.
Named ==
  \A t \in Tasks : task[t].uuid = NoUuid <=> task[t].pc \in {"idle", "panicked"}

\* No two tasks share one, and a release left to a spawned task is not of a
\* lease that somebody still uses.
Apart ==
  \A t \in Tasks :
    task[t].uuid # NoUuid =>
      /\ task[t].uuid \notin deferred
      /\ \A s \in Tasks : s # t => task[s].uuid # task[t].uuid

\* What a session relies on is in the set, for as long as it relies on it, up to
\* the lag of the time it was written with.
Backed ==
  \A t \in Relying : task[t].uuid \in members /\ expiry[task[t].uuid] >= task[t].until - Behind

\* The set never outgrows the limit.
Bounded == Cardinality(members) <= Limit

\* The inductive invariant.
IInv == TypeOK /\ Named /\ Apart /\ Backed /\ Bounded
-----------------------------------------------------------------------------
LEMMA InitIInv == Init => IInv
<1> SUFFICES ASSUME Init PROVE IInv
  OBVIOUS
<1>1. TypeOK
  BY UuidsAssumption, BackendsAssumption DEF Init, TypeOK, Idle, Phases, TaskRecord
<1>2. Named /\ Apart /\ Backed
  BY DEF Init, Named, Apart, Backed, Relying, Idle
<1>3. Bounded
  BY FS_EmptySet, LimitAssumption DEF Init, Bounded
<1>. QED
  BY <1>1, <1>2, <1>3 DEF IInv

\* math.floor and math.ceil, in ticks.
LEMMA Rounding ==
  ASSUME NEW x \in Nat
  PROVE  /\ Floor(x) \in Int /\ Floor(x) <= x
         /\ Ceil(x) \in Nat /\ Ceil(x) >= x
<1>. DEFINE y == x + Second - 1
<1>1. x \in Int /\ y \in Int
  BY TimeAssumption
<1>2. Second \in Int /\ Second > 0
  BY TimeAssumption
<1>. HIDE DEF y
<1>3. x % Second \in 0..(Second - 1) /\ y % Second \in 0..(Second - 1)
  BY <1>1, <1>2
<1>. DEFINE r == x % Second
            q == y % Second
<1>4. r \in 0..(Second - 1) /\ q \in 0..(Second - 1)
  BY <1>3
<1>5. Floor(x) = x - r /\ Floor(y) = y - q
  BY DEF Floor
<1>6. Ceil(x) = Floor(y) /\ y = x + Second - 1
  BY DEF Ceil, y
<1>. HIDE DEF r, q
<1>. QED
  BY <1>1, <1>4, <1>5, <1>6, TimeAssumption

\* The lag of the backend, and a time that an operation takes for the current.
LEMMA Lagging ==
  ASSUME TypeOK
  PROVE  /\ Behind \in Nat /\ Behind <= Second /\ (backend = "Memory" => Behind = 0)
         /\ now \in Stamps
         /\ \A at \in Stamps : at \in Nat /\ at <= now /\ now - at <= Behind
<1>1. now \in Nat
  BY DEF TypeOK
<1>2. Behind \in Nat /\ Behind <= Second /\ (backend = "Memory" => Behind = 0)
  BY LagAssumption, TimeAssumption DEF Behind
<1> QED
  BY <1>1, <1>2 DEF Stamps

\* An attempt keeps the bound and every lease that is still running.
LEMMA ClaimKeeps ==
  ASSUME TypeOK, Bounded, NEW u \in Uuids, NEW at \in Stamps, Claim(u, at)
  PROVE  /\ members' \subseteq Uuids
         /\ expiry' \in [Uuids -> Nat]
         /\ Cardinality(members') <= Limit
         /\ \A x \in members : expiry[x] > now - Behind /\ x # u =>
              x \in members' /\ expiry'[x] = expiry[x]
         /\ Room(at) => u \in members' /\ expiry'[u] >= now + Duration - Behind
<1>1. /\ now \in Nat /\ at \in Nat /\ at <= now /\ now - at <= Behind
      /\ Behind \in Nat /\ Behind <= Second /\ (backend = "Memory" => Behind = 0)
  BY Lagging DEF TypeOK
<1>2. Unexpired(at) \subseteq members
  BY DEF Unexpired
<1>3. \A x \in members : expiry[x] > now - Behind => x \in Unexpired(at)
  <2>1. Floor(at) \in Int /\ Floor(at) <= at
    BY <1>1, Rounding
  <2>2. ASSUME NEW x \in members, expiry[x] > now - Behind PROVE x \in Unexpired(at)
    <3>1. expiry[x] \in Nat
      BY DEF TypeOK
    <3>2. expiry[x] > Floor(at) - Second /\ (backend = "Memory" => expiry[x] > at)
      BY <1>1, <2>1, <2>2, <3>1, TimeAssumption
    <3> QED
      BY <3>2 DEF Unexpired
  <2>. QED
    BY <2>2
<1>4. NewExpiry(at) \in Nat /\ NewExpiry(at) >= now + Duration - Behind
  <2>1. at + Duration \in Nat /\ at + Duration >= now + Duration - Behind
    BY <1>1, TimeAssumption
  <2>2. Ceil(at + Duration) \in Nat /\ Ceil(at + Duration) >= at + Duration
    BY <2>1, Rounding
  <2>3. NewExpiry(at) \in {at + Duration, Ceil(at + Duration)}
    BY DEF NewExpiry
  <2>. QED
    BY <1>1, <2>1, <2>2, <2>3, TimeAssumption
<1>5. IsFiniteSet(members) /\ IsFiniteSet(Unexpired(at))
  BY <1>2, FS_Subset, UuidsAssumption DEF TypeOK, TaskRecord
<1>6. Cardinality(Unexpired(at)) \in Nat /\ Cardinality(Unexpired(at)) <= Limit
  <2>1. Cardinality(Unexpired(at)) <= Cardinality(members)
    BY <1>2, <1>5, FS_Subset
  <2>. QED
    BY <2>1, <1>5, FS_CardinalityType, LimitAssumption DEF Bounded
<1>7. Cardinality(members') <= Limit
  <2>1. CASE Room(at)
    <3>1. Cardinality(Unexpired(at) \cup {u}) <= Cardinality(Unexpired(at)) + 1
      <4>1. Cardinality(Unexpired(at) \cup {u}) = Cardinality(Unexpired(at)) + 1
              \/ Cardinality(Unexpired(at) \cup {u}) = Cardinality(Unexpired(at))
        BY <1>5, FS_AddElement
      <4>. QED
        BY <4>1, <1>6
    <3>2. Cardinality(Unexpired(at) \cup {u}) \in Nat
      BY <1>5, FS_AddElement, FS_CardinalityType
    <3>. QED
      BY <2>1, <3>1, <3>2, <1>6, LimitAssumption DEF Claim, Room
  <2>2. CASE ~Room(at)
    BY <2>2, <1>6 DEF Claim
  <2>. QED
    BY <2>1, <2>2
<1>8. members' \subseteq Uuids /\ expiry' \in [Uuids -> Nat]
  BY <1>2, <1>4 DEF Claim, TypeOK, TaskRecord
<1>9. \A x \in members : expiry[x] > now - Behind /\ x # u => x \in members' /\ expiry'[x] = expiry[x]
  BY <1>3 DEF Claim, TypeOK, TaskRecord
<1>10. Room(at) => u \in members' /\ expiry'[u] >= now + Duration - Behind
  BY <1>4 DEF Claim
<1>. QED
  BY <1>7, <1>8, <1>9, <1>10

\* A session of a task whose record does not change keeps its lease through an
\* attempt of another task.
LEMMA ClaimStep ==
  ASSUME IInv, NEW t \in Tasks, task[t].uuid # NoUuid, NEW at \in Stamps, Claim(task[t].uuid, at),
         now' = now, deferred' = deferred, backend' = backend, permit' \in BOOLEAN,
         NEW r \in TaskRecord,
         task' = [task EXCEPT ![t] = r],
         r.uuid \in {task[t].uuid, NoUuid},
         r.uuid = NoUuid <=> r.pc \in {"idle", "panicked"},
         r.pc = "holding" => Room(at) /\ r.until = now + Duration
  PROVE  IInv'
<1>1. TypeOK /\ Named /\ Apart /\ Backed /\ Bounded /\ task[t].uuid \in Uuids
  BY DEF IInv, TypeOK, TaskRecord
<1>2. /\ members' \subseteq Uuids
      /\ expiry' \in [Uuids -> Nat]
      /\ Cardinality(members') <= Limit
      /\ \A x \in members : expiry[x] > now - Behind /\ x # task[t].uuid =>
              x \in members' /\ expiry'[x] = expiry[x]
      /\ Room(at) => task[t].uuid \in members' /\ expiry'[task[t].uuid] >= now + Duration - Behind
  BY <1>1, ClaimKeeps
<1>3. TypeOK'
  BY <1>1, <1>2 DEF TypeOK, TaskRecord
<1>4. Named'
  BY <1>1 DEF Named, TypeOK, TaskRecord
<1>5. Apart'
  BY <1>1 DEF Apart, TypeOK, TaskRecord
<1>6. Behind' = Behind /\ Behind \in Nat /\ now \in Nat
  BY <1>1, Lagging DEF Behind, TypeOK
<1>7. Backed'
  <2> SUFFICES ASSUME NEW s \in Tasks, s \in Relying'
               PROVE  task'[s].uuid \in members' /\ expiry'[task'[s].uuid] >= task'[s].until - Behind
    BY <1>6 DEF Backed, Relying
  <2>1. CASE s = t
    <3>1. task'[s] = r /\ r.pc = "holding"
      BY <2>1, <1>1 DEF Relying, TypeOK
    <3>2. r.until = now + Duration /\ r.uuid = task[t].uuid /\ Room(at)
      BY <3>1
    <3>. QED
      BY <1>2, <1>6, <3>1, <3>2, TimeAssumption
  <2>2. CASE s # t
    <3>1. task'[s] = task[s] /\ s \in Relying
      BY <2>2, <1>1 DEF Relying, TypeOK, TaskRecord
    <3>2. task[s].uuid \in members /\ expiry[task[s].uuid] >= task[s].until - Behind /\ now < task[s].until
      BY <3>1, <1>1 DEF Backed, Relying
    <3>3. task[s].uuid # task[t].uuid
      BY <2>2, <1>1 DEF Apart
    <3>4. expiry[task[s].uuid] > now - Behind
      BY <1>6, <3>2, <1>1 DEF TypeOK, TaskRecord
    <3>. QED
      BY <3>1, <3>2, <3>3, <3>4, <1>2
  <2>. QED
    BY <2>1, <2>2
<1>. QED
  BY <1>2, <1>3, <1>4, <1>5, <1>7 DEF IInv, Bounded

\* The record of a task that has just been granted its lease.
LEMMA HoldingRecord ==
  ASSUME TypeOK, NEW t \in Tasks
  PROVE  /\ Holding(task[t]) \in TaskRecord
         /\ Holding(task[t]).uuid = task[t].uuid
         /\ Holding(task[t]).pc = "holding"
         /\ Holding(task[t]).until = now + Duration
<1>1. task[t] \in TaskRecord
  BY DEF TypeOK, TaskRecord
<1>2. now + Duration \in Nat /\ "holding" \in Phases
  BY TimeAssumption DEF TypeOK, Phases, TaskRecord
<1>. QED
  BY <1>1, <1>2 DEF Holding, TaskRecord

\* A step of an acquire that leaves the set alone, and may end it.
LEMMA WaitStep ==
  ASSUME IInv, NEW t \in Tasks,
         UNCHANGED <<now, backend, members, expiry, deferred>>, permit' \in BOOLEAN,
         NEW r \in TaskRecord,
         task' = [task EXCEPT ![t] = r],
         r.uuid \in {task[t].uuid, NoUuid},
         r.uuid = NoUuid <=> r.pc \in {"idle", "panicked"},
         r.pc # "holding"
  PROVE  IInv'
<1>1. TypeOK /\ Named /\ Apart /\ Backed /\ Bounded
  BY DEF IInv
<1>2. TypeOK' /\ Named' /\ Apart'
  BY <1>1 DEF TypeOK, Named, Apart, TaskRecord
<1>3. Backed'
  <2>1. \A s \in Relying' : s # t /\ s \in Relying /\ task'[s] = task[s]
    BY <1>1 DEF Relying, TypeOK, TaskRecord
  <2>. QED
    BY <2>1, <1>1 DEF Backed, Relying, Behind
<1>. QED
  BY <1>1, <1>2, <1>3 DEF IInv, Bounded

\* The tasks without the one whose lease u is being released, if it had one.
FreeOf(u, tk) ==
  /\ tk \in [Tasks -> TaskRecord]
  /\ \A s \in Tasks : /\ tk[s].uuid # u
                      /\ tk[s] = task[s] \/ (tk[s] = Idle /\ task[s].pc # "waiting")

\* Releasing a lease that no task uses any more takes nothing from the others.
LEMMA ReleaseStep ==
  ASSUME IInv, NEW u \in Uuids,
         NEW tk, FreeOf(u, tk),
         deferred' \subseteq deferred,
         ReleaseUuid(u, tk)
  PROVE  IInv'
<1>1. TypeOK /\ Named /\ Apart /\ Backed /\ Bounded
  BY DEF IInv
<1>0. /\ tk \in [Tasks -> TaskRecord]
      /\ \A s \in Tasks : /\ tk[s].uuid # u
                          /\ tk[s] = task[s] \/ (tk[s] = Idle /\ task[s].pc # "waiting")
  BY DEF FreeOf
<1>2. PICK w : \/ w \in Waiting /\ task' = [tk EXCEPT ![w].pc = "try"]
               \/ w \notin Tasks /\ task' = tk
  <2>1. \E w : w \notin Tasks
    BY NoSetContainsEverything
  <2>. QED
    BY <2>1 DEF ReleaseUuid
<1>3. \A s \in Tasks : \/ s # w /\ task'[s] = tk[s]
                       \/ /\ s = w /\ tk[s] = task[s] /\ task[s].pc = "waiting"
                          /\ task'[s] = [task[s] EXCEPT !.pc = "try"]
  BY <1>0, <1>2 DEF Waiting
<1>4. members' = members \ {u} /\ expiry' = [expiry EXCEPT ![u] = 0]
      /\ now' = now /\ backend' = backend /\ permit' \in BOOLEAN
  BY <1>1 DEF ReleaseUuid, TypeOK, TaskRecord
<1>5. task' \in [Tasks -> TaskRecord]
  BY <1>0, <1>2 DEF Phases, Waiting, TaskRecord
<1>6. TypeOK'
  BY <1>0, <1>1, <1>4, <1>5 DEF TypeOK, TaskRecord
<1>7. \A s \in Tasks : \/ task'[s].uuid = task[s].uuid
                        \/ task'[s] = Idle
  BY <1>0, <1>1, <1>3 DEF TypeOK, TaskRecord
<1>8. Apart'
  BY <1>0, <1>1, <1>7 DEF Apart, Idle
<1>9. Named'
  <2> SUFFICES ASSUME NEW s \in Tasks
               PROVE  task'[s].uuid = NoUuid <=> task'[s].pc \in {"idle", "panicked"}
    BY DEF Named
  <2>1. CASE task'[s] = task[s] \/ task'[s] = Idle
    BY <2>1, <1>1 DEF Named, Idle
  <2>2. CASE task[s].pc = "waiting" /\ task'[s] = [task[s] EXCEPT !.pc = "try"]
    <3>1. task[s] \in TaskRecord
      BY <1>1 DEF TypeOK, TaskRecord
    <3>. QED
      BY <2>2, <3>1, <1>1 DEF Named
  <2>. QED
    BY <1>0, <2>1, <2>2, <1>3
<1>10. Backed'
  <2> SUFFICES ASSUME NEW s \in Tasks, s \in Relying'
               PROVE  task'[s].uuid \in members' /\ expiry'[task'[s].uuid] >= task'[s].until - Behind
    BY <1>4 DEF Backed, Relying, Behind
  <2>1. task'[s].pc = "holding"
    BY DEF Relying
  <2>2. task'[s] = task[s] /\ task[s].uuid # u
    <3>1. task[s] \in TaskRecord
      BY <1>1 DEF TypeOK, TaskRecord
    <3>2. task'[s] # Idle
      BY <2>1 DEF Idle
    <3>3. task'[s] # [task[s] EXCEPT !.pc = "try"]
      BY <2>1, <3>1 DEF TaskRecord
    <3>. QED
      BY <1>0, <3>2, <3>3, <1>3
  <2>3. s \in Relying
    BY <2>2, <1>4 DEF Relying
  <2>. QED
    BY <2>2, <2>3, <1>1, <1>4 DEF Backed, TypeOK, TaskRecord
<1>11. Bounded'
  <2>1. IsFiniteSet(members) /\ IsFiniteSet(members')
    BY <1>0, <1>1, <1>6, FS_Subset, UuidsAssumption DEF TypeOK, TaskRecord
  <2>2. Cardinality(members') <= Cardinality(members)
    BY <2>1, <1>4, FS_Subset
  <2>. QED
    BY <2>1, <2>2, <1>1, FS_CardinalityType, LimitAssumption DEF Bounded
<1>. QED
  BY <1>6, <1>8, <1>9, <1>10, <1>11 DEF IInv
-----------------------------------------------------------------------------
LEMMA NextIInv == IInv /\ [Next]_vars => IInv'
<1> SUFFICES ASSUME IInv, [Next]_vars PROVE IInv'
  OBVIOUS
<1>1. TypeOK /\ Named /\ Apart /\ Backed /\ Bounded
  BY DEF IInv
<1>2. \A t \in Tasks : task[t] \in TaskRecord
  BY <1>1 DEF TypeOK, TaskRecord
<1>3. Idle \in TaskRecord /\ [Idle EXCEPT !.pc = "panicked"] \in TaskRecord
  BY DEF Idle, Phases, TaskRecord
<1>4. ASSUME NEW t \in Tasks, Acquire(t) PROVE IInv'
  <2>. DEFINE v == CHOOSE u \in Unused : TRUE
              r == [pc |-> "try", uuid |-> v, deadline |-> now + Duration, until |-> 0]
  <2>1. v \in Unused
    BY <1>4 DEF Acquire
  <2>2. r \in TaskRecord /\ v # NoUuid
    BY <2>1, <1>1, UuidsAssumption, TimeAssumption DEF Unused, TypeOK, Phases, TaskRecord
  <2>3. task' = [task EXCEPT ![t] = r]
    BY <1>4 DEF Acquire
  <2>4. v \notin deferred /\ \A s \in Tasks : task[s].uuid # v
    BY <2>1 DEF Unused
  <2>5. r.uuid = v /\ r.pc = "try"
    OBVIOUS
  <2>. HIDE DEF v, r
  <2>6. UNCHANGED <<now, backend, members, expiry, permit, deferred>>
    BY <1>4 DEF Acquire
  <2>7. TypeOK' /\ Named'
    BY <1>1, <2>2, <2>3, <2>5, <2>6 DEF TypeOK, Named, TaskRecord
  <2>8. Apart'
    BY <1>1, <2>2, <2>3, <2>4, <2>5, <2>6 DEF TypeOK, Apart, TaskRecord
  <2>9. \A s \in Relying' : s # t /\ s \in Relying /\ task'[s] = task[s]
    BY <1>1, <2>3, <2>5, <2>6 DEF Relying, TypeOK, TaskRecord
  <2>. QED
    BY <2>6, <2>7, <2>8, <2>9, <1>1 DEF IInv, Backed, Bounded, Relying, Behind
<1>5. ASSUME NEW t \in Tasks, Try(t) PROVE IInv'
  <2>1. PICK at \in Stamps :
          /\ Claim(task[t].uuid, at)
          /\ task' = [task EXCEPT ![t] =
               IF Room(at) THEN Holding(@)
               ELSE IF backend = "Memory" THEN [@ EXCEPT !.pc = "notified"]
               ELSE IF now >= @.deadline THEN Idle ELSE [@ EXCEPT !.pc = "sleep"]]
    BY <1>5 DEF Try
  <2>2. PICK r : /\ task' = [task EXCEPT ![t] = r]
                 /\ \/ Room(at) /\ r = Holding(task[t])
                    \/ r = [task[t] EXCEPT !.pc = "notified"]
                    \/ r = [task[t] EXCEPT !.pc = "sleep"]
                    \/ r = Idle
    BY <2>1
  <2>3. task[t].uuid # NoUuid
    BY <1>5, <1>1 DEF Try, Named
  <2>4. r \in TaskRecord
    BY <2>2, <1>1, <1>2, <1>3, HoldingRecord DEF Phases, TaskRecord
  <2>5. /\ r.uuid \in {task[t].uuid, NoUuid}
        /\ r.uuid = NoUuid <=> r.pc \in {"idle", "panicked"}
        /\ r.pc = "holding" => Room(at) /\ r.until = now + Duration
    BY <2>2, <2>3, <1>1, <1>2, HoldingRecord DEF Idle, TaskRecord
  <2>. QED
    BY <1>1, <2>1, <2>2, <2>3, <2>4, <2>5, <1>5, ClaimStep DEF Try, TypeOK, TaskRecord
<1>6. ASSUME NEW t \in Tasks, LastTry(t) PROVE IInv'
  <2>1. PICK r : /\ task' = [task EXCEPT ![t] = r]
                 /\ \/ Room(now) /\ r = Holding(task[t])
                    \/ r = [task[t] EXCEPT !.pc = "refused"]
    BY <1>6 DEF LastTry
  <2>2. task[t].uuid # NoUuid
    BY <1>6, <1>1 DEF LastTry, Named
  <2>3. r \in TaskRecord
    BY <2>1, <1>1, <1>2, HoldingRecord DEF Phases, TaskRecord
  <2>4. /\ r.uuid \in {task[t].uuid, NoUuid}
        /\ r.uuid = NoUuid <=> r.pc \in {"idle", "panicked"}
        /\ r.pc = "holding" => Room(now) /\ r.until = now + Duration
    BY <2>1, <2>2, <1>1, <1>2, HoldingRecord DEF TaskRecord
  <2>. QED
    BY <1>1, <2>1, <2>2, <2>3, <2>4, <1>6, Lagging, ClaimStep DEF LastTry, TypeOK, TaskRecord
<1>7. ASSUME NEW t \in Tasks, AnswerLost(t) PROVE IInv'
  <2>1. PICK at \in Stamps : Claim(task[t].uuid, at)
    BY <1>7 DEF AnswerLost
  <2>2. task[t].uuid # NoUuid
    BY <1>7, <1>1 DEF AnswerLost, Named
  <2>3. /\ Idle.uuid \in {task[t].uuid, NoUuid}
        /\ Idle.uuid = NoUuid <=> Idle.pc \in {"idle", "panicked"}
        /\ Idle.pc = "holding" => Room(at) /\ Idle.until = now + Duration
    BY DEF Idle
  <2>4. /\ Claim(task[t].uuid, at) /\ task' = [task EXCEPT ![t] = Idle]
        /\ now' = now /\ deferred' = deferred /\ backend' = backend /\ permit' \in BOOLEAN
    BY <1>7, <2>1, <1>1 DEF AnswerLost, TypeOK, TaskRecord
  <2>. QED
    BY <1>3, <2>1, <2>2, <2>3, <2>4, ClaimStep
<1>8. ASSUME NEW t \in Tasks,
             Notified(t) \/ Timeout(t) \/ Refuse(t) \/ Sleep(t) \/ Cancel(t)
      PROVE IInv'
  <2>1. PICK r : /\ task' = [task EXCEPT ![t] = r]
                 /\ \/ \E p \in {"try", "waiting", "last"} : r = [task[t] EXCEPT !.pc = p]
                    \/ r = Idle
                    \/ r = [Idle EXCEPT !.pc = "panicked"]
    BY <1>8 DEF Notified, Timeout, Refuse, Sleep, Cancel
  <2>2. task[t].uuid # NoUuid
    BY <1>8, <1>1 DEF Notified, Timeout, Refuse, Sleep, Cancel, Named
  <2>3. r \in TaskRecord
    BY <2>1, <1>2, <1>3 DEF Phases, TaskRecord
  <2>4. /\ r.uuid \in {task[t].uuid, NoUuid}
        /\ r.uuid = NoUuid <=> r.pc \in {"idle", "panicked"}
        /\ r.pc # "holding"
    BY <2>1, <2>2, <1>2 DEF Idle, TaskRecord
  <2>5. UNCHANGED <<now, backend, members, expiry, deferred>> /\ permit' \in BOOLEAN
    BY <1>8, <1>1 DEF Notified, Timeout, Refuse, Sleep, Cancel, TypeOK, TaskRecord
  <2>. QED
    BY <2>1, <2>3, <2>4, <2>5, WaitStep
<1>9. ASSUME NEW t \in Tasks, Extend(t) PROVE IInv'
  <2>. DEFINE u == task[t].uuid
  <2>1. PICK at \in Stamps :
          \/ /\ Extensible(u, at)
             /\ expiry' = [expiry EXCEPT ![u] = at + Duration]
             /\ task' = [task EXCEPT ![t].until = now + Duration]
          \/ /\ ~Extensible(u, at)
             /\ task' = [task EXCEPT ![t].pc = "closing"]
             /\ expiry' = expiry
    BY <1>9 DEF Extend
  <2>2. /\ now \in Nat /\ at \in Nat /\ now - at <= Behind /\ Behind \in Nat
        /\ at + Duration \in Nat /\ at + Duration >= now + Duration - Behind
    BY <1>1, Lagging, TimeAssumption DEF TypeOK
  <2>3. now + Duration \in Nat /\ UNCHANGED <<now, backend, members, permit, deferred>>
    BY <1>9, <1>1, TimeAssumption DEF Extend, TypeOK, TaskRecord
  <2>4. CASE Extensible(u, at)
    <3>1. /\ u \in members /\ u \in Uuids
          /\ expiry' = [expiry EXCEPT ![u] = at + Duration]
          /\ task' = [task EXCEPT ![t].until = now + Duration]
      BY <1>9, <2>1, <2>4, <1>1 DEF Extend, Extensible, TypeOK, TaskRecord
    <3>2. TypeOK' /\ Named' /\ Apart'
      BY <1>1, <2>2, <2>3, <3>1 DEF TypeOK, Named, Apart, TaskRecord
    <3>3. Backed'
      <4> SUFFICES ASSUME NEW s \in Tasks, s \in Relying'
                   PROVE  task'[s].uuid \in members' /\ expiry'[task'[s].uuid] >= task'[s].until - Behind
        BY <2>3 DEF Backed, Relying, Behind
      <4>1. CASE s = t
        <5>1. task'[s].until = now + Duration /\ task'[s].uuid = u /\ expiry'[u] = at + Duration
          BY <4>1, <1>1, <1>2, <3>1 DEF TypeOK, TaskRecord
        <5>. QED
          BY <2>2, <2>3, <3>1, <5>1, TimeAssumption
      <4>2. CASE s # t
        <5>1. task'[s] = task[s] /\ s \in Relying
          BY <4>2, <1>1, <2>3, <3>1 DEF Relying, TypeOK, TaskRecord
        <5>2. task[s].uuid # u
          BY <4>2, <1>1, <3>1, UuidsAssumption DEF Apart
        <5>3. task[s].uuid \in members /\ expiry[task[s].uuid] >= task[s].until - Behind
          BY <5>1, <1>1 DEF Backed
        <5>. QED
          BY <5>1, <5>2, <5>3, <1>1, <2>3, <3>1 DEF TypeOK, TaskRecord
      <4>. QED
        BY <4>1, <4>2
    <3>. QED
      BY <3>2, <3>3, <1>1, <2>3 DEF IInv, Bounded
  <2>5. CASE ~Extensible(u, at)
    <3>. DEFINE r == [task[t] EXCEPT !.pc = "closing"]
    <3>1. task' = [task EXCEPT ![t] = r] /\ expiry' = expiry
      BY <2>1, <2>5, <1>1 DEF TypeOK, TaskRecord
    <3>2. r \in TaskRecord /\ r.uuid = task[t].uuid /\ r.pc = "closing"
      BY <1>2 DEF Phases, TaskRecord
    <3>3. task[t].uuid # NoUuid
      BY <1>9, <1>1 DEF Extend, Named
    <3>. HIDE DEF r
    <3>4. /\ r.uuid \in {task[t].uuid, NoUuid}
          /\ r.uuid = NoUuid <=> r.pc \in {"idle", "panicked"}
          /\ r.pc # "holding"
      BY <3>2, <3>3
    <3>5. permit' \in BOOLEAN /\ UNCHANGED <<now, backend, members, expiry, deferred>>
      BY <2>3, <3>1, <1>1 DEF TypeOK, TaskRecord
    <3>. QED
      BY <3>1, <3>2, <3>4, <3>5, WaitStep
  <2>. QED
    BY <2>4, <2>5
<1>10. ASSUME NEW t \in Tasks, Release(t) PROVE IInv'
  <2>1. PICK u : u = task[t].uuid
    OBVIOUS
  <2>2. PICK tk : tk = [task EXCEPT ![t] = Idle]
    OBVIOUS
  <2>3. u # NoUuid /\ u \in Uuids
    BY <2>1, <1>10, <1>1 DEF Release, Named, TypeOK, TaskRecord
  <2>4. tk \in [Tasks -> TaskRecord]
    BY <2>2, <1>2, <1>3, <1>1 DEF TypeOK, TaskRecord
  <2>5. \A s \in Tasks : /\ tk[s].uuid # u
                         /\ tk[s] = task[s] \/ (tk[s] = Idle /\ task[s].pc # "waiting")
    BY <2>1, <2>2, <2>3, <1>1, <1>10 DEF Apart, Idle, Release, TypeOK, TaskRecord
  <2>6. ReleaseUuid(u, tk) /\ deferred' \subseteq deferred
    BY <2>1, <2>2, <1>10 DEF Release
  <2>7. FreeOf(u, tk)
    BY <2>4, <2>5 DEF FreeOf
  <2>. QED
    BY <2>3, <2>6, <2>7, ReleaseStep
<1>11. ASSUME NEW t \in Tasks, DropLease(t) PROVE IInv'
  <2>1. /\ task' = [task EXCEPT ![t] = Idle]
        /\ deferred' = deferred \cup {task[t].uuid}
        /\ UNCHANGED <<now, backend, members, expiry, permit>>
    BY <1>11 DEF DropLease
  <2>2. task[t].uuid # NoUuid /\ task[t].uuid \in Uuids
    BY <1>11, <1>1 DEF DropLease, Named, TypeOK, TaskRecord
  <2>3. TypeOK' /\ Named'
    BY <1>1, <1>3, <2>1, <2>2 DEF TypeOK, Named, Idle, TaskRecord
  <2>4. Apart'
    <3>1. \A s \in Tasks : task'[s] = IF s = t THEN Idle ELSE task[s]
      BY <2>1, <1>1 DEF TypeOK, TaskRecord
    <3>. QED
      BY <3>1, <2>1, <2>2, <1>1 DEF Apart, Idle
  <2>5. \A s \in Relying' : s \in Relying /\ task'[s] = task[s]
    BY <1>1, <2>1 DEF Relying, TypeOK, Idle, TaskRecord
  <2>. QED
    BY <2>1, <2>3, <2>4, <2>5, <1>1 DEF IInv, Backed, Bounded, Relying, Behind
<1>12. ASSUME NEW u \in Uuids, DeferredRelease(u) PROVE IInv'
  <2>1. task \in [Tasks -> TaskRecord]
    BY <1>1 DEF TypeOK, TaskRecord
  <2>2. \A s \in Tasks : task[s].uuid # u
    BY <1>12, <1>1, UuidsAssumption DEF DeferredRelease, Apart
  <2>3. ReleaseUuid(u, task) /\ deferred' \subseteq deferred
    BY <1>12 DEF DeferredRelease
  <2>4. FreeOf(u, task)
    BY <2>1, <2>2 DEF FreeOf
  <2>. QED
    BY <2>3, <2>4, ReleaseStep
<1>13. ASSUME Tick PROVE IInv'
  <2>1. now' = now + 1 /\ UNCHANGED <<backend, members, expiry, permit, task, deferred>>
    BY <1>13 DEF Tick
  <2>2. TypeOK' /\ Named' /\ Apart' /\ Bounded'
    BY <2>1, <1>1 DEF TypeOK, Named, Apart, Bounded, TaskRecord
  <2>3. Relying' \subseteq Relying
    BY <2>1, <1>1 DEF Relying, TypeOK, TaskRecord
  <2>. QED
    BY <2>1, <2>2, <2>3, <1>1 DEF IInv, Backed, Behind
<1>14. CASE UNCHANGED vars
  BY <1>14, <1>1 DEF IInv, TypeOK, Named, Apart, Backed, Bounded, Relying, Behind, vars, TaskRecord
<1>. QED
  BY <1>4, <1>5, <1>6, <1>7, <1>8, <1>9, <1>10, <1>11, <1>12, <1>13, <1>14 DEF Next, Step

\* Every state respects the limit: the sessions that rely on a lease have
\* leases of their own in a set that the attempts keep within the limit.
LEMMA IInvWithinLimit == IInv => WithinLimit
<1> SUFFICES ASSUME IInv PROVE WithinLimit
  OBVIOUS
<1>1. TypeOK /\ Named /\ Apart /\ Backed /\ Bounded
  BY DEF IInv
<1>. DEFINE f == [t \in Relying |-> task[t].uuid]
<1>2. IsFiniteSet(members)
  BY <1>1, FS_Subset, UuidsAssumption DEF TypeOK, TaskRecord
<1>3. f \in Injection(Relying, members)
  <2>1. f \in [Relying -> members]
    BY <1>1 DEF Backed
  <2>2. \A s, t \in Relying : f[s] = f[t] => s = t
    BY <1>1 DEF Relying, Apart, Named
  <2>. QED
    BY <2>1, <2>2 DEF Injection, IsInjective
<1>4. Cardinality(Relying) <= Cardinality(members) /\ IsFiniteSet(Relying)
  BY <1>2, <1>3, FS_Injection
<1>. QED
  BY <1>1, <1>2, <1>4, FS_CardinalityType, LimitAssumption DEF WithinLimit, Bounded

\* Of all sessions, at most Limit rely on their lease at any time, with either
\* backend, whatever expires, is extended late, is lost or is released late.
THEOREM LimitRespected == Spec => []WithinLimit
<1>1. Init => IInv
  BY InitIInv
<1>2. IInv /\ [Next]_vars => IInv'
  BY NextIInv
<1>3. IInv => WithinLimit
  BY IInvWithinLimit
<1>. QED
  BY <1>1, <1>2, <1>3, PTL DEF Spec

\* The types of the variables are kept by every step.
THEOREM LeaseSetTypes == Spec => []TypeOK
<1>1. Init => IInv
  BY InitIInv
<1>2. IInv /\ [Next]_vars => IInv'
  BY NextIInv
<1>3. IInv => TypeOK
  BY DEF IInv
<1>. QED
  BY <1>1, <1>2, <1>3, PTL DEF Spec
-----------------------------------------------------------------------------
\* The last attempt is made at or after the deadline.
LastIsLate == \A t \in Tasks : task[t].pc = "last" => now >= task[t].deadline

\* What a step does to a task that makes no attempt in it and does not time
\* out: nothing, or a move that neither refuses it nor ends an attempt.
LEMMA TaskStep ==
  ASSUME TypeOK, [Next]_vars, NEW t \in Tasks
  PROVE  \/ Try(t) \/ LastTry(t) \/ Timeout(t) \/ AnswerLost(t)
         \/ task'[t] = task[t]
         \/ task'[t].pc \notin {"last", "refused"} /\ task[t].pc # "try"
<1>1. task \in [Tasks -> TaskRecord] /\ Idle.pc = "idle"
  BY DEF TypeOK, Idle
<1>. DEFINE Moved == \/ task'[t] = task[t]
                     \/ task'[t].pc \notin {"last", "refused"} /\ task[t].pc # "try"
<1>2. ASSUME NEW s \in Tasks, s # t, \E r : task' = [task EXCEPT ![s] = r] PROVE Moved
  BY <1>1, <1>2
<1>3. ASSUME NEW s \in Tasks, Acquire(s) \/ Step(s) \/ Cancel(s) \/ AnswerLost(s) \/ Extend(s) \/ DropLease(s)
      PROVE  \/ Moved \/ Try(t) \/ LastTry(t) \/ Timeout(t) \/ AnswerLost(t)
  <2>1. CASE s # t
    <3>1. \E r : task' = [task EXCEPT ![s] = r]
      BY <1>3 DEF Acquire, Step, Try, Notified, Timeout, LastTry, Refuse, Sleep, Cancel, AnswerLost, Extend, DropLease
    <3>. QED
      BY <1>2, <2>1, <3>1
  <2>2. CASE s = t
    <3>1. CASE Acquire(t)
      BY <1>1, <3>1 DEF Acquire
    <3>2. CASE Notified(t) \/ Sleep(t)
      BY <1>1, <3>2 DEF Notified, Sleep, TaskRecord
    <3>3. CASE Refuse(t) \/ Cancel(t) \/ DropLease(t)
      BY <1>1, <3>3 DEF Refuse, Cancel, DropLease, Idle
    <3>4. CASE Extend(t)
      BY <1>1, <3>4 DEF Extend, TaskRecord
    <3>. QED
      BY <1>3, <2>2, <3>1, <3>2, <3>3, <3>4 DEF Step
  <2>. QED
    BY <2>1, <2>2
<1>4. ASSUME NEW u, NEW tk \in [Tasks -> TaskRecord], ReleaseUuid(u, tk), tk[t] = task[t] \/ tk[t] = Idle,
             tk[t] # task[t] => task[t].pc \in {"holding", "closing"}
      PROVE  Moved
  <2>1. CASE task' = tk
    BY <1>1, <1>4, <2>1
  <2>2. ASSUME NEW w \in Waiting, task' = [tk EXCEPT ![w].pc = "try"] PROVE Moved
    BY <1>1, <1>4, <2>2 DEF Waiting, TaskRecord
  <2>. QED
    BY <1>4, <2>1, <2>2 DEF ReleaseUuid
<1>5. ASSUME NEW s \in Tasks, Release(s) PROVE Moved
  <2>1. PICK tk : tk = [task EXCEPT ![s] = Idle]
    OBVIOUS
  <2>2. Idle \in TaskRecord
    BY DEF Idle, TaskRecord, Phases
  <2>3. /\ tk \in [Tasks -> TaskRecord]
        /\ tk[t] = task[t] \/ tk[t] = Idle
        /\ tk[t] # task[t] => task[t].pc \in {"holding", "closing"}
    BY <1>1, <1>5, <2>1, <2>2 DEF Release
  <2>4. ReleaseUuid(task[s].uuid, tk)
    BY <1>5, <2>1 DEF Release
  <2>. QED
    BY <1>4, <2>3, <2>4
<1>6. ASSUME NEW u \in Uuids, DeferredRelease(u) PROVE Moved
  BY <1>1, <1>4, <1>6 DEF DeferredRelease
<1>7. ASSUME Tick \/ UNCHANGED vars PROVE Moved
  BY <1>7 DEF Tick, vars
<1>. HIDE DEF Moved
<1>8. \/ Moved \/ Try(t) \/ LastTry(t) \/ Timeout(t) \/ AnswerLost(t)
  BY <1>3, <1>5, <1>6, <1>7 DEF Next
<1>. QED
  BY <1>8 DEF Moved

\* How an attempt ends: with the lease, without it before the deadline, or
\* without it for good.
LEMMA AttemptEnds ==
  ASSUME TypeOK, NEW t \in Tasks, Try(t) \/ LastTry(t)
  PROVE  \/ task'[t].pc = "holding"
         \/ Try(t) /\ task'[t].pc \in {"notified", "sleep"}
         \/ /\ Try(t) /\ task'[t] = Idle /\ now >= task[t].deadline
            /\ \E at \in Stamps : ~Room(at) /\ members' = Unexpired(at)
         \/ /\ LastTry(t) /\ task'[t].pc = "refused"
            /\ \E at \in Stamps : ~Room(at) /\ members' = Unexpired(at)
<1>1. task \in [Tasks -> TaskRecord] /\ task[t] \in TaskRecord
  BY DEF TypeOK
<1>2. \A r \in TaskRecord : \A p : [r EXCEPT !.pc = p].pc = p /\ Holding(r).pc = "holding"
  BY DEF TaskRecord, Holding
<1>3. CASE Try(t)
  <2>1. PICK at \in Stamps :
          /\ Claim(task[t].uuid, at)
          /\ task' = [task EXCEPT ![t] =
               IF Room(at) THEN Holding(@)
               ELSE IF backend = "Memory" THEN [@ EXCEPT !.pc = "notified"]
               ELSE IF now >= @.deadline THEN Idle ELSE [@ EXCEPT !.pc = "sleep"]]
    BY <1>3 DEF Try
  <2>2. task'[t] = IF Room(at) THEN Holding(task[t])
                   ELSE IF backend = "Memory" THEN [task[t] EXCEPT !.pc = "notified"]
                   ELSE IF now >= task[t].deadline THEN Idle ELSE [task[t] EXCEPT !.pc = "sleep"]
    BY <1>1, <2>1
  <2>3. ~Room(at) => members' = Unexpired(at)
    BY <2>1 DEF Claim
  <2>. QED
    BY <1>1, <1>2, <1>3, <2>2, <2>3
<1>4. CASE LastTry(t)
  <2>1. task'[t] = IF Room(now) THEN Holding(task[t]) ELSE [task[t] EXCEPT !.pc = "refused"]
    BY <1>1, <1>4 DEF LastTry
  <2>2. ~Room(now) => members' = Unexpired(now)
    BY <1>4 DEF LastTry, Claim
  <2>3. now \in Stamps
    BY Lagging
  <2>. QED
    BY <1>1, <1>2, <1>4, <2>1, <2>2, <2>3
<1>. QED
  BY <1>3, <1>4

\* Time does not run backwards, and a task that waits keeps its deadline.
LEMMA LastIsLateStep ==
  ASSUME TypeOK, LastIsLate, [Next]_vars
  PROVE  LastIsLate'
<1>1. now \in Nat /\ now' \in Nat /\ now' >= now
  BY DEF TypeOK, Next, vars, Acquire, Step, Try, Notified, Timeout, LastTry, Refuse, Sleep, Cancel, AnswerLost,
         Extend, Release, ReleaseUuid, DropLease, DeferredRelease, Tick
<1>. SUFFICES ASSUME NEW t \in Tasks, task'[t].pc = "last" PROVE now' >= task'[t].deadline
  BY DEF LastIsLate
<1>2. task \in [Tasks -> TaskRecord] /\ task[t].deadline \in Nat
  BY DEF TypeOK, TaskRecord
<1>3. CASE Timeout(t)
  BY <1>1, <1>2, <1>3 DEF Timeout, TaskRecord
<1>4. ~Try(t) /\ ~LastTry(t) /\ ~AnswerLost(t)
  BY <1>2, AttemptEnds DEF AnswerLost, Idle
<1>5. CASE task'[t] = task[t]
  BY <1>1, <1>2, <1>5 DEF LastIsLate
<1>. QED
  BY <1>3, <1>4, <1>5, TaskStep

\* A refused attempt was made at or after the deadline, with no room.
LEMMA RefusedStep ==
  ASSUME TypeOK, LastIsLate, [Next]_vars, NEW t \in Tasks, task[t].pc \notin {"refused", "idle"},
         task'[t].pc = "refused" \/ (task[t].pc = "try" /\ task'[t] = Idle), ~AnswerLost(t)
  PROVE  now >= task[t].deadline /\ Cardinality(members') >= Limit
<1>1. task \in [Tasks -> TaskRecord] /\ Idle.pc = "idle"
  BY DEF TypeOK, Idle
<1>2. task'[t] # task[t] /\ ~Timeout(t)
  BY <1>1 DEF Timeout, TaskRecord
<1>3. Try(t) \/ LastTry(t)
  BY <1>1, <1>2, TaskStep
<1>4. PICK at \in Stamps : ~Room(at) /\ members' = Unexpired(at)
  BY <1>1, <1>3, AttemptEnds
<1>5. now >= task[t].deadline
  BY <1>1, <1>3, AttemptEnds DEF LastTry, LastIsLate
<1>6. Cardinality(Unexpired(at)) \in Nat
  BY FS_Subset, FS_CardinalityType, UuidsAssumption DEF Unexpired, TypeOK
<1>. QED
  BY <1>4, <1>5, <1>6, LimitAssumption DEF Room

\* An acquire is refused, in memory or by Redis, only at or after its deadline
\* and only if the attempt it made then found the limit exhausted.
THEOREM RefusalsAreJustified == Spec => RefusedOnlyWhenFull
<1>1. Init => IInv /\ LastIsLate
  BY InitIInv DEF Init, LastIsLate, Idle
<1>2. IInv /\ LastIsLate /\ [Next]_vars => (IInv /\ LastIsLate)'
  BY NextIInv, LastIsLateStep DEF IInv
<1>3. IInv /\ LastIsLate /\ [Next]_vars
      => [\A t \in Tasks : /\ task[t].pc \notin {"refused", "idle"}
                           /\ task'[t].pc = "refused" \/ (task[t].pc = "try" /\ task'[t] = Idle)
                           /\ ~AnswerLost(t)
                           => now >= task[t].deadline /\ Cardinality(members') >= Limit]_vars
  BY RefusedStep DEF IInv
<1>. QED
  BY <1>1, <1>2, <1>3, PTL DEF Spec, RefusedOnlyWhenFull

-----------------------------------------------------------------------------
(* LogTail                                                                 *)

\* The tailer runs; and it has a file under way.
Running == tailer.pc \notin {"down", "panicked"}
Reading == tailer.pc \in {"read", "eof"} \/ (tailer.pc = "yielded" /\ tailer.plan # {})

\* The lines that can be read.
Rd(s, f, l) ==
  /\ f \in 1..Len(s) /\ l \in 1..s[f].visible
  /\ \A k \in 1..l : s[f].lines[k] = "rec"
Spoilt(s, f) == f \in 1..Len(s) /\ \E l \in 1..s[f].visible : s[f].lines[l] = "junk"

\* Files that will not get more of them: any other may, the newest or not.
Settled(s, f) == f \in 1..Len(s) /\ (s[f].state = "done" \/ Spoilt(s, f))

\* A position that the log will keep, and before which nothing will be added.
Written(s, f, l) ==
  /\ f \in 1..Len(s) /\ l \in 0..s[f].visible
  /\ \A g \in 1..Len(s) : g < f => Settled(s, g)

SegmentsOf(s) ==
  /\ Len(s) <= MaxSegments
  /\ \A f \in 1..Len(s) :
       /\ Len(s[f].lines) <= MaxLines
       /\ s[f].visible <= Len(s[f].lines)
       /\ s[f].state = "open" => Len(s[f].lines) < MaxLines
       /\ s[f].state # "open" => s[f].visible = Len(s[f].lines)
Segments == SegmentsOf(seg)

\* The control state of the tailer: the plan has every file after the current
\* one, up to its last, that is not bad; the checkpoints that it was started
\* with are used once, by its first plan.
Control ==
  /\ tailer.pc \in {"read", "eof"} => tailer.plan # {}
  /\ tailer.pc \in {"plan", "flush", "down", "panicked"} => tailer.plan = {}
  /\ tailer.plan \subseteq 1..Len(seg)
  /\ \A f \in tailer.plan : f > tailer.last /\ f \notin tailer.bad
  /\ \A f \in tailer.plan : \A g \in 1..f : g < Cur \/ g \in tailer.plan \/ g \in tailer.bad
  /\ \/ \A c \in Consumers : tailer.from[c] = NoCheckpoint
     \/ tailer.pc = "plan" /\ tailer.last = 0 /\ tailer.bad = {} /\ tailer.from = checkpoint
        /\ \A c \in Consumers : out[c] = {}

\* Every position that the tailer or a checkpoint keeps has been written, and
\* a file it is done with will not change.
Marks ==
  /\ Reading => Written(seg, Cur, tailer.line) /\ \A c \in Consumers : Written(seg, Cur, tailer.skip[c])
  /\ tailer.last # 0 => Written(seg, tailer.last, tailer.lastLine) /\ seg[tailer.last].state = "done"
  /\ \A f \in tailer.bad : Spoilt(seg, f)
  /\ \A c \in Consumers : checkpoint[c] # NoCheckpoint => Written(seg, checkpoint[c][1], checkpoint[c][2])
  /\ \A c \in Consumers : \A b \in out[c] : Written(seg, b.at[1], b.at[2])

\* A tailer that does not run has nothing, and one that is gone has left nothing
\* behind.
Hands ==
  /\ ~Running => \A c \in Consumers : batch[c] = {}
  /\ tailer.pc = "down" => \A c \in Consumers : out[c] = {}

\* What a consumer has in its hands, and what has become of the rest.
Handed(c) == UNION {b.recs : b \in out[c]}
Taken(c) == AccountedFor(c) \cup Handed(c)
Kept(c) == Taken(c) \cup batch[c]

\* Every readable line up to line l of file f is in S; or every line of f.
Covered(s, f, l, S) ==
  \A g, k \in Nat : Rd(s, g, k) /\ (g < f \/ (g = f /\ k <= l)) => <<g, k>> \in S
FileCovered(s, f, S) == \A k \in Nat : Rd(s, f, k) => <<f, k>> \in S

\* What is before the tailer, in a file it is done with, or before the place
\* at which it will start, has been handed out, refused or passed over, or it
\* is in a batch.
CoverageOf(c) ==
  /\ Reading => Covered(seg, Cur, tailer.line, Kept(c)) /\ Covered(seg, Cur, tailer.skip[c], Kept(c))
  /\ \A f \in 1..tailer.last : FileCovered(seg, f, Kept(c))
  /\ \A f \in tailer.bad : FileCovered(seg, f, Kept(c))
  /\ Existing(tailer.from) # {} =>
       Covered(seg, Earliest(Existing(tailer.from))[1], Earliest(Existing(tailer.from))[2], AccountedFor(c))
  /\ \A b \in out[c] : Covered(seg, b.at[1], b.at[2], Taken(c))
  /\ checkpoint[c] # NoCheckpoint => Covered(seg, checkpoint[c][1], checkpoint[c][2], AccountedFor(c))
Coverage == \A c \in Consumers : CoverageOf(c)

\* What this run has collected or handed out is of a file it will not look at
\* again, or of the part of the current file that it has read.
Once ==
  Running => \A c \in Consumers : \A r \in batch[c] \cup handed[c] :
    \/ r[1] \in tailer.bad
    \/ r[1] <= tailer.last
    \/ tailer.plan # {} /\ r[1] = Cur /\ r[2] <= tailer.line

TailIInv == TailTypeOK /\ Segments /\ Control /\ Marks /\ Hands /\ Coverage /\ Once
-----------------------------------------------------------------------------
(* Smallest members, and what they say of plans and checkpoints.           *)

\* A set of naturals that is bounded has a smallest member, as a set of sets
\* has a minimal one.
LEMMA SmallestMember ==
  ASSUME NEW n \in Nat, NEW S \in SUBSET (0..n), S # {}
  PROVE  \E x \in S : \A y \in S : x <= y
<1> DEFINE T == {0..x : x \in S}
<1>1. T \in SUBSET (SUBSET (0..n)) /\ T # {}
  <2>1. \A x \in S : 0..x \in SUBSET (0..n)
    OBVIOUS
  <2> QED
    BY <2>1
<1>2. IsFiniteSet(0..n)
  BY FS_Interval
<1>3. IsWellFoundedOn(StrictSubsetOrdering(0..n), SUBSET (0..n))
  BY <1>2, FS_StrictSubsetOrderingWellFounded, FS_FiniteSubsetsOfFinite
<1>4. PICK s \in T : \A t \in T : ~(<<t, s>> \in StrictSubsetOrdering(0..n))
  <2> HIDE DEF T
  <2> QED
    BY <1>1, <1>3, WFMin
<1>5. PICK x \in S : s = 0..x
  OBVIOUS
<1>6. ASSUME NEW y \in S PROVE x <= y
  <2> SUFFICES ASSUME y < x PROVE FALSE
    OBVIOUS
  <2>1. 0..y \in T /\ 0..y \subseteq 0..x /\ 0..y # 0..x
    OBVIOUS
  <2> QED
    BY <1>1, <1>4, <1>5, <2>1 DEF StrictSubsetOrdering
<1> QED
  BY <1>6

LEMMA MinOf ==
  ASSUME NEW n \in Nat, NEW S \in SUBSET (0..n), S # {}
  PROVE  Min(S) \in S /\ \A y \in S : Min(S) <= y
BY SmallestMember DEF Min

\* The current file is the first of the plan.
LEMMA CurFirst ==
  ASSUME TailTypeOK, tailer.plan # {}
  PROVE  Cur \in tailer.plan /\ Cur \in Nat /\ \A f \in tailer.plan : Cur <= f
<1>1. tailer.plan \in SUBSET (0..MaxSegments) /\ MaxSegments \in Nat
  BY LogAssumption DEF TailTypeOK
<1>2. Min(tailer.plan) \in tailer.plan /\ \A f \in tailer.plan : Min(tailer.plan) <= f
  BY <1>1, MinOf
<1> QED
  BY <1>1, <1>2 DEF Cur

\* Among positions there is an earliest one.
LEMMA EarliestOf ==
  ASSUME NEW S \in SUBSET Positions, S # {}
  PROVE  Earliest(S) \in S /\ \A q \in S : AtOrBefore(Earliest(S), q)
<1> DEFINE F == {p[1] : p \in S}
<1>1. F \in SUBSET (0..MaxSegments) /\ F # {} /\ MaxSegments \in Nat /\ MaxLines \in Nat
  BY LogAssumption DEF Positions
<1>2. PICK f \in F : \A g \in F : f <= g
  BY <1>1, SmallestMember
<1> DEFINE L == {p[2] : p \in {q \in S : q[1] = f}}
<1>3. L \in SUBSET (0..MaxLines) /\ L # {}
  BY <1>2 DEF Positions
<1>4. PICK l \in L : \A k \in L : l <= k
  BY <1>1, <1>3, SmallestMember
<1>5. PICK p \in S : p[1] = f /\ p[2] = l
  BY <1>4
<1>6. ASSUME NEW q \in S PROVE AtOrBefore(p, q)
  <2>1. p = <<p[1], p[2]>> /\ q = <<q[1], q[2]>> /\ {p[1], p[2], q[1], q[2]} \subseteq Nat
    BY <1>1 DEF Positions
  <2>2. p[1] <= q[1] /\ (q[1] = p[1] => p[2] <= q[2])
    BY <1>2, <1>4, <1>5
  <2> QED
    BY <2>1, <2>2 DEF AtOrBefore, Before
<1> QED
  BY <1>6 DEF Earliest
-----------------------------------------------------------------------------
(* The producer.                                                           *)

Segment == [lines : Seq(Kinds), visible : 0..MaxLines,
            state : {"open", "closed", "done"}]

\* What the producer does to the log: what is readable stays as it is, and a
\* segment may get more of it unless it is done.
GrowsTo(s, t) ==
  /\ Len(t) >= Len(s)
  /\ \A f \in 1..Len(s) :
       /\ t[f].visible >= s[f].visible
       /\ \A l \in 1..s[f].visible : t[f].lines[l] = s[f].lines[l]
       /\ s[f].state = "done" => t[f] = s[f]
Grows == GrowsTo(seg, seg')

\* A segment as the producer leaves it, and what may come after it.
Fine(new) ==
  /\ new \in Segment /\ new.visible <= Len(new.lines) /\ Len(new.lines) <= MaxLines
  /\ new.state = "open" => Len(new.lines) < MaxLines
  /\ new.state # "open" => new.visible = Len(new.lines)
Follows(new, old) ==
  /\ new.visible >= old.visible
  /\ \A l \in 1..old.visible : new.lines[l] = old.lines[l]
  /\ old.state = "done" => new = old

LEMMA Changed ==
  ASSUME NEW s \in Seq(Segment), SegmentsOf(s), NEW t \in Seq(Segment), Len(t) >= Len(s), Len(t) <= MaxSegments,
         \A f \in 1..Len(t) : Fine(t[f]),
         \A f \in 1..Len(s) : Follows(t[f], s[f])
  PROVE  SegmentsOf(t) /\ GrowsTo(s, t)
<1>1. SegmentsOf(t)
  BY DEF SegmentsOf, Fine
<1>2. GrowsTo(s, t)
  BY DEF GrowsTo, Follows
<1> QED
  BY <1>1, <1>2

\* Every segment is as the producer leaves it.
LEMMA FineBefore ==
  ASSUME NEW s \in Seq(Segment), SegmentsOf(s), NEW f \in 1..Len(s)
  PROVE  Fine(s[f]) /\ Follows(s[f], s[f])
<1>1. s[f] \in Segment
  BY ElementOfSeq, LenProperties
<1>2. s[f].visible \in 0..MaxLines
  BY <1>1 DEF Segment
<1> QED
  BY <1>1, <1>2, LogAssumption DEF SegmentsOf, Fine, Follows

\* A step that replaces segment n by new.
LEMMA Replaced ==
  ASSUME NEW s \in Seq(Segment), SegmentsOf(s), NEW n \in 1..Len(s),
         NEW new, Fine(new), Follows(new, s[n]), NEW t, t = [s EXCEPT ![n] = new]
  PROVE  t \in Seq(Segment) /\ SegmentsOf(t) /\ GrowsTo(s, t)
<1>1. DOMAIN s = 1..Len(s) /\ Len(s) \in Nat /\ new \in Segment
  BY LenProperties DEF Fine
<1>2. t \in Seq(Segment) /\ Len(t) = Len(s)
  BY <1>1, ExceptSeq
<1>3. t[n] = new /\ \A f \in 1..Len(s) : f # n => t[f] = s[f]
  BY <1>1
<1>4. \A f \in 1..Len(s) : Fine(t[f]) /\ Follows(t[f], s[f])
  <2> SUFFICES ASSUME NEW f \in 1..Len(s) PROVE Fine(t[f]) /\ Follows(t[f], s[f])
    OBVIOUS
  <2>1. CASE f = n
    BY <1>3, <2>1
  <2>2. CASE f # n
    BY <1>3, <2>2, FineBefore
  <2> QED
    BY <2>1, <2>2
<1>5. Len(t) >= Len(s) /\ Len(t) <= MaxSegments
  BY <1>1, <1>2 DEF SegmentsOf
<1> QED
  BY <1>2, <1>4, <1>5, Changed

LEMMA SegmentAt ==
  ASSUME TailTypeOK
  PROVE  /\ seg \in Seq(Segment) /\ Len(seg) \in Nat /\ DOMAIN seg = 1..Len(seg)
         /\ \A f \in 1..Len(seg) :
              /\ seg[f] \in Segment /\ seg[f].lines \in Seq(Kinds) /\ Len(seg[f].lines) \in Nat
              /\ seg[f].visible \in 0..MaxLines
              /\ seg[f].state \in {"open", "closed", "done"}
<1>1. seg \in Seq(Segment)
  BY DEF TailTypeOK, Segment
<1>2. Len(seg) \in Nat /\ DOMAIN seg = 1..Len(seg)
  BY <1>1, LenProperties
<1>3. \A f \in 1..Len(seg) : seg[f] \in Segment
  BY <1>1, ElementOfSeq
<1>4. \A f \in 1..Len(seg) : seg[f].lines \in Seq(Kinds)
  BY <1>3 DEF Segment
<1> QED
  BY <1>1, <1>2, <1>3, <1>4, LenProperties DEF Segment

\* A step that adds the segment new.
LEMMA Added ==
  ASSUME NEW s \in Seq(Segment), SegmentsOf(s), Len(s) < MaxSegments,
         NEW new, Fine(new), NEW t, t = Append(s, new)
  PROVE  t \in Seq(Segment) /\ SegmentsOf(t) /\ GrowsTo(s, t)
<1>1. PICK n \in Nat : n = Len(s)
  BY LenProperties
<1>2. t \in Seq(Segment) /\ Len(t) = n + 1 /\ t[n + 1] = new /\ \A f \in 1..n : t[f] = s[f]
  BY <1>1, AppendProperties DEF Fine
<1>3. \A f \in 1..n : Fine(t[f]) /\ Follows(t[f], s[f])
  BY <1>1, <1>2, FineBefore
<1>4. \A f \in 1..Len(t) : Fine(t[f])
  <2> SUFFICES ASSUME NEW f \in 1..(n + 1) PROVE Fine(t[f])
    BY <1>2
  <2>1. CASE f = n + 1
    BY <1>2, <2>1
  <2>2. CASE f # n + 1
    BY <1>1, <1>3, <2>2
  <2> QED
    BY <2>1, <2>2
<1>5. Len(t) >= Len(s) /\ Len(t) <= MaxSegments
  BY <1>1, <1>2, LogAssumption
<1> QED
  BY <1>1, <1>2, <1>3, <1>4, <1>5, Changed

\* A line makes one segment of another.
LEMMA LineAdded ==
  ASSUME NEW s, s.lines \in Seq(Kinds), Len(s.lines) < MaxLines, s.visible \in Nat, s.visible <= Len(s.lines),
         s.state = "open", NEW k \in Kinds
  PROVE  Fine(WithLine(s, k)) /\ Follows(WithLine(s, k), s)
<1>1. PICK ls : ls = Append(s.lines, k)
  OBVIOUS
<1>2. /\ ls \in Seq(Kinds) /\ Len(s.lines) \in Nat /\ Len(ls) = Len(s.lines) + 1
      /\ \A l \in 1..Len(s.lines) : ls[l] = s.lines[l]
  BY <1>1, AppendProperties, LenProperties
<1>3. PICK new : new = WithLine(s, k)
  OBVIOUS
<1>4. new = [lines |-> ls, visible |-> IF Len(ls) >= MaxLines THEN Len(ls) ELSE s.visible,
             state |-> IF Len(ls) >= MaxLines THEN "closed" ELSE "open"]
  BY <1>1, <1>3 DEF WithLine
<1>5. /\ new.lines = ls /\ new.visible \in 0..MaxLines /\ new.state \in {"open", "closed", "done"}
      /\ new.visible <= Len(ls) /\ Len(ls) <= MaxLines /\ new.visible >= s.visible
      /\ new.state = "open" => Len(ls) < MaxLines
      /\ new.state # "open" => new.visible = Len(ls)
  BY <1>2, <1>4, LogAssumption
<1>6. new \in Segment
  BY <1>2, <1>4, <1>5 DEF Segment
<1>7. \A l \in 1..s.visible : new.lines[l] = s.lines[l]
  BY <1>2, <1>5
<1> QED
  BY <1>3, <1>5, <1>6, <1>7 DEF Fine, Follows

LEMMA WriteLineGrows ==
  ASSUME TailTypeOK, Segments, NEW k \in Kinds, WriteLine(k)
  PROVE  seg' \in Seq(Segment) /\ Segments' /\ Grows
<1>1. seg \in Seq(Segment) /\ SegmentsOf(seg)
  BY SegmentAt DEF Segments
<1>2. CASE \E f \in OpenSegs : seg' = [seg EXCEPT ![f] = WithLine(seg[f], k)]
  <2>1. PICK f \in OpenSegs : seg' = [seg EXCEPT ![f] = WithLine(seg[f], k)]
    BY <1>2
  <2>2. f \in 1..Len(seg) /\ seg[f].state = "open"
    BY DEF OpenSegs, Last
  <2>3. /\ seg[f].lines \in Seq(Kinds) /\ seg[f].visible \in Nat
        /\ Len(seg[f].lines) < MaxLines /\ seg[f].visible <= Len(seg[f].lines)
    BY <1>1, <2>2, SegmentAt DEF SegmentsOf
  <2>4. Fine(WithLine(seg[f], k)) /\ Follows(WithLine(seg[f], k), seg[f])
    BY <2>2, <2>3, LineAdded
  <2> QED
    BY <1>1, <2>1, <2>2, <2>4, Replaced DEF Segments, Grows
<1>3. CASE /\ Last < MaxSegments
           /\ seg' = Append(seg, WithLine([lines |-> <<>>, visible |-> 0, state |-> "open"], k))
  <2>1. PICK s : s = [lines |-> <<>>, visible |-> 0, state |-> "open"]
    OBVIOUS
  <2>2. /\ s.lines \in Seq(Kinds) /\ Len(s.lines) = 0 /\ s.visible = 0 /\ s.state = "open"
        /\ Len(s.lines) < MaxLines
    BY <2>1, LogAssumption
  <2>3. Fine(WithLine(s, k))
    BY <2>2, LineAdded
  <2> QED
    BY <1>1, <1>3, <2>1, <2>3, Added DEF Segments, Grows, Last
<1> QED
  BY <1>2, <1>3 DEF WriteLine

LEMMA OtherProducerGrows ==
  ASSUME TailTypeOK, Segments, NEW f \in 1..Last, Flush(f) \/ Finish(f) \/ MarkDone(f)
  PROVE  seg' \in Seq(Segment) /\ Segments' /\ Grows
<1>1. seg \in Seq(Segment) /\ SegmentsOf(seg) /\ f \in 1..Len(seg)
  BY SegmentAt DEF Segments, Last
<1>2. PICK s : s = seg[f]
  OBVIOUS
<1>3. /\ s \in Segment /\ s.lines \in Seq(Kinds) /\ Len(s.lines) \in Nat /\ s.visible \in 0..MaxLines
      /\ s.visible <= Len(s.lines) /\ Len(s.lines) <= MaxLines
      /\ s.state = "open" => Len(s.lines) < MaxLines
      /\ s.state # "open" => s.visible = Len(s.lines)
  BY <1>1, <1>2, SegmentAt DEF SegmentsOf
<1>4. ASSUME NEW v, NEW st, seg' = [seg EXCEPT ![f] = [lines |-> s.lines, visible |-> v, state |-> st]],
             v \in {s.visible, Len(s.lines)}, st \in {"open", "closed", "done"}, s.state # "done",
             st = "open" => s.state = "open",
             st # "open" => v = Len(s.lines)
      PROVE  seg' \in Seq(Segment) /\ Segments' /\ Grows
  <2>1. PICK new : new = [lines |-> s.lines, visible |-> v, state |-> st]
    OBVIOUS
  <2>2. new.lines = s.lines /\ new.visible = v /\ new.state = st
    BY <2>1
  <2>3. v \in 0..MaxLines /\ v >= s.visible /\ v <= Len(s.lines)
    BY <1>3, <1>4, LogAssumption
  <2>4. new \in Segment
    BY <1>3, <1>4, <2>1, <2>3 DEF Segment
  <2>5. Fine(new) /\ Follows(new, s)
    BY <1>3, <1>4, <2>2, <2>3, <2>4 DEF Fine, Follows
  <2> QED
    BY <1>1, <1>2, <1>4, <2>1, <2>5, Replaced DEF Segments, Grows
<1>5. CASE Flush(f)
  <2>1. s.state = "open" /\ seg' = [seg EXCEPT ![f] = [s EXCEPT !.visible = Len(s.lines)]]
    BY <1>1, <1>2, <1>5 DEF Flush, OpenSegs
  <2>2. [s EXCEPT !.visible = Len(s.lines)] = [lines |-> s.lines, visible |-> Len(s.lines), state |-> "open"]
    BY <1>3, <2>1 DEF Segment
  <2> QED
    BY <1>4, <2>1, <2>2
<1>6. CASE Finish(f)
  <2>1. s.state = "open" /\ seg' = [seg EXCEPT ![f] = [s EXCEPT !.visible = Len(s.lines), !.state = "closed"]]
    BY <1>1, <1>2, <1>6 DEF Finish, OpenSegs
  <2>2. PICK new : new = [s EXCEPT !.visible = Len(s.lines), !.state = "closed"]
    OBVIOUS
  <2>3. new = [lines |-> s.lines, visible |-> Len(s.lines), state |-> "closed"]
    BY <1>3, <2>2 DEF Segment
  <2> QED
    BY <1>4, <2>1, <2>2, <2>3
<1>7. CASE MarkDone(f)
  <2>1. s.state = "closed" /\ seg' = [seg EXCEPT ![f] = [s EXCEPT !.state = "done"]]
    BY <1>1, <1>2, <1>7 DEF MarkDone
  <2>2. [s EXCEPT !.state = "done"] = [lines |-> s.lines, visible |-> s.visible, state |-> "done"]
    BY <1>3 DEF Segment
  <2>3. s.visible = Len(s.lines)
    BY <1>3, <2>1
  <2> QED
    BY <1>4, <2>1, <2>2, <2>3
<1> QED
  BY <1>5, <1>6, <1>7

LEMMA CrashGrows ==
  ASSUME TailTypeOK, Segments, ProducerCrash
  PROVE  seg' \in Seq(Segment) /\ Segments' /\ Grows
<1>1. seg \in Seq(Segment) /\ SegmentsOf(seg) /\ Last = Len(seg) /\ Last \in Nat
  BY SegmentAt DEF Segments, Last
<1> DEFINE Cut(f) == IF f \in OpenSegs
                     THEN [seg[f] EXCEPT !.lines = SubSeq(@, 1, seg[f].visible), !.state = "closed"] ELSE seg[f]
<1>2. seg' = [f \in 1..Last |-> Cut(f)]
  BY DEF ProducerCrash
<1>3. ASSUME NEW f \in 1..Last PROVE Fine(Cut(f)) /\ Follows(Cut(f), seg[f])
  <2>1. CASE f \notin OpenSegs
    BY <1>1, <2>1, FineBefore
  <2>2. CASE f \in OpenSegs
    <3>1. PICK s : s = seg[f]
      OBVIOUS
    <3>2. /\ s \in Segment /\ s.lines \in Seq(Kinds) /\ Len(s.lines) \in Nat /\ s.visible \in 0..MaxLines
          /\ s.visible \in Nat /\ s.visible <= Len(s.lines) /\ s.state = "open"
      BY <1>1, <2>2, <3>1, SegmentAt, LogAssumption DEF SegmentsOf, OpenSegs
    <3>3. PICK ls : ls = SubSeq(s.lines, 1, s.visible)
      OBVIOUS
    <3>4. ls \in Seq(Kinds) /\ Len(ls) = s.visible /\ \A l \in 1..s.visible : ls[l] = s.lines[l]
      BY <3>2, <3>3, SubSeqProperties
    <3>5. PICK new : new = Cut(f)
      OBVIOUS
    <3>6. new = [s EXCEPT !.lines = ls, !.state = "closed"]
      BY <2>2, <3>1, <3>3, <3>5
    <3>7. new = [lines |-> ls, visible |-> s.visible, state |-> "closed"]
      BY <3>2, <3>6 DEF Segment
    <3>8. new.lines = ls /\ new.visible = s.visible /\ new.state = "closed"
      BY <3>7
    <3>9. new \in Segment
      BY <3>2, <3>4, <3>7 DEF Segment
    <3>10. Fine(new)
      BY <3>2, <3>4, <3>8, <3>9, LogAssumption DEF Fine
    <3>11. Follows(new, s)
      BY <3>2, <3>4, <3>8 DEF Follows
    <3> QED
      BY <3>1, <3>5, <3>10, <3>11
  <2> QED
    BY <2>1, <2>2
<1>4. \A f \in 1..Last : Cut(f) \in Segment
  BY <1>3 DEF Fine
<1> HIDE DEF Cut
<1>5. seg' \in Seq(Segment) /\ Len(seg') = Len(seg) /\ \A f \in 1..Len(seg) : seg'[f] = Cut(f)
  <2>1. seg' \in [1..Last -> Segment]
    BY <1>2, <1>4
  <2>2. seg' \in Seq(Segment)
    BY <1>1, <2>1
  <2>3. DOMAIN seg' = 1..Last
    BY <1>2
  <2>4. Len(seg') \in Nat /\ DOMAIN seg' = 1..Len(seg')
    BY <2>2, LenProperties
  <2> QED
    BY <1>1, <1>2, <2>2, <2>3, <2>4
<1>6. Len(seg) <= MaxSegments
  BY <1>1 DEF SegmentsOf
<1>7. /\ \A f \in 1..Len(seg') : Fine(seg'[f])
      /\ \A f \in 1..Len(seg) : Follows(seg'[f], seg[f])
  BY <1>1, <1>3, <1>5
<1> QED
  BY <1>1, <1>5, <1>6, <1>7, Changed DEF Segments, Grows

LEMMA SegmentIn ==
  ASSUME NEW s \in Seq(Segment), NEW f \in 1..Len(s)
  PROVE  s[f] \in Segment /\ s[f].visible \in Nat /\ Len(s) \in Nat
<1>1. s[f] \in Segment /\ Len(s) \in Nat
  BY ElementOfSeq, LenProperties
<1>2. s[f].visible \in 0..MaxLines
  BY <1>1 DEF Segment
<1> QED
  BY <1>1, <1>2

\* What becomes readable is new: it is after what was readable of a file that is
\* neither done nor spoilt.
LEMMA RdBack ==
  ASSUME NEW s \in Seq(Segment), NEW t, GrowsTo(s, t),
         NEW g \in 1..Len(s), NEW k \in Nat, Rd(t, g, k),
         k <= s[g].visible \/ Settled(s, g)
  PROVE  Rd(s, g, k)
<1>1. s[g].visible \in Nat /\ Len(s) \in Nat
  BY SegmentIn
<1>2. CASE s[g].state = "done"
  BY <1>1, <1>2 DEF GrowsTo, Rd
<1>3. CASE k <= s[g].visible
  BY <1>1, <1>3 DEF GrowsTo, Rd
<1>4. CASE Spoilt(s, g)
  <2>1. PICK l \in 1..s[g].visible : s[g].lines[l] = "junk"
    BY <1>4 DEF Spoilt
  <2>2. t[g].lines[l] = "junk"
    BY <2>1 DEF GrowsTo
  <2>3. k < l
    BY <1>1, <2>1, <2>2 DEF Rd
  <2> QED
    BY <1>1, <1>3, <2>1, <2>3
<1> QED
  BY <1>2, <1>3, <1>4 DEF Settled

LEMMA SettledStays ==
  ASSUME NEW s \in Seq(Segment), NEW t \in Seq(Segment), GrowsTo(s, t), NEW f, Settled(s, f)
  PROVE  /\ Settled(t, f) /\ f \in 1..Len(s) /\ f \in 1..Len(t)
         /\ s[f].state = "done" => t[f] = s[f]
         /\ Spoilt(s, f) => Spoilt(t, f)
<1>1. f \in 1..Len(s) /\ Len(s) \in Nat /\ Len(t) \in Nat
  BY LenProperties DEF Settled
<1>2. f \in 1..Len(t)
  BY <1>1 DEF GrowsTo
<1>3. s[f].state = "done" => t[f] = s[f]
  BY <1>1 DEF GrowsTo
<1>4. ASSUME Spoilt(s, f) PROVE Spoilt(t, f)
  <2>1. PICK l \in 1..s[f].visible : s[f].lines[l] = "junk"
    BY <1>4 DEF Spoilt
  <2>2. s[f].visible \in Nat /\ t[f].visible \in Nat
    BY <1>1, <1>2, SegmentIn
  <2>3. t[f].visible >= s[f].visible /\ t[f].lines[l] = "junk"
    BY <1>1, <2>1 DEF GrowsTo
  <2> QED
    BY <1>2, <2>1, <2>2, <2>3 DEF Spoilt
<1> QED
  BY <1>1, <1>2, <1>3, <1>4 DEF Settled

LEMMA WrittenStays ==
  ASSUME NEW s \in Seq(Segment), NEW t \in Seq(Segment), GrowsTo(s, t), NEW f, NEW l, Written(s, f, l)
  PROVE  Written(t, f, l)
<1>1. f \in 1..Len(s) /\ l \in 0..s[f].visible /\ Len(s) \in Nat /\ Len(t) \in Nat /\ Len(s) <= Len(t)
  BY LenProperties DEF Written, GrowsTo
<1>2. f \in 1..Len(t)
  BY <1>1
<1>3. s[f].visible \in Nat /\ t[f].visible \in Nat /\ t[f].visible >= s[f].visible
  BY <1>1, <1>2, SegmentIn DEF GrowsTo
<1>4. ASSUME NEW g \in 1..Len(t), g < f PROVE Settled(t, g)
  <2>1. Settled(s, g)
    BY <1>1, <1>4 DEF Written
  <2> QED
    BY <2>1, SettledStays
<1> QED
  BY <1>1, <1>2, <1>3, <1>4 DEF Written

LEMMA CoveredStays ==
  ASSUME NEW s \in Seq(Segment), NEW t, GrowsTo(s, t), NEW f, NEW l, Written(s, f, l), NEW S, Covered(s, f, l, S)
  PROVE  Covered(t, f, l, S)
<1>1. s[f].visible \in Nat /\ Len(s) \in Nat /\ f \in 1..Len(s) /\ l \in Nat /\ l <= s[f].visible
  <2>1. f \in 1..Len(s) /\ l \in 0..s[f].visible
    BY DEF Written
  <2> QED
    BY <2>1, SegmentIn
<1>2. ASSUME NEW g \in Nat, NEW k \in Nat, Rd(t, g, k), g < f \/ (g = f /\ k <= l)
      PROVE  Rd(s, g, k)
  <2>1. g \in 1..Len(s)
    BY <1>1, <1>2 DEF Rd
  <2>2. g < f => Settled(s, g)
    BY <2>1 DEF Written
  <2>3. Settled(s, g) \/ k <= s[g].visible
    BY <1>1, <1>2, <2>2
  <2> QED
    BY <1>2, <2>1, <2>3, RdBack
<1> QED
  BY <1>2 DEF Covered

LEMMA FileCoveredStays ==
  ASSUME NEW s \in Seq(Segment), NEW t, GrowsTo(s, t), NEW f \in 1..Len(s), NEW S, FileCovered(s, f, S),
         Settled(s, f)
  PROVE  FileCovered(t, f, S)
BY RdBack DEF FileCovered

\* The types of the parts of the state.
TailerSet ==
  [pc : {"down", "plan", "read", "eof", "flush", "yielded", "panicked"},
   plan : SUBSET (1..MaxSegments), line : 0..MaxLines, eof : BOOLEAN,
   skip : [Consumers -> 0..MaxLines], last : 0..MaxSegments,
   lastLine : 0..MaxLines, bad : SUBSET (1..MaxSegments),
   from : [Consumers -> Checkpoints]]

LEMMA TailerType ==
  ASSUME TailTypeOK
  PROVE  /\ tailer \in TailerSet
         /\ tailer.pc \in {"down", "plan", "read", "eof", "flush", "yielded", "panicked"}
         /\ tailer.plan \in SUBSET (1..MaxSegments) /\ tailer.line \in Nat /\ tailer.last \in Nat /\ tailer.eof \in BOOLEAN
         /\ tailer.lastLine \in Nat /\ tailer.bad \in SUBSET (1..MaxSegments)
         /\ tailer.line \in 0..MaxLines /\ tailer.last \in 0..MaxSegments /\ tailer.lastLine \in 0..MaxLines
         /\ tailer.skip \in [Consumers -> 0..MaxLines] /\ tailer.from \in [Consumers -> Checkpoints]
<1>1. tailer \in TailerSet
  BY DEF TailTypeOK, TailerSet
<1> QED
  BY <1>1, LogAssumption DEF TailerSet

\* The producer disturbs nothing that the tailer or a consumer relies on.
LEMMA ProducerKeeps ==
  ASSUME TailIInv, seg' \in Seq(Segment), Segments', Grows, crashes' \in 0..MaxCrashes,
         UNCHANGED <<checkpoint, tailer, batch, out, history>>
  PROVE  TailIInv'
<1> USE DEF history
<1>1. TailTypeOK /\ Segments /\ Control /\ Marks /\ Hands /\ Coverage /\ Once
  BY DEF TailIInv
<1>2. TailTypeOK'
  BY <1>1 DEF TailTypeOK, Segment
<1>3. seg \in Seq(Segment) /\ GrowsTo(seg, seg') /\ Len(seg) \in Nat /\ Len(seg') \in Nat /\ Len(seg) <= Len(seg')
  <2>1. seg \in Seq(Segment) /\ GrowsTo(seg, seg')
    BY <1>1, SegmentAt DEF Grows
  <2> QED
    BY <2>1, LenProperties DEF GrowsTo
<1>4. \A f, l : Written(seg, f, l) => Written(seg', f, l)
  BY <1>3, WrittenStays
<1>5. \A f, l, S : Written(seg, f, l) /\ Covered(seg, f, l, S) => Covered(seg', f, l, S)
  BY <1>3, CoveredStays
<1>6. \A f \in tailer.bad : Settled(seg, f) /\ Spoilt(seg', f)
  <2>1. \A f \in tailer.bad : Spoilt(seg, f) /\ Settled(seg, f)
    BY <1>1 DEF Marks, Settled, Spoilt
  <2> QED
    BY <1>3, <2>1, SettledStays
<1>7. \A f \in 1..tailer.last : Settled(seg, f)
  <2>1. tailer.last \in Nat /\ Len(seg) \in Nat
    BY <1>1, <1>3, TailerType
  <2> QED
    BY <1>1, <2>1 DEF Marks, Written, Settled
<1>8. Control'
  BY <1>1, <1>3 DEF Control, Cur
<1>9. Marks'
  <2>1. tailer.last # 0 => seg'[tailer.last] = seg[tailer.last]
    <3>1. tailer.last # 0 => tailer.last \in 1..Len(seg) /\ seg[tailer.last].state = "done"
      BY <1>1 DEF Marks, Written
    <3> QED
      BY <1>3, <3>1 DEF GrowsTo
  <2> QED
    BY <1>1, <1>4, <1>6, <2>1 DEF Marks, Cur, Reading
<1>10. Hands'
  BY <1>1 DEF Hands, Running
<1>11. Coverage'
  <2> SUFFICES ASSUME NEW c \in Consumers PROVE CoverageOf(c)'
    BY DEF Coverage
  <2>1. /\ CoverageOf(c) /\ Kept(c)' = Kept(c) /\ Taken(c)' = Taken(c)
        /\ AccountedFor(c)' = AccountedFor(c)
    BY <1>1 DEF Coverage, Kept, Taken, Handed, AccountedFor
  <2>2. \A f \in 1..tailer.last : FileCovered(seg', f, Kept(c))
    BY <1>3, <1>7, <2>1, FileCoveredStays DEF CoverageOf, Settled
  <2>3. \A f \in tailer.bad : FileCovered(seg', f, Kept(c))
    <3>1. \A f \in tailer.bad : f \in 1..Len(seg)
      BY <1>6 DEF Settled
    <3> QED
      BY <1>3, <1>6, <2>1, <3>1, FileCoveredStays DEF CoverageOf
  <2>4. Existing(tailer.from) # {} =>
          LET e == Earliest(Existing(tailer.from)) IN Covered(seg', e[1], e[2], AccountedFor(c))
    <3> SUFFICES ASSUME Existing(tailer.from) # {}
                 PROVE  LET e == Earliest(Existing(tailer.from)) IN Covered(seg', e[1], e[2], AccountedFor(c))
      OBVIOUS
    <3>1. Existing(tailer.from) \in SUBSET Positions
      BY <1>1, TailerType DEF Existing, Checkpoints
    <3>2. PICK e \in Existing(tailer.from) : e = Earliest(Existing(tailer.from))
      BY <3>1, EarliestOf
    <3>3. tailer.from = checkpoint
      BY <1>1 DEF Control, Existing
    <3>4. Written(seg, e[1], e[2])
      BY <1>1, <3>2, <3>3 DEF Existing, Marks
    <3> QED
      BY <1>5, <2>1, <3>2, <3>4 DEF CoverageOf
  <2>5. Reading => Covered(seg', Cur, tailer.line, Kept(c)) /\ Covered(seg', Cur, tailer.skip[c], Kept(c))
    BY <1>1, <1>5, <2>1 DEF CoverageOf, Marks
  <2>6. /\ \A b \in out[c] : Covered(seg', b.at[1], b.at[2], Taken(c))
        /\ checkpoint[c] # NoCheckpoint => Covered(seg', checkpoint[c][1], checkpoint[c][2], AccountedFor(c))
    BY <1>1, <1>5, <2>1 DEF CoverageOf, Marks
  <2> QED
    BY <2>1, <2>2, <2>3, <2>4, <2>5, <2>6 DEF CoverageOf, Reading, Cur
<1>12. Once'
  BY <1>1 DEF Once, Running, Cur
<1> QED
  BY <1>2, <1>8, <1>9, <1>10, <1>11, <1>12 DEF TailIInv
-----------------------------------------------------------------------------
(* The tailer.                                                             *)

\* Less of the log is covered by more.
LEMMA CoveredMono ==
  ASSUME NEW s, NEW f \in Nat, NEW l \in Nat, NEW S, Covered(s, f, l, S),
         NEW f2 \in Nat, NEW l2 \in Nat, f2 < f \/ (f2 = f /\ l2 <= l), NEW T, S \subseteq T
  PROVE  Covered(s, f2, l2, T)
BY DEF Covered

LEMMA FileCoveredMono ==
  ASSUME NEW s, NEW f, NEW S, FileCovered(s, f, S), NEW T, S \subseteq T
  PROVE  FileCovered(s, f, T)
BY DEF FileCovered

\* The parts of the invariant, and what follows from its control part.
LEMMA Parts ==
  ASSUME TailIInv
  PROVE  /\ TailTypeOK /\ Segments /\ Control /\ Marks /\ Hands /\ Coverage /\ Once
         /\ tailer.pc # "plan" => Existing(tailer.from) = {} /\ \A c \in Consumers : tailer.from[c] = NoCheckpoint
BY DEF TailIInv, Control, Existing

\* What a consumer has, or has done with, is of more kinds when the step adds to
\* some of them.
LEMMA OnlyMore ==
  ASSUME NEW c \in Consumers, Coverage,
         UNCHANGED <<seg, checkpoint>>, AccountedFor(c) \subseteq AccountedFor(c)', Taken(c) \subseteq Taken(c)'
  PROVE  /\ \A b \in out[c] : Covered(seg', b.at[1], b.at[2], Taken(c)')
         /\ checkpoint'[c] # NoCheckpoint =>
              Covered(seg', checkpoint'[c][1], checkpoint'[c][2], AccountedFor(c)')
<1>1. CoverageOf(c)
  BY DEF Coverage
<1> QED
  BY <1>1 DEF CoverageOf, Covered

\* A checkpoint that exists is a position: a file and a line.
LEMMA Positioned ==
  ASSUME NEW p \in Checkpoints, p # NoCheckpoint
  PROVE  p \in Positions /\ p[1] \in Nat /\ p[2] \in Nat /\ p = <<p[1], p[2]>>
         /\ p[1] \in 0..MaxSegments /\ p[2] \in 0..MaxLines
BY LogAssumption DEF Checkpoints, Positions

LEMMA PositionSet ==
  ASSUME NEW p \in Positions
  PROVE  p # NoCheckpoint
<1>1. p \in Nat \X Nat
  BY LogAssumption DEF Positions
<1> QED
  BY <1>1, LogAssumption

LEMMA StartKeeps ==
  ASSUME TailIInv, Start
  PROVE  TailIInv'
<1>1. /\ TailTypeOK /\ Segments /\ Control /\ Marks /\ Hands /\ Coverage /\ Once
      /\ \A c \in Consumers : out[c] = {}
  BY Parts DEF Start, Hands
<1>2. tailer' = [pc |-> "plan", plan |-> {}, line |-> 0, eof |-> FALSE, skip |-> [c \in Consumers |-> 0], last |-> 0,
                 lastLine |-> 0, bad |-> {}, from |-> checkpoint]
  BY DEF Start, Down
<1>3. tailer' \in TailerSet
  BY <1>1, <1>2, LogAssumption DEF TailerSet, TailTypeOK
<1>4. Existing(checkpoint) \in SUBSET Positions
  BY <1>1 DEF TailTypeOK, Existing, Checkpoints
<1>5. /\ UNCHANGED <<seg, checkpoint, batch, out, crashes, done, unread, passed>>
      /\ handed' = [c \in Consumers |-> {}]
  BY DEF Start
<1>6. \A p : UpTo(p) \subseteq Positions
  <2>1. Last \in Nat /\ Last <= MaxSegments
    BY <1>1, SegmentAt DEF Segments, SegmentsOf, Last
  <2> QED
    BY <2>1, LogAssumption DEF UpTo, Positions
<1>7. /\ skipped' \in [Consumers -> SUBSET Positions]
      /\ \A c \in Consumers : skipped[c] \subseteq skipped'[c]
  BY <1>1, <1>6 DEF Start, TailTypeOK
<1>8. TailTypeOK'
  BY <1>1, <1>3, <1>5, <1>7 DEF TailTypeOK, TailerSet
<1>9. Control'
  BY <1>1, <1>2, <1>5 DEF Control
<1>10. Marks'
  BY <1>1, <1>2, <1>5 DEF Marks, Reading
<1>11. Hands'
  BY <1>1, <1>2, <1>5 DEF Hands, Running, Start
<1>12. Coverage'
  <2> SUFFICES ASSUME NEW c \in Consumers PROVE CoverageOf(c)'
    BY DEF Coverage
  <2>1. /\ AccountedFor(c) \subseteq AccountedFor(c)' /\ Taken(c) \subseteq Taken(c)'
        /\ AccountedFor(c)' = done[c] \cup unread[c] \cup skipped'[c] \cup passed[c]
    BY <1>5, <1>7 DEF AccountedFor, Taken, Handed
  <2>2. checkpoint[c] # NoCheckpoint => Covered(seg, checkpoint[c][1], checkpoint[c][2], AccountedFor(c)')
    BY <1>1, <1>5, <2>1, OnlyMore
  <2>3. ASSUME NEW e, e = Earliest(Existing(checkpoint)), Existing(checkpoint) # {}
        PROVE  Covered(seg, e[1], e[2], AccountedFor(c)')
    <3>1. e \in Existing(checkpoint) /\ \A q \in Existing(checkpoint) : AtOrBefore(e, q)
      BY <1>4, <2>3, EarliestOf
    <3>2. e \in Positions /\ e[1] \in Nat /\ e[2] \in Nat /\ e = <<e[1], e[2]>>
      BY <1>4, <3>1 DEF Positions
    <3>3. CASE checkpoint[c] # NoCheckpoint
      <4>1. checkpoint[c] \in Existing(checkpoint) /\ checkpoint[c][1] \in Nat /\ checkpoint[c][2] \in Nat
        BY <1>4, <3>3 DEF Existing, Positions
      <4>2. e[1] < checkpoint[c][1] \/ (e[1] = checkpoint[c][1] /\ e[2] <= checkpoint[c][2])
        BY <3>1, <3>2, <4>1 DEF AtOrBefore, Before
      <4> QED
        BY <2>2, <3>2, <3>3, <4>1, <4>2, CoveredMono
    <3>4. CASE checkpoint[c] = NoCheckpoint
      <4>1. skipped'[c] = skipped[c] \cup (UpTo(e) \ AccountedFor(c))
        BY <2>3, <3>4 DEF Start
      <4>2. UpTo(e) \subseteq AccountedFor(c)'
        BY <2>1, <4>1
      <4>3. ASSUME NEW g \in Nat, NEW k \in Nat, Rd(seg, g, k), g < e[1] \/ (g = e[1] /\ k <= e[2])
            PROVE  <<g, k>> \in UpTo(e)
        <5>1. g \in 1..Last /\ k \in 1..MaxLines
          <6>1. g \in 1..Len(seg) /\ k \in 1..seg[g].visible
            BY <4>3 DEF Rd
          <6>2. seg[g].visible \in 0..MaxLines
            BY <1>1, <6>1, SegmentAt
          <6> QED
            BY <6>1, <6>2, LogAssumption DEF Last
        <5>2. AtOrBefore(<<g, k>>, e)
          BY <3>2, <4>3 DEF AtOrBefore, Before
        <5> QED
          BY <5>1, <5>2 DEF UpTo
      <4> QED
        BY <4>2, <4>3 DEF Covered
    <3> QED
      BY <3>3, <3>4
  <2>4. tailer'.pc = "plan" /\ tailer'.last = 0 /\ tailer'.bad = {} /\ tailer'.from = checkpoint
    BY <1>2
  <2>5. Existing(tailer'.from) # {} =>
          Covered(seg', Earliest(Existing(tailer'.from))[1], Earliest(Existing(tailer'.from))[2], AccountedFor(c)')
    BY <1>5, <2>3, <2>4
  <2> QED
    BY <1>1, <1>5, <2>2, <2>4, <2>5 DEF CoverageOf, Reading
<1>13. Once'
  BY <1>1, <1>2, <1>5 DEF Once, Hands, Running, Start
<1> QED
  BY <1>1, <1>5, <1>8, <1>9, <1>10, <1>11, <1>12, <1>13 DEF TailIInv, Segments

\* The beginning of a file is before its other lines.
LEMMA WrittenFrom ==
  ASSUME NEW s \in Seq(Segment), NEW f, NEW l, Written(s, f, l)
  PROVE  Written(s, f, 0)
<1>1. f \in 1..Len(s)
  BY DEF Written
<1>2. s[f].visible \in Nat
  BY <1>1, SegmentIn
<1> QED
  BY <1>1, <1>2 DEF Written

LEMMA BuildPlanKeeps ==
  ASSUME TailIInv, BuildPlan
  PROVE  TailIInv'
<1>1. /\ TailTypeOK /\ Segments /\ Control /\ Marks /\ Hands /\ Coverage /\ Once /\ tailer.pc = "plan"
  BY Parts DEF BuildPlan
<1>2. PICK P : P = Plan
  OBVIOUS
<1>3. /\ Last = Len(seg) /\ Last \in Nat /\ Last <= MaxSegments /\ MaxSegments \in Nat /\ MaxLines \in Nat
      /\ tailer.last \in Nat /\ tailer.plan = {}
  BY <1>1, SegmentAt, TailerType, LogAssumption DEF Last, Segments, SegmentsOf, Control
<1>4. P \in SUBSET (1..Last) /\ P \in SUBSET (0..MaxSegments) /\ P # {}
  BY <1>2, <1>3 DEF Plan, BuildPlan
<1>5. PICK m : m = Min(P)
  OBVIOUS
<1>6. m \in P /\ m \in 1..Last /\ \A f \in P : m <= f
  BY <1>3, <1>4, <1>5, MinOf
<1>7. PICK cps : cps = Existing(tailer.from)
  OBVIOUS
<1>8. cps \in SUBSET Positions
  BY <1>1, <1>7, TailerType DEF Existing, Checkpoints
<1>9. PICK ln : ln = SkipsIn(IF cps = {} THEN NoCheckpoint ELSE Earliest(cps), P)
  OBVIOUS
<1>10. PICK sk : sk = [c \in Consumers |-> SkipsIn(tailer.from[c], P)]
  OBVIOUS
<1>11. UNCHANGED <<seg, checkpoint, batch, out, crashes, done, handed, unread, skipped, passed>>
  BY DEF BuildPlan, history
<1>12. tailer' = [pc |-> "read", plan |-> P, line |-> ln, eof |-> tailer.eof, skip |-> sk, last |-> tailer.last,
                  lastLine |-> 0, bad |-> tailer.bad, from |-> [c \in Consumers |-> NoCheckpoint]]
  <2>1. tailer \in TailerSet
    BY <1>1, TailerType
  <2>2. tailer' = [tailer EXCEPT !.pc = "read", !.plan = P, !.lastLine = 0, !.line = ln, !.skip = sk,
                                 !.from = [c \in Consumers |-> NoCheckpoint]]
    BY <1>2, <1>7, <1>9, <1>10 DEF BuildPlan
  <2> QED
    BY <2>1, <2>2 DEF TailerSet
\* Where the first file is entered.
<1> DEFINE Entered(l, c) == l \in 0..MaxLines /\ Written(seg, m, l) /\ Covered(seg, m, l, Kept(c))
<1> DEFINE Entry == (\A c \in Consumers : Entered(ln, c) /\ Entered(sk[c], c)) /\ ln \in 0..MaxLines
                    /\ Written(seg, m, ln) /\ \A f \in P : f > tailer.last /\ f \notin tailer.bad
<1>13. ASSUME cps = {} PROVE Entry
  <2>1. \A c \in Consumers : tailer.from[c] = NoCheckpoint
    BY <1>7, <1>13 DEF Existing
  <2>2. ln = 0 /\ \A c \in Consumers : sk[c] = 0
    BY <1>9, <1>10, <1>13, <2>1 DEF SkipsIn
  <2>3. P = {f \in (1..Last) \ tailer.bad : tailer.last # 0 => f > tailer.last}
    BY <1>2, <1>7, <1>13 DEF Plan
  <2>4. \A g \in 1..Last : g < m => g \in tailer.bad \/ g \in 1..tailer.last
    BY <1>3, <1>6, <2>3
  <2>5. ASSUME NEW c \in Consumers PROVE Covered(seg, m, 0, Kept(c))
    <3>1. ASSUME NEW g \in Nat, NEW k \in Nat, Rd(seg, g, k), g < m \/ (g = m /\ k <= 0)
          PROVE  <<g, k>> \in Kept(c)
      <4>1. g \in 1..Last /\ k >= 1
        BY <1>3, <3>1 DEF Rd
      <4>2. g \in tailer.bad \/ g \in 1..tailer.last
        BY <1>6, <2>4, <3>1, <4>1
      <4> QED
        BY <1>1, <3>1, <4>2 DEF Coverage, CoverageOf, FileCovered
    <3> QED
      BY <3>1 DEF Covered
  <2>6. Written(seg, m, 0)
    <3>1. \A g \in 1..Last : g < m => Settled(seg, g)
      <4>1. \A g \in tailer.bad : Settled(seg, g)
        BY <1>1 DEF Marks, Settled, Spoilt
      <4>2. \A g \in 1..tailer.last : Settled(seg, g)
        BY <1>1, <1>3 DEF Marks, Written, Settled
      <4> QED
        BY <2>4, <4>1, <4>2
    <3> QED
      BY <1>1, <1>3, <1>6, <3>1, SegmentAt DEF Written
  <2> QED
    BY <1>3, <2>2, <2>3, <2>5, <2>6
<1>14. ASSUME cps # {} PROVE Entry
  <2> PICK e : e = Earliest(cps)
    OBVIOUS
  <2>1. e \in cps /\ \A q \in cps : AtOrBefore(e, q)
    BY <1>8, <1>14, EarliestOf
  <2>2. e \in Positions /\ e[1] \in Nat /\ e[2] \in Nat /\ e # NoCheckpoint
    BY <1>8, <2>1, LogAssumption DEF Positions
  <2>3. tailer.last = 0 /\ tailer.bad = {} /\ tailer.from = checkpoint
    BY <1>1, <1>7, <1>14 DEF Control, Existing
  <2>4. Written(seg, e[1], e[2])
    BY <1>1, <1>7, <2>1, <2>3 DEF Existing, Marks
  <2>5. P = {f \in 1..Last : f >= e[1]}
    BY <1>2, <1>7, <1>14, <2>3 DEF Plan
  <2>6. m = e[1]
    BY <1>3, <1>6, <2>2, <2>4, <2>5 DEF Written
  <2>7. ln = e[2]
    BY <1>5, <1>9, <1>14, <2>2, <2>6 DEF SkipsIn
  <2>8. e[2] \in 0..MaxLines
    BY <2>2 DEF Positions
  <2>9. ASSUME NEW c \in Consumers PROVE Entered(ln, c)
    <3>1. Covered(seg, e[1], e[2], AccountedFor(c))
      BY <1>1, <1>7, <1>14 DEF Coverage, CoverageOf
    <3>2. Covered(seg, m, ln, Kept(c))
      BY <2>6, <2>7, <3>1 DEF Covered, Kept, Taken
    <3> QED
      BY <2>4, <2>6, <2>7, <2>8, <3>2
  <2>10. ASSUME NEW c \in Consumers PROVE Entered(sk[c], c)
    <3>1. CASE tailer.from[c] # NoCheckpoint /\ m = tailer.from[c][1]
      <4>1. sk[c] = checkpoint[c][2] /\ m = checkpoint[c][1] /\ checkpoint[c] # NoCheckpoint
        BY <1>5, <1>10, <2>3, <3>1 DEF SkipsIn
      <4>2. Written(seg, m, sk[c]) /\ Covered(seg, m, sk[c], AccountedFor(c))
        BY <1>1, <4>1 DEF Marks, Coverage, CoverageOf
      <4>3. sk[c] \in 0..MaxLines
        <5>1. checkpoint[c] \in Checkpoints
          BY <1>1 DEF TailTypeOK
        <5> QED
          BY <4>1, <5>1, Positioned
      <4>4. Covered(seg, m, sk[c], Kept(c))
        BY <4>2 DEF Covered, Kept, Taken
      <4> QED
        BY <4>2, <4>3, <4>4
    <3>2. CASE ~(tailer.from[c] # NoCheckpoint /\ m = tailer.from[c][1])
      <4>1. sk[c] = 0
        BY <1>5, <1>10, <3>2 DEF SkipsIn
      <4>2. Covered(seg, m, 0, Kept(c))
        BY <1>6, <2>2, <2>6, <2>7, <2>9, CoveredMono
      <4>3. Written(seg, m, 0)
        BY <1>1, <2>4, <2>6, SegmentAt, WrittenFrom
      <4> QED
        BY <1>3, <4>1, <4>2, <4>3
    <3> QED
      BY <3>1, <3>2
  <2> QED
    BY <1>3, <1>4, <2>3, <2>4, <2>6, <2>7, <2>8, <2>9, <2>10
<1>15. Entry
  BY <1>13, <1>14
<1>16. sk \in [Consumers -> 0..MaxLines]
  BY <1>10, <1>15
<1>17. tailer' \in TailerSet
  <2>1. tailer.last \in 0..MaxSegments /\ tailer.eof \in BOOLEAN /\ tailer.bad \in SUBSET (1..MaxSegments)
    BY <1>1, TailerType
  <2>2. P \in SUBSET (1..MaxSegments)
    BY <1>3, <1>4
  <2>3. NoCheckpoint \in Checkpoints
    BY DEF Checkpoints
  <2> QED
    BY <1>3, <1>12, <1>15, <1>16, <2>1, <2>2, <2>3 DEF TailerSet
<1>18. /\ tailer'.pc = "read" /\ tailer'.plan = P /\ tailer'.line = ln /\ tailer'.skip = sk
       /\ tailer'.last = tailer.last /\ tailer'.lastLine = 0 /\ tailer'.bad = tailer.bad
       /\ \A c \in Consumers : tailer'.from[c] = NoCheckpoint
  BY <1>12
<1> HIDE DEF Entered
<1>19. TailTypeOK'
  BY <1>1, <1>11, <1>17 DEF TailTypeOK, TailerSet
<1>20. Cur' = m
  BY <1>5, <1>18 DEF Cur
<1>21. Control'
  <2>1. ASSUME NEW f \in P, NEW g \in 1..f PROVE g < m \/ g \in P \/ g \in tailer.bad
    <3>1. f \in 1..Last
      BY <1>4
    <3>2. f \in Plan /\ m \in Plan
      BY <1>2, <1>6
    <3>3. CASE cps = {}
      BY <1>2, <1>3, <1>6, <1>7, <3>1, <3>2, <3>3 DEF Plan
    <3>4. CASE cps # {}
      <4>1. Earliest(cps) \in Positions
        BY <1>8, <3>4, EarliestOf
      <4>2. Earliest(cps)[1] \in Nat
        BY <4>1, LogAssumption DEF Positions
      <4> QED
        BY <1>2, <1>3, <1>6, <1>7, <3>1, <3>2, <3>4, <4>2 DEF Plan
    <3> QED
      BY <3>3, <3>4
  <2> QED
    BY <1>3, <1>4, <1>11, <1>15, <1>18, <1>20, <2>1 DEF Control
<1>22. Marks'
  <2>1. tailer.last # 0 => Written(seg, tailer.last, 0) /\ seg[tailer.last].state = "done"
    BY <1>1, SegmentAt, WrittenFrom DEF Marks
  <2> QED
    BY <1>1, <1>11, <1>15, <1>18, <1>20, <2>1 DEF Marks, Entered, Reading
<1>23. Hands'
  BY <1>1, <1>11, <1>18 DEF Hands, Running
<1>24. Coverage'
  <2> SUFFICES ASSUME NEW c \in Consumers PROVE CoverageOf(c)'
    BY DEF Coverage
  <2>1. /\ CoverageOf(c) /\ Kept(c)' = Kept(c) /\ Taken(c)' = Taken(c)
        /\ AccountedFor(c)' = AccountedFor(c)
    BY <1>1, <1>11 DEF Coverage, Kept, Taken, Handed, AccountedFor
  <2>2. Existing(tailer'.from) = {}
    BY <1>18 DEF Existing
  <2> QED
    BY <1>11, <1>15, <1>18, <1>20, <2>1, <2>2 DEF CoverageOf, Entered
<1>25. Once'
  <2>1. Running /\ tailer.plan = {}
    BY <1>1, <1>3 DEF Running
  <2> QED
    BY <1>1, <1>11, <1>18, <2>1 DEF Once
<1> QED
  BY <1>1, <1>11, <1>19, <1>21, <1>22, <1>23, <1>24, <1>25 DEF TailIInv, Segments

\* The place at which the tailer is.
LEMMA Place ==
  ASSUME TailIInv, tailer.pc \in {"read", "eof"}
  PROVE  /\ Reading /\ Running /\ Cur \in tailer.plan /\ Cur \in 1..Len(seg) /\ Cur \in 1..MaxSegments /\ Cur > tailer.last
         /\ Cur \notin tailer.bad /\ \A f \in tailer.plan : Cur <= f
         /\ tailer.line \in Nat /\ tailer.line <= seg[Cur].visible
         /\ seg[Cur].visible \in Nat /\ seg[Cur].visible <= MaxLines
<1>1. TailTypeOK /\ Segments /\ Control /\ Marks /\ Reading /\ Running
  BY Parts DEF Reading, Running
<1>2. tailer.plan # {} /\ tailer.plan \subseteq 1..Len(seg) /\ tailer.plan \subseteq 1..MaxSegments
  BY <1>1, TailerType DEF Control
<1>3. Cur \in tailer.plan /\ \A f \in tailer.plan : Cur <= f
  BY <1>1, <1>2, CurFirst
<1>4. seg[Cur].visible \in 0..MaxLines
  BY <1>1, <1>2, <1>3, SegmentAt
<1>5. Written(seg, Cur, tailer.line)
  BY <1>1 DEF Marks
<1> QED
  BY <1>1, <1>2, <1>3, <1>4, <1>5, LogAssumption DEF Control, Written

LEMMA ReadLineKeeps ==
  ASSUME TailIInv, ReadLine
  PROVE  TailIInv'
<1>1. /\ TailTypeOK /\ Segments /\ Control /\ Marks /\ Hands /\ Coverage /\ Once /\ tailer.pc = "read"
      /\ Existing(tailer.from) = {} /\ \A c \in Consumers : tailer.from[c] = NoCheckpoint
  BY Parts DEF ReadLine, Filling
<1>2. PICK q, l : q = Cur /\ l = tailer.line + 1
  OBVIOUS
<1>3. /\ Reading /\ Running /\ q \in tailer.plan /\ q \in 1..Len(seg) /\ q \in 1..MaxSegments
      /\ tailer.line \in Nat /\ l \in 1..seg[q].visible /\ l \in 0..MaxLines /\ MaxLines \in Nat
      /\ seg[q].visible \in Nat
  BY <1>1, <1>2, Place, LogAssumption DEF ReadLine
<1>4. PICK r : r = <<q, l>>
  OBVIOUS
<1>5. r \in Positions
  BY <1>3, <1>4, LogAssumption DEF Positions
<1>6. PICK accept \in {Offered, Offered \ Filtered} :
        /\ batch' = [c \in Consumers |-> IF c \in accept THEN batch[c] \cup {r} ELSE batch[c]]
        /\ done' = [c \in Consumers |-> IF c \in Offered \ accept THEN done[c] \cup {r} ELSE done[c]]
  BY <1>2, <1>4 DEF ReadLine
<1>7. UNCHANGED <<seg, checkpoint, out, crashes, handed, unread, skipped, passed>>
  BY DEF ReadLine
<1>8. /\ tailer' = [tailer EXCEPT !.line = l] /\ tailer' \in TailerSet
      /\ tailer'.pc = "read" /\ tailer'.plan = tailer.plan /\ tailer'.line = l /\ tailer'.skip = tailer.skip
      /\ tailer'.last = tailer.last /\ tailer'.lastLine = tailer.lastLine /\ tailer'.bad = tailer.bad
      /\ tailer'.from = tailer.from
  <2>1. tailer \in TailerSet
    BY <1>1, TailerType
  <2>2. tailer' = [tailer EXCEPT !.line = l]
    BY <1>2 DEF ReadLine
  <2> QED
    BY <1>1, <1>3, <2>1, <2>2 DEF TailerSet
<1>9. batch' \in [Consumers -> SUBSET Positions] /\ done' \in [Consumers -> SUBSET Positions]
  BY <1>1, <1>5, <1>6 DEF TailTypeOK
<1>10. TailTypeOK'
  BY <1>1, <1>7, <1>8, <1>9 DEF TailTypeOK, TailerSet
<1>11. Cur' = q
  BY <1>2, <1>8 DEF Cur
<1>12. Control'
  BY <1>1, <1>2, <1>7, <1>8, <1>11 DEF Control
<1>13. Marks'
  <2>1. Written(seg, q, l)
    BY <1>1, <1>2, <1>3 DEF Marks, Written
  <2> QED
    BY <1>1, <1>2, <1>3, <1>7, <1>8, <1>11, <2>1 DEF Marks
<1>14. Hands'
  BY <1>1, <1>7, <1>8 DEF Hands, Running
<1>15. Coverage'
  <2> SUFFICES ASSUME NEW c \in Consumers PROVE CoverageOf(c)'
    BY DEF Coverage
  <2>1. CoverageOf(c)
    BY <1>1 DEF Coverage
  <2>2. Kept(c) \subseteq Kept(c)' /\ Taken(c) \subseteq Taken(c)' /\ AccountedFor(c) \subseteq AccountedFor(c)'
    BY <1>6, <1>7 DEF Kept, Taken, Handed, AccountedFor
  <2>3. Covered(seg, q, tailer.line, Kept(c)) /\ Covered(seg, q, tailer.skip[c], Kept(c))
    BY <1>2, <1>3, <2>1 DEF CoverageOf
  <2>4. tailer.skip[c] \in Nat
    BY <1>1, <1>3, TailerType
  <2>5. Rd(seg, q, l) => r \in Kept(c)'
    <3>1. CASE c \in Offered
      BY <1>6, <3>1 DEF Kept, Taken, AccountedFor
    <3>2. CASE c \notin Offered
      <4>1. l <= tailer.skip[c]
        BY <1>2, <1>3, <2>4, <3>2 DEF Offered
      <4> QED
        BY <1>3, <1>4, <2>2, <2>3, <4>1 DEF Covered
    <3> QED
      BY <3>1, <3>2
  <2>6. Covered(seg, q, l, Kept(c)')
    <3>1. ASSUME NEW g \in Nat, NEW k \in Nat, Rd(seg, g, k), g < q \/ (g = q /\ k <= l)
          PROVE  <<g, k>> \in Kept(c)'
      <4>1. CASE g = q /\ k = l
        BY <1>4, <2>5, <3>1, <4>1
      <4>2. CASE ~(g = q /\ k = l)
        <5>1. g < q \/ (g = q /\ k <= tailer.line)
          BY <1>2, <1>3, <3>1, <4>2
        <5> QED
          BY <2>2, <2>3, <3>1, <5>1 DEF Covered
      <4> QED
        BY <4>1, <4>2
    <3> QED
      BY <3>1 DEF Covered
  <2>7. Covered(seg, q, tailer.skip[c], Kept(c)')
    BY <2>2, <2>3 DEF Covered
  <2>8. /\ \A f \in 1..tailer.last : FileCovered(seg, f, Kept(c)')
        /\ \A f \in tailer.bad : FileCovered(seg, f, Kept(c)')
    BY <2>1, <2>2, FileCoveredMono DEF CoverageOf
  <2>9. /\ \A b \in out[c] : Covered(seg, b.at[1], b.at[2], Taken(c)')
        /\ checkpoint[c] # NoCheckpoint => Covered(seg, checkpoint[c][1], checkpoint[c][2], AccountedFor(c)')
    BY <1>1, <1>7, <2>2, OnlyMore
  <2> QED
    BY <1>1, <1>7, <1>8, <1>11, <2>6, <2>7, <2>8, <2>9 DEF CoverageOf
<1>16. Once'
  <2> SUFFICES ASSUME NEW c \in Consumers, NEW p \in batch'[c] \cup handed'[c]
               PROVE  \/ p[1] \in tailer'.bad \/ p[1] <= tailer'.last
                      \/ tailer'.plan # {} /\ p[1] = q /\ p[2] <= l
    BY <1>11, <1>8 DEF Once
  <2>1. CASE p = r
    BY <1>3, <1>4, <1>8, <2>1
  <2>2. CASE p # r
    <3>1. p \in batch[c] \cup handed[c]
      BY <1>6, <1>7, <2>2
    <3>2. p \in Positions
      BY <1>1, <3>1 DEF TailTypeOK
    <3>3. p[2] \in Nat
      BY <3>2, LogAssumption DEF Positions
    <3> QED
      BY <1>1, <1>2, <1>3, <1>8, <3>1, <3>3 DEF Once
  <2> QED
    BY <2>1, <2>2
<1> QED
  BY <1>1, <1>7, <1>10, <1>12, <1>13, <1>14, <1>15, <1>16 DEF TailIInv, Segments

LEMMA EofKeeps ==
  ASSUME TailIInv, UNCHANGED <<seg, checkpoint, batch, out, crashes, history>>,
         NEW pc \in {"read", "eof"}, tailer.pc \in {"read", "eof"}, 
         NEW eof \in BOOLEAN, tailer' = [tailer EXCEPT !.pc = pc, !.eof = eof]
  PROVE  TailIInv'
<1>1. /\ TailTypeOK /\ Segments /\ Control /\ Marks /\ Hands /\ Coverage /\ Once
      /\ \A c \in Consumers : tailer.from[c] = NoCheckpoint
  BY Parts
<1>2. UNCHANGED <<seg, checkpoint, batch, out, crashes, done, handed, unread, skipped, passed>>
  BY DEF history
<1>3. /\ tailer' \in TailerSet
      /\ tailer'.pc = pc /\ tailer'.plan = tailer.plan /\ tailer'.line = tailer.line /\ tailer'.skip = tailer.skip
      /\ tailer'.last = tailer.last /\ tailer'.lastLine = tailer.lastLine /\ tailer'.bad = tailer.bad
      /\ tailer'.from = tailer.from
  <2>1. tailer \in TailerSet
    BY <1>1, TailerType
  <2> QED
    BY <2>1 DEF TailerSet
<1>4. TailTypeOK'
  BY <1>1, <1>2, <1>3 DEF TailTypeOK, TailerSet
<1>5. Reading /\ Reading' /\ Running /\ Running' /\ Cur' = Cur
  BY <1>3 DEF Reading, Running, Cur
<1>6. Control' /\ Marks' /\ Hands' /\ Once'
  BY <1>1, <1>2, <1>3, <1>5 DEF Control, Marks, Hands, Once
<1>7. Coverage'
  <2> SUFFICES ASSUME NEW c \in Consumers PROVE CoverageOf(c)'
    BY DEF Coverage
  <2>1. /\ CoverageOf(c) /\ Kept(c)' = Kept(c) /\ Taken(c)' = Taken(c)
        /\ AccountedFor(c)' = AccountedFor(c)
    BY <1>1, <1>2 DEF Coverage, Kept, Taken, Handed, AccountedFor
  <2> QED
    BY <1>2, <1>3, <1>5, <2>1 DEF CoverageOf
<1> QED
  BY <1>1, <1>2, <1>4, <1>6, <1>7 DEF TailIInv, Segments

\* The tailer leaves a file, which is complete or has junk in it, once every
\* line of it that can be read is accounted for.
LEMMA FileEnds ==
  ASSUME TailIInv, tailer.pc \in {"read", "eof"},
         NEW plan2, plan2 = tailer.plan \ {Cur}, NEW last2, NEW line2, NEW bad2,
         \/ last2 = Cur /\ line2 = tailer.line /\ bad2 = tailer.bad /\ seg[Cur].state = "done"
         \/ last2 = tailer.last /\ line2 = tailer.lastLine /\ bad2 = tailer.bad \cup {Cur} /\ Spoilt(seg, Cur),
         tailer' = [pc |-> IF plan2 = {} THEN "flush" ELSE "read", plan |-> plan2, line |-> 0, eof |-> FALSE,
                    skip |-> [c \in Consumers |-> 0], last |-> last2, lastLine |-> line2, bad |-> bad2,
                    from |-> tailer.from],
         UNCHANGED <<seg, checkpoint, batch, out, crashes, done, handed, skipped, passed>>,
         unread' \in [Consumers -> SUBSET Positions],
         \A c \in Consumers : unread[c] \subseteq unread'[c] /\ FileCovered(seg, Cur, Kept(c)')
  PROVE  TailIInv'
<1>1. /\ TailTypeOK /\ Segments /\ Control /\ Marks /\ Hands /\ Coverage /\ Once
      /\ Existing(tailer.from) = {} /\ \A c \in Consumers : tailer.from[c] = NoCheckpoint
  BY Parts
<1>2. PICK q : q = Cur
  OBVIOUS
<1>3. /\ Reading /\ Running /\ q \in tailer.plan /\ q \in 1..Len(seg) /\ q \in 1..MaxSegments
      /\ q > tailer.last /\ q \notin tailer.bad /\ \A f \in tailer.plan : q <= f
      /\ tailer.line \in Nat /\ MaxLines \in Nat /\ MaxSegments \in Nat /\ tailer.line \in 0..MaxLines
  BY <1>1, <1>2, Place, TailerType, LogAssumption
<1>4. /\ tailer.plan \in SUBSET (1..MaxSegments) /\ tailer.bad \in SUBSET (1..MaxSegments) /\ tailer.plan \subseteq 1..Len(seg)
      /\ tailer.last \in 0..MaxSegments /\ tailer.lastLine \in 0..MaxLines /\ tailer.from \in [Consumers -> Checkpoints]
      /\ Len(seg) \in Nat
  BY <1>1, TailerType, SegmentAt DEF Control
<1>5. tailer' \in TailerSet
  <2>1. plan2 \in SUBSET (1..MaxSegments) /\ last2 \in 0..MaxSegments /\ line2 \in 0..MaxLines /\ bad2 \in SUBSET (1..MaxSegments)
    BY <1>2, <1>3, <1>4
  <2> QED
    BY <1>3, <1>4, <2>1 DEF TailerSet
<1>6. /\ tailer'.pc = (IF plan2 = {} THEN "flush" ELSE "read") /\ tailer'.plan = plan2 /\ tailer'.line = 0
      /\ tailer'.skip = [c \in Consumers |-> 0] /\ tailer'.last = last2 /\ tailer'.lastLine = line2 /\ tailer'.bad = bad2
      /\ tailer'.from = tailer.from
  OBVIOUS
<1>7. TailTypeOK'
  BY <1>1, <1>5 DEF TailTypeOK, TailerSet
<1>8. PICK m : m = Min(plan2)
  OBVIOUS
<1>9. Cur' = m
  BY <1>6, <1>8 DEF Cur
<1>10. plan2 # {} => m \in plan2 /\ m \in 1..Len(seg) /\ m > q /\ \A f \in plan2 : m <= f
  <2>1. plan2 \in SUBSET (0..MaxSegments)
    BY <1>4
  <2>2. plan2 # {} => m \in plan2 /\ \A f \in plan2 : m <= f
    BY <1>3, <1>8, <2>1, MinOf
  <2> QED
    BY <1>2, <1>3, <1>4, <2>2
<1>11. ASSUME plan2 # {}, NEW g \in 1..m PROVE g = m \/ g <= q \/ g \in tailer.bad
  <2>1. m \in tailer.plan
    BY <1>10, <1>11
  <2>2. g < q \/ g \in tailer.plan \/ g \in tailer.bad
    BY <1>1, <1>2, <2>1 DEF Control
  <2> QED
    BY <1>2, <1>3, <1>4, <1>10, <1>11, <2>2
<1>12. Control'
  <2>1. \A f \in plan2 : f > last2 /\ f \notin bad2
    <3>1. \A f \in plan2 : f > tailer.last /\ f \notin tailer.bad /\ f > q
      BY <1>1, <1>2, <1>3, <1>4 DEF Control
    <3> QED
      BY <1>2, <3>1
  <2>2. ASSUME NEW f \in plan2, NEW g \in 1..f PROVE g < m \/ g \in plan2 \/ g \in bad2
    <3>1. g < q \/ g \in tailer.plan \/ g \in tailer.bad
      BY <1>1, <1>2, <2>2 DEF Control
    <3> QED
      BY <1>2, <1>3, <1>4, <1>10, <2>2, <3>1
  <2> QED
    BY <1>1, <1>4, <1>6, <1>9, <2>1, <2>2 DEF Control
<1>13. Written(seg, q, tailer.line)
  BY <1>1, <1>2, <1>3 DEF Marks
<1>14. Marks'
  <2>1. plan2 # {} => Written(seg, m, 0)
    <3>1. ASSUME plan2 # {}, NEW g \in 1..Len(seg), g < m PROVE Settled(seg, g)
      <4>1. g < q \/ g = q \/ g \in tailer.bad
        BY <1>3, <1>10, <1>11, <3>1
      <4>2. g < q => Settled(seg, g)
        BY <1>13 DEF Written
      <4>3. Settled(seg, q)
        BY <1>1, <1>2, <1>3 DEF Settled
      <4>4. g \in tailer.bad => Settled(seg, g)
        BY <1>1 DEF Marks, Settled, Spoilt
      <4> QED
        BY <4>1, <4>2, <4>3, <4>4
    <3> QED
      BY <1>1, <1>10, <3>1, SegmentAt, LogAssumption DEF Written
  <2>2. last2 # 0 => Written(seg, last2, line2) /\ seg[last2].state = "done"
    BY <1>1, <1>2, <1>13 DEF Marks
  <2>3. \A f \in bad2 : Spoilt(seg, f)
    BY <1>1, <1>2 DEF Marks
  <2>4. Reading' => plan2 # {}
    BY <1>6 DEF Reading
  <2> QED
    BY <1>1, <1>6, <1>9, <2>1, <2>2, <2>3, <2>4 DEF Marks
<1>15. Running'
  BY <1>6 DEF Running
<1>16. Hands'
  BY <1>1, <1>15 DEF Hands
<1>17. Coverage'
  <2> SUFFICES ASSUME NEW c \in Consumers PROVE CoverageOf(c)'
    BY DEF Coverage
  <2>1. CoverageOf(c)
    BY <1>1 DEF Coverage
  <2>2. Kept(c) \subseteq Kept(c)' /\ Taken(c) \subseteq Taken(c)' /\ AccountedFor(c) \subseteq AccountedFor(c)'
    BY DEF Kept, Taken, Handed, AccountedFor
  <2>3. \A f \in 1..q : FileCovered(seg, f, Kept(c)')
    <3>1. Covered(seg, q, tailer.line, Kept(c))
      BY <1>2, <1>3, <2>1 DEF CoverageOf
    <3>2. \A f \in 1..q : f < q => FileCovered(seg, f, Kept(c)')
      BY <1>3, <2>2, <3>1 DEF Covered, FileCovered
    <3> QED
      BY <1>2, <1>3, <3>2
  <2>4. \A f \in tailer.bad : FileCovered(seg, f, Kept(c)')
    BY <2>1, <2>2, FileCoveredMono DEF CoverageOf
  <2>5. plan2 # {} => Covered(seg, m, 0, Kept(c)')
    <3>1. ASSUME plan2 # {}, NEW g \in Nat, NEW k \in Nat, Rd(seg, g, k), g < m \/ (g = m /\ k <= 0)
          PROVE  <<g, k>> \in Kept(c)'
      <4>1. g \in 1..Len(seg) /\ k >= 1
        BY <3>1 DEF Rd
      <4>2. g \in 1..q \/ g \in tailer.bad
        BY <1>3, <1>10, <1>11, <3>1, <4>1
      <4> QED
        BY <2>3, <2>4, <3>1, <4>2 DEF FileCovered
    <3> QED
      BY <3>1 DEF Covered
  <2>6. Reading' => plan2 # {}
    BY <1>6 DEF Reading
  <2>7. \A f \in 1..last2 : FileCovered(seg, f, Kept(c)')
    BY <1>2, <1>3, <1>4, <2>3
  <2>8. \A f \in bad2 : FileCovered(seg, f, Kept(c)')
    BY <1>2, <1>3, <2>3, <2>4
  <2>9. /\ \A b \in out[c] : Covered(seg, b.at[1], b.at[2], Taken(c)')
        /\ checkpoint[c] # NoCheckpoint => Covered(seg, checkpoint[c][1], checkpoint[c][2], AccountedFor(c)')
    BY <1>1, <2>2, OnlyMore
  <2> QED
    BY <1>1, <1>6, <1>9, <2>5, <2>6, <2>7, <2>8, <2>9 DEF CoverageOf
<1>18. Once'
  <2> SUFFICES ASSUME NEW c \in Consumers, NEW p \in batch[c] \cup handed[c]
               PROVE  p[1] \in bad2 \/ p[1] <= last2
    BY <1>6 DEF Once
  <2>1. p[1] \in tailer.bad \/ p[1] <= tailer.last \/ p[1] = q
    BY <1>1, <1>2, <1>3 DEF Once
  <2>2. p \in Positions
    BY <1>1 DEF TailTypeOK
  <2>3. p[1] \in Nat
    BY <2>2, LogAssumption DEF Positions
  <2> QED
    BY <1>2, <1>3, <1>4, <2>1, <2>3
<1> QED
  BY <1>1, <1>7, <1>12, <1>14, <1>16, <1>17, <1>18 DEF TailIInv, Segments

LEMMA ReadJunkKeeps ==
  ASSUME TailIInv, ReadJunk
  PROVE  TailIInv'
<1>1. TailTypeOK /\ Coverage /\ tailer.pc = "read"
  BY Parts DEF ReadJunk, Filling
<1>2. /\ Reading /\ Cur \in 1..Len(seg) /\ tailer.line \in Nat /\ seg[Cur].visible \in Nat
      /\ tailer.line < seg[Cur].visible /\ seg[Cur].lines[tailer.line + 1] = "junk"
  BY <1>1, Place DEF ReadJunk
<1>3. Spoilt(seg, Cur)
  BY <1>2 DEF Spoilt
<1>4. UNCHANGED <<seg, checkpoint, batch, out, crashes, done, handed, unread, skipped, passed>>
  BY DEF ReadJunk, history
<1>5. PICK plan2, bad2 : plan2 = tailer.plan \ {Cur} /\ bad2 = tailer.bad \cup {Cur}
  OBVIOUS
<1>6. tailer' = [pc |-> IF plan2 = {} THEN "flush" ELSE "read", plan |-> plan2, line |-> 0, eof |-> FALSE,
                 skip |-> [c \in Consumers |-> 0], last |-> tailer.last, lastLine |-> tailer.lastLine, bad |-> bad2,
                 from |-> tailer.from]
  <2>1. PICK t : t = [tailer EXCEPT !.bad = bad2]
    OBVIOUS
  <2>2. tailer \in TailerSet
    BY <1>1, TailerType
  <2>3. t = [pc |-> tailer.pc, plan |-> tailer.plan, line |-> tailer.line, eof |-> tailer.eof, skip |-> tailer.skip, last |-> tailer.last,
             lastLine |-> tailer.lastLine, bad |-> bad2, from |-> tailer.from]
    BY <2>1, <2>2 DEF TailerSet
  <2>4. tailer' = [t EXCEPT !.plan = plan2, !.line = 0, !.eof = FALSE, !.skip = [c \in Consumers |-> 0],
                            !.pc = IF plan2 = {} THEN "flush" ELSE "read"]
    <3>1. tailer' = Advance(t)
      BY <1>5, <2>1 DEF ReadJunk
    <3> QED
      BY <1>5, <2>3, <3>1 DEF Advance, Cur
  <2> QED
    BY <2>3, <2>4
<1>7. ASSUME NEW c \in Consumers PROVE FileCovered(seg, Cur, Kept(c)')
  <2>1. Kept(c)' = Kept(c)
    BY <1>4 DEF Kept, Taken, Handed, AccountedFor
  <2>2. Covered(seg, Cur, tailer.line, Kept(c))
    BY <1>1, <1>2 DEF Coverage, CoverageOf
  <2>3. ASSUME NEW k \in Nat, Rd(seg, Cur, k) PROVE k <= tailer.line
    BY <1>2, <2>3 DEF Rd
  <2> QED
    BY <1>2, <2>1, <2>2, <2>3 DEF Covered, FileCovered
<1>8. unread' \in [Consumers -> SUBSET Positions] /\ \A c \in Consumers : unread[c] \subseteq unread'[c]
  BY <1>1, <1>4 DEF TailTypeOK
<1> QED
  BY <1>1, <1>3, <1>4, <1>5, <1>6, <1>7, <1>8, FileEnds

LEMMA IsFileDoneKeeps ==
  ASSUME TailIInv, IsFileDone
  PROVE  TailIInv'
<1>1. TailTypeOK /\ Segments /\ Coverage /\ tailer.pc = "eof"
  BY Parts DEF IsFileDone
<1>2. UNCHANGED <<seg, checkpoint, batch, out, crashes, done, handed, skipped, passed>>
  BY DEF IsFileDone
<1>3. CASE seg[Cur].state # "done"
  <2>1. tailer' = [tailer EXCEPT !.pc = "read", !.eof = FALSE] /\ unread' = unread
    BY <1>3 DEF IsFileDone
  <2> QED
    BY <1>1, <1>2, <2>1, EofKeeps DEF history
<1>4. CASE seg[Cur].state = "done"
  <2>1. /\ Reading /\ Cur \in 1..Len(seg) /\ Cur \in 1..MaxSegments /\ tailer.line \in Nat
        /\ seg[Cur].visible \in Nat /\ seg[Cur].visible <= MaxLines
    BY <1>1, Place
  <2>2. unread' = [c \in Consumers |-> unread[c] \cup {<<Cur, l>> : l \in (tailer.line + 1)..seg[Cur].visible}]
    BY <1>4 DEF IsFileDone
  <2>3. unread' \in [Consumers -> SUBSET Positions] /\ \A c \in Consumers : unread[c] \subseteq unread'[c]
    <3>1. {<<Cur, l>> : l \in (tailer.line + 1)..seg[Cur].visible} \subseteq Positions
      BY <2>1, LogAssumption DEF Positions
    <3> QED
      BY <1>1, <2>2, <3>1 DEF TailTypeOK
  <2>4. PICK plan2 : plan2 = tailer.plan \ {Cur}
    OBVIOUS
  <2>5. tailer' = [pc |-> IF plan2 = {} THEN "flush" ELSE "read", plan |-> plan2, line |-> 0, eof |-> FALSE,
                   skip |-> [c \in Consumers |-> 0], last |-> Cur, lastLine |-> tailer.line, bad |-> tailer.bad,
                   from |-> tailer.from]
    <3>1. PICK t : t = [tailer EXCEPT !.last = Cur, !.lastLine = tailer.line]
      OBVIOUS
    <3>2. tailer \in TailerSet
      BY <1>1, TailerType
    <3>3. t = [pc |-> tailer.pc, plan |-> tailer.plan, line |-> tailer.line, eof |-> tailer.eof, skip |-> tailer.skip, last |-> Cur,
               lastLine |-> tailer.line, bad |-> tailer.bad, from |-> tailer.from]
      BY <3>1, <3>2 DEF TailerSet
    <3>4. tailer' = [t EXCEPT !.plan = plan2, !.line = 0, !.eof = FALSE, !.skip = [c \in Consumers |-> 0],
                              !.pc = IF plan2 = {} THEN "flush" ELSE "read"]
      <4>1. tailer' = Advance(t)
        BY <1>4, <3>1 DEF IsFileDone
      <4> QED
        BY <2>4, <3>3, <4>1 DEF Advance, Cur
    <3> QED
      BY <3>3, <3>4
  <2>6. ASSUME NEW c \in Consumers PROVE FileCovered(seg, Cur, Kept(c)')
    <3>1. Covered(seg, Cur, tailer.line, Kept(c))
      BY <1>1, <2>1 DEF Coverage, CoverageOf
    <3>2. Kept(c) \subseteq Kept(c)' /\ unread'[c] \subseteq Kept(c)'
      BY <1>2, <2>3 DEF Kept, Taken, Handed, AccountedFor
    <3>3. ASSUME NEW k \in Nat, Rd(seg, Cur, k) PROVE <<Cur, k>> \in Kept(c)'
      <4>1. CASE k <= tailer.line
        BY <2>1, <3>1, <3>2, <3>3, <4>1 DEF Covered
      <4>2. CASE k > tailer.line
        <5>1. k \in (tailer.line + 1)..seg[Cur].visible
          BY <2>1, <3>3, <4>2 DEF Rd
        <5> QED
          BY <2>2, <3>2, <5>1
      <4> QED
        BY <2>1, <4>1, <4>2
    <3> QED
      BY <3>3 DEF FileCovered
  <2> QED
    BY <1>1, <1>2, <1>4, <2>3, <2>4, <2>5, <2>6, FileEnds
<1> QED
  BY <1>3, <1>4

LEMMA YieldKeeps ==
  ASSUME TailIInv, NEW ready \in SUBSET Consumers, Yield(ready)
  PROVE  TailIInv'
<1>1. /\ TailTypeOK /\ Segments /\ Control /\ Marks /\ Hands /\ Coverage /\ Once
      /\ tailer.pc \in {"read", "eof", "flush"} /\ Running
      /\ Existing(tailer.from) = {} /\ \A c \in Consumers : tailer.from[c] = NoCheckpoint
  BY Parts DEF Yield, Running, MoreMayCome
<1>2. UNCHANGED <<seg, checkpoint, crashes, done, unread, skipped, passed>>
  BY DEF Yield
<1>3. NoCheckpoint \in Checkpoints /\ 0 \in 0..MaxSegments /\ 0 \in 0..MaxLines
  BY LogAssumption DEF Checkpoints
<1>4. CASE tailer.pc = "flush" /\ ready # {} /\ tailer.last = 0
  <2>1. /\ tailer' = [Down EXCEPT !.pc = "panicked"] /\ batch' = [c \in Consumers |-> {}]
        /\ out' = out /\ handed' = handed
    BY <1>4 DEF Yield
  <2>2. tailer' = [pc |-> "panicked", plan |-> {}, line |-> 0, eof |-> FALSE, skip |-> [c \in Consumers |-> 0], last |-> 0,
                   lastLine |-> 0, bad |-> {}, from |-> [c \in Consumers |-> NoCheckpoint]]
    BY <2>1 DEF Down
  <2>3. tailer' \in TailerSet
    BY <1>3, <2>2 DEF TailerSet
  <2>4. TailTypeOK'
    BY <1>1, <1>2, <2>1, <2>3 DEF TailTypeOK, TailerSet
  <2>5. Control' /\ Marks' /\ Hands' /\ Once'
    BY <1>1, <1>2, <2>1, <2>2 DEF Control, Marks, Hands, Once, Running, Reading
  <2>6. Coverage'
    <3> SUFFICES ASSUME NEW c \in Consumers PROVE CoverageOf(c)'
      BY DEF Coverage
    <3>1. CoverageOf(c)
      BY <1>1 DEF Coverage
    <3>2. /\ tailer'.pc = "panicked" /\ tailer'.last = 0 /\ tailer'.bad = {}
          /\ \A d \in Consumers : tailer'.from[d] = NoCheckpoint
      BY <2>2
    <3>3. Existing(tailer'.from) = {}
      BY <3>2 DEF Existing
    <3>4. AccountedFor(c)' = AccountedFor(c) /\ Taken(c)' = Taken(c)
      BY <1>2, <2>1 DEF AccountedFor, Taken, Handed
    <3> QED
      BY <1>1, <1>2, <2>1, <3>1, <3>2, <3>3, <3>4 DEF CoverageOf, Reading
  <2> QED
    BY <1>1, <1>2, <2>4, <2>5, <2>6 DEF TailIInv, Segments
<1>5. CASE ~(tailer.pc = "flush" /\ ready # {} /\ tailer.last = 0)
  <2>1. PICK pc : pc = IF ready = {} THEN "plan" ELSE "yielded"
    OBVIOUS
  <2>2. /\ tailer' = [tailer EXCEPT !.pc = pc]
        /\ out' = [c \in Consumers |-> IF c \in ready THEN out[c] \cup {[recs |-> batch[c], at |-> CommitAt]} ELSE out[c]]
        /\ batch' = [c \in Consumers |-> IF c \in ready THEN {} ELSE batch[c]]
        /\ handed' = [c \in Consumers |-> IF c \in ready THEN handed[c] \cup batch[c] ELSE handed[c]]
    BY <1>5, <2>1 DEF Yield
  <2>3. /\ tailer' \in TailerSet
        /\ tailer'.pc = pc /\ tailer'.plan = tailer.plan /\ tailer'.line = tailer.line /\ tailer'.skip = tailer.skip
        /\ tailer'.last = tailer.last /\ tailer'.lastLine = tailer.lastLine /\ tailer'.bad = tailer.bad
        /\ tailer'.from = tailer.from
    <3>1. tailer \in TailerSet
      BY <1>1, TailerType
    <3> QED
      BY <2>1, <2>2, <3>1 DEF TailerSet
  <2>4. Cur' = Cur /\ Running'
    BY <2>1, <2>3 DEF Cur, Running
  <2>5. Reading' => Reading
    <3>1. tailer.pc = "flush" => tailer.plan = {}
      BY <1>1 DEF Control
    <3> QED
      BY <1>1, <2>1, <2>3, <3>1 DEF Reading
  \* What is committed is what the tailer has been through.
  <2>6. ASSUME NEW c \in ready
        PROVE  /\ CommitAt \in Positions /\ Written(seg, CommitAt[1], CommitAt[2])
               /\ Covered(seg, CommitAt[1], CommitAt[2], Kept(c))
    <3>2. CASE tailer.pc \in {"read", "eof"}
      <4>1. CommitAt = <<Cur, tailer.line>> /\ Reading
        BY <3>2 DEF CommitAt, Reading
      <4>2. CommitAt \in Positions
        BY <1>1, <3>2, <4>1, Place, TailerType, LogAssumption DEF Positions
      <4> QED
        BY <1>1, <4>1, <4>2 DEF Marks, Coverage, CoverageOf
    <3>3. CASE tailer.pc = "flush"
      <4>1. CommitAt = <<tailer.last, tailer.lastLine>> /\ tailer.last # 0
        BY <1>5, <3>3 DEF CommitAt
      <4>2. CommitAt \in Positions
        BY <1>1, <4>1, TailerType DEF Positions
      <4>3. \A f \in 1..tailer.last : FileCovered(seg, f, Kept(c))
        BY <1>1 DEF Coverage, CoverageOf
      <4>4. tailer.last \in Nat
        BY <1>1, TailerType
      <4>5. Covered(seg, tailer.last, tailer.lastLine, Kept(c))
        <5>1. ASSUME NEW g \in Nat, NEW k \in Nat, Rd(seg, g, k), g <= tailer.last PROVE <<g, k>> \in Kept(c)
          BY <4>3, <4>4, <5>1 DEF FileCovered, Rd
        <5> QED
          BY <4>4, <5>1 DEF Covered
      <4> QED
        BY <1>1, <4>1, <4>2, <4>5 DEF Marks
    <3> QED
      BY <1>1, <3>2, <3>3
  <2>7. ASSUME NEW c \in Consumers
        PROVE  /\ Kept(c)' = Kept(c) /\ Taken(c) \subseteq Taken(c)' /\ AccountedFor(c)' = AccountedFor(c)
               /\ c \in ready => Taken(c)' = Kept(c)
    <3>1. AccountedFor(c)' = AccountedFor(c)
      BY <1>2 DEF AccountedFor
    <3>2. CASE c \in ready
      <4>1. out'[c] = out[c] \cup {[recs |-> batch[c], at |-> CommitAt]} /\ batch'[c] = {}
        BY <2>2, <3>2
      <4>2. Handed(c)' = Handed(c) \cup batch[c]
        <5>1. PICK new : new = [recs |-> batch[c], at |-> CommitAt]
          OBVIOUS
        <5>2. new.recs = batch[c] /\ out'[c] = out[c] \cup {new}
          BY <4>1, <5>1
        <5> QED
          BY <5>2 DEF Handed
      <4> QED
        BY <3>1, <4>1, <4>2 DEF Kept, Taken
    <3>3. CASE c \notin ready
      <4>1. out'[c] = out[c] /\ batch'[c] = batch[c]
        BY <2>2, <3>3
      <4> QED
        BY <3>1, <3>3, <4>1 DEF Kept, Taken, Handed
    <3> QED
      BY <3>2, <3>3
  <2>8. TailTypeOK'
    <3>1. out' \in [Consumers -> SUBSET [recs : SUBSET Positions, at : Positions]]
      BY <1>1, <2>2, <2>6 DEF TailTypeOK
    <3>2. batch' \in [Consumers -> SUBSET Positions] /\ handed' \in [Consumers -> SUBSET Positions]
      BY <1>1, <2>2 DEF TailTypeOK
    <3> QED
      BY <1>1, <1>2, <2>3, <3>1, <3>2 DEF TailTypeOK, TailerSet
  <2>9. Control'
    <3>1. ready = {} => tailer.pc = "flush"
      BY DEF Yield
    <3> QED
      BY <1>1, <1>2, <2>1, <2>3, <2>4, <3>1 DEF Control
  <2>10. \A c \in Consumers : \A b \in out'[c] : b \in out[c] \/ (c \in ready /\ b.at = CommitAt)
    BY <2>2
  <2>11. Marks'
    <3>1. \A c \in Consumers : \A b \in out'[c] : Written(seg, b.at[1], b.at[2])
      BY <1>1, <2>6, <2>10 DEF Marks
    <3> QED
      BY <1>1, <1>2, <2>3, <2>4, <2>5, <3>1 DEF Marks
  <2>12. Hands'
    BY <2>1, <2>3, <2>4 DEF Hands
  <2>13. Coverage'
    <3> SUFFICES ASSUME NEW c \in Consumers PROVE CoverageOf(c)'
      BY DEF Coverage
    <3>1. CoverageOf(c)
      BY <1>1 DEF Coverage
    <3>2. \A b \in out'[c] : Covered(seg, b.at[1], b.at[2], Taken(c)')
      <4> SUFFICES ASSUME NEW b \in out'[c] PROVE Covered(seg, b.at[1], b.at[2], Taken(c)')
        OBVIOUS
      <4>1. CASE b \in out[c]
        BY <1>1, <1>2, <2>7, <4>1, OnlyMore
      <4>2. CASE c \in ready /\ b.at = CommitAt
        BY <2>6, <2>7, <4>2
      <4> QED
        BY <2>10, <4>1, <4>2
    <3> QED
      BY <1>1, <1>2, <2>3, <2>4, <2>5, <2>7, <3>1, <3>2 DEF CoverageOf
  <2>14. Once'
    <3>1. \A c \in Consumers : batch'[c] \cup handed'[c] \subseteq batch[c] \cup handed[c]
      BY <2>2
    <3> QED
      BY <1>1, <2>3, <2>4, <3>1 DEF Once
  <2> QED
    BY <1>1, <1>2, <2>8, <2>9, <2>11, <2>12, <2>13, <2>14 DEF TailIInv, Segments
<1> QED
  BY <1>4, <1>5

LEMMA CommitKeeps ==
  ASSUME TailIInv, NEW c \in Consumers, NEW b \in out[c], Commit(c, b)
  PROVE  TailIInv'
<1>1. /\ TailTypeOK /\ Segments /\ Control /\ Marks /\ Hands /\ Coverage /\ Once
      /\ \A d \in Consumers : tailer.from[d] = NoCheckpoint
  BY Parts DEF Control
<1>2. PICK over : over = {r \in UNION {o.recs : o \in out[c] \ {b}} : AtOrBefore(r, b.at)}
  OBVIOUS
<1>3. /\ checkpoint' = [checkpoint EXCEPT ![c] = b.at]
      /\ done' = [done EXCEPT ![c] = @ \cup b.recs]
      /\ out' = [out EXCEPT ![c] = @ \ {b}]
      /\ passed' = [passed EXCEPT ![c] = @ \cup over]
      /\ UNCHANGED <<seg, tailer, batch, crashes, handed, unread, skipped>>
  BY <1>2 DEF Commit
<1>4. b.recs \in SUBSET Positions /\ b.at \in Positions /\ \A o \in out[c] : o.recs \in SUBSET Positions
  BY <1>1 DEF TailTypeOK
<1>5. TailTypeOK'
  <2>1. over \in SUBSET Positions
    BY <1>2, <1>4
  <2>2. done' \in [Consumers -> SUBSET Positions] /\ passed' \in [Consumers -> SUBSET Positions]
    BY <1>1, <1>3, <1>4, <2>1 DEF TailTypeOK
  <2>3. checkpoint' \in [Consumers -> Checkpoints]
    BY <1>1, <1>3, <1>4 DEF TailTypeOK, Checkpoints
  <2>4. out' \in [Consumers -> SUBSET [recs : SUBSET Positions, at : Positions]]
    BY <1>1, <1>3 DEF TailTypeOK
  <2> QED
    BY <1>1, <1>3, <2>2, <2>3, <2>4 DEF TailTypeOK
<1>6. /\ checkpoint'[c] = b.at /\ done'[c] = done[c] \cup b.recs /\ out'[c] = out[c] \ {b}
      /\ passed'[c] = passed[c] \cup over
      /\ \A d \in Consumers : d # c =>
           checkpoint'[d] = checkpoint[d] /\ done'[d] = done[d] /\ out'[d] = out[d] /\ passed'[d] = passed[d]
  BY <1>1, <1>3 DEF TailTypeOK
<1>7. Control'
  BY <1>1, <1>3 DEF Control, Cur
<1>8. Marks'
  <2>1. \A d \in Consumers : out'[d] \subseteq out[d]
    BY <1>6
  <2>2. \A d \in Consumers : checkpoint'[d] # NoCheckpoint => Written(seg, checkpoint'[d][1], checkpoint'[d][2])
    BY <1>1, <1>6 DEF Marks
  <2> QED
    BY <1>1, <1>3, <2>1, <2>2 DEF Marks, Cur, Reading
<1>9. Hands'
  BY <1>1, <1>3, <1>6 DEF Hands, Running
<1>10. ASSUME NEW d \in Consumers
       PROVE  /\ AccountedFor(d) \subseteq AccountedFor(d)' /\ Taken(d) \subseteq Taken(d)' /\ Kept(d) \subseteq Kept(d)'
  <2>1. AccountedFor(d) \subseteq AccountedFor(d)'
    BY <1>3, <1>6 DEF AccountedFor
  <2>2. Handed(d) \subseteq AccountedFor(d)' \cup Handed(d)'
    <3>1. CASE d = c
      <4>1. ASSUME NEW r, NEW o \in out[c], r \in o.recs PROVE r \in AccountedFor(c)' \cup Handed(c)'
        <5>1. CASE o = b
          BY <1>6, <4>1, <5>1 DEF AccountedFor
        <5>2. CASE o # b
          BY <1>6, <4>1, <5>2 DEF Handed
        <5> QED
          BY <5>1, <5>2
      <4> QED
        BY <3>1, <4>1 DEF Handed
    <3>2. CASE d # c
      BY <1>6, <3>2 DEF Handed
    <3> QED
      BY <3>1, <3>2
  <2> QED
    BY <1>3, <2>1, <2>2 DEF Taken, Kept
\* What is up to the position of the batch is of the batch, or was dealt with
\* before, or is of a batch that it overtakes.
<1>11. Covered(seg, b.at[1], b.at[2], AccountedFor(c)')
  <2>1. Covered(seg, b.at[1], b.at[2], Taken(c))
    BY <1>1 DEF Coverage, CoverageOf
  <2>2. b.at[1] \in Nat /\ b.at[2] \in Nat /\ b.at = <<b.at[1], b.at[2]>>
    BY <1>4, LogAssumption DEF Positions
  <2>3. ASSUME NEW g \in Nat, NEW k \in Nat, Rd(seg, g, k), g < b.at[1] \/ (g = b.at[1] /\ k <= b.at[2])
        PROVE  <<g, k>> \in AccountedFor(c)'
    <3>1. <<g, k>> \in Taken(c)
      BY <2>1, <2>3 DEF Covered
    <3>2. AtOrBefore(<<g, k>>, b.at)
      BY <2>2, <2>3 DEF AtOrBefore, Before
    <3>3. ASSUME NEW o \in out[c], <<g, k>> \in o.recs PROVE <<g, k>> \in AccountedFor(c)'
      <4>1. CASE o = b
        BY <1>6, <3>3, <4>1 DEF AccountedFor
      <4>2. CASE o # b
        <5>1. <<g, k>> \in over
          BY <1>2, <3>2, <3>3, <4>2
        <5> QED
          BY <1>6, <5>1 DEF AccountedFor
      <4> QED
        BY <4>1, <4>2
    <3> QED
      BY <1>10, <3>1, <3>3 DEF Taken, Handed
  <2> QED
    BY <2>3 DEF Covered
<1>12. Coverage'
  <2> SUFFICES ASSUME NEW d \in Consumers PROVE CoverageOf(d)'
    BY DEF Coverage
  <2>1. CoverageOf(d) /\ Existing(tailer.from) = {}
    BY <1>1 DEF Coverage, Existing
  <2>2. /\ \A f \in 1..tailer.last : FileCovered(seg, f, Kept(d)')
        /\ \A f \in tailer.bad : FileCovered(seg, f, Kept(d)')
    BY <1>10, <2>1, FileCoveredMono DEF CoverageOf
  <2>3. Reading => Covered(seg, Cur, tailer.line, Kept(d)') /\ Covered(seg, Cur, tailer.skip[d], Kept(d)')
    BY <1>10, <2>1 DEF CoverageOf, Covered
  <2>4. checkpoint'[d] # NoCheckpoint => Covered(seg, checkpoint'[d][1], checkpoint'[d][2], AccountedFor(d)')
    <3>1. CASE d = c
      BY <1>6, <1>11, <3>1
    <3>2. CASE d # c
      BY <1>6, <1>10, <2>1, <3>2 DEF CoverageOf, Covered
    <3> QED
      BY <3>1, <3>2
  <2>5. \A o \in out'[d] : Covered(seg, o.at[1], o.at[2], Taken(d)')
    <3>1. out'[d] \subseteq out[d]
      BY <1>6
    <3> QED
      BY <1>10, <2>1, <3>1 DEF CoverageOf, Covered
  <2> QED
    BY <1>3, <2>1, <2>2, <2>3, <2>4, <2>5 DEF CoverageOf, Cur, Reading
<1>13. Once'
  BY <1>1, <1>3 DEF Once, Running, Cur
<1> QED
  BY <1>1, <1>3, <1>5, <1>7, <1>8, <1>9, <1>12, <1>13 DEF TailIInv, Segments

LEMMA PollKeeps ==
  ASSUME TailIInv, Poll
  PROVE  TailIInv'
<1>1. /\ TailTypeOK /\ Segments /\ Control /\ Marks /\ Hands /\ Coverage /\ Once /\ tailer.pc = "yielded"
      /\ \A c \in Consumers : tailer.from[c] = NoCheckpoint
  BY Parts DEF Poll
<1>2. UNCHANGED <<seg, checkpoint, batch, out, crashes, done, handed, unread, skipped, passed>>
  BY DEF Poll, history
<1>3. PICK pc : pc = IF tailer.plan = {} THEN "plan" ELSE "read"
  OBVIOUS
<1>4. /\ tailer' \in TailerSet
      /\ tailer'.pc = pc /\ tailer'.plan = tailer.plan /\ tailer'.line = tailer.line /\ tailer'.skip = tailer.skip
      /\ tailer'.last = tailer.last /\ tailer'.lastLine = tailer.lastLine /\ tailer'.bad = tailer.bad
      /\ tailer'.from = tailer.from
  <2>1. tailer \in TailerSet /\ tailer' = [tailer EXCEPT !.pc = pc]
    BY <1>1, <1>3, TailerType DEF Poll
  <2> QED
    BY <1>3, <2>1 DEF TailerSet
<1>5. TailTypeOK'
  BY <1>1, <1>2, <1>4 DEF TailTypeOK, TailerSet
<1>6. Reading' = Reading /\ Running /\ Running' /\ Cur' = Cur
  BY <1>1, <1>3, <1>4 DEF Reading, Running, Cur
<1>7. Control' /\ Marks' /\ Hands' /\ Once'
  BY <1>1, <1>2, <1>3, <1>4, <1>6 DEF Control, Marks, Hands, Once
<1>8. Coverage'
  <2> SUFFICES ASSUME NEW c \in Consumers PROVE CoverageOf(c)'
    BY DEF Coverage
  <2>1. /\ CoverageOf(c) /\ Kept(c)' = Kept(c) /\ Taken(c)' = Taken(c)
        /\ AccountedFor(c)' = AccountedFor(c)
    BY <1>1, <1>2 DEF Coverage, Kept, Taken, Handed, AccountedFor
  <2> QED
    BY <1>2, <1>4, <1>6, <2>1 DEF CoverageOf
<1> QED
  BY <1>1, <1>2, <1>5, <1>7, <1>8 DEF TailIInv, Segments

LEMMA StopKeeps ==
  ASSUME TailIInv, Stop
  PROVE  TailIInv'
<1>1. TailTypeOK /\ Segments /\ Control /\ Marks /\ Hands /\ Coverage /\ Once
  BY Parts
<1>2. /\ batch' = [c \in Consumers |-> {}] /\ out' = [c \in Consumers |-> {}]
      /\ UNCHANGED <<seg, checkpoint, done, handed, unread, skipped, passed>>
  BY DEF Stop, history
<1>3. tailer' = [pc |-> "down", plan |-> {}, line |-> 0, eof |-> FALSE, skip |-> [c \in Consumers |-> 0], last |-> 0,
                 lastLine |-> 0, bad |-> {}, from |-> [c \in Consumers |-> NoCheckpoint]]
  BY DEF Stop, Down
<1>4. TailTypeOK'
  <2>1. NoCheckpoint \in Checkpoints /\ 0 \in 0..MaxSegments /\ 0 \in 0..MaxLines
    BY LogAssumption DEF Checkpoints
  <2>2. tailer' \in TailerSet
    BY <1>3, <2>1 DEF TailerSet
  <2>4. /\ out' \in [Consumers -> SUBSET [recs : SUBSET Positions, at : Positions]]
        /\ batch' \in [Consumers -> SUBSET Positions]
    BY <1>2
  <2>5. crashes' \in 0..MaxCrashes
    BY <1>1, LogAssumption DEF Stop, TailTypeOK
  <2> QED
    BY <1>1, <1>2, <2>2, <2>4, <2>5 DEF TailTypeOK, TailerSet
<1>5. Control' /\ Marks' /\ Hands' /\ Once'
  BY <1>1, <1>2, <1>3 DEF Control, Marks, Hands, Once, Running, Reading
<1>6. Coverage'
  <2> SUFFICES ASSUME NEW c \in Consumers PROVE CoverageOf(c)'
    BY DEF Coverage
  <2>1. CoverageOf(c) /\ AccountedFor(c)' = AccountedFor(c)
    BY <1>1, <1>2 DEF Coverage, AccountedFor
  <2>2. tailer'.pc = "down" /\ tailer'.last = 0 /\ tailer'.bad = {} /\ \A d \in Consumers : tailer'.from[d] = NoCheckpoint
    BY <1>3
  <2>3. Existing(tailer'.from) = {}
    BY <2>2 DEF Existing
  <2> QED
    BY <1>2, <2>1, <2>2, <2>3 DEF CoverageOf, Reading
<1> QED
  BY <1>1, <1>2, <1>4, <1>5, <1>6 DEF TailIInv, Segments
-----------------------------------------------------------------------------
(* The theorems.                                                           *)

LEMMA TailInitial ==
  ASSUME TailInit
  PROVE  TailIInv
<1>1. /\ seg = <<>> /\ Len(seg) = 0 /\ \A c \in Consumers : checkpoint[c] = NoCheckpoint /\ batch[c] = {} /\ out[c] = {}
  BY DEF TailInit
<1>2. tailer = [pc |-> "down", plan |-> {}, line |-> 0, eof |-> FALSE, skip |-> [c \in Consumers |-> 0], last |-> 0,
                lastLine |-> 0, bad |-> {}, from |-> [c \in Consumers |-> NoCheckpoint]]
  BY DEF TailInit, Down
<1>3. TailTypeOK
  <2>1. NoCheckpoint \in Checkpoints /\ 0 \in 0..MaxSegments /\ 0 \in 0..MaxLines /\ 0 \in 0..MaxCrashes
    BY LogAssumption DEF Checkpoints
  <2>2. tailer \in TailerSet
    BY <1>2, <2>1 DEF TailerSet
  <2>3. seg \in Seq(Segment)
    BY <1>1
  <2> QED
    BY <2>1, <2>2, <2>3 DEF TailInit, TailTypeOK, TailerSet, Segment
<1>4. Segments
  BY <1>1, LogAssumption DEF Segments, SegmentsOf
<1>5. Control /\ Marks /\ Hands /\ Once
  BY <1>1, <1>2 DEF Control, Marks, Hands, Once, Running, Reading
<1>6. Coverage
  <2>1. Existing(tailer.from) = {}
    BY <1>2 DEF Existing
  <2> QED
    BY <1>1, <1>2, <2>1 DEF Coverage, CoverageOf, Reading
<1> QED
  BY <1>3, <1>4, <1>5, <1>6 DEF TailIInv

LEMMA TailInductive ==
  ASSUME TailIInv, [TailNext]_tailVars
  PROVE  TailIInv'
<1>1. TailTypeOK /\ Segments
  BY DEF TailIInv
<1>2. ASSUME NEW k \in Kinds, WriteLine(k) PROVE TailIInv'
  <2>1. crashes' \in 0..MaxCrashes /\ UNCHANGED <<checkpoint, tailer, batch, out, history>>
    BY <1>1, <1>2 DEF WriteLine, TailTypeOK
  <2> QED
    BY <1>1, <1>2, <2>1, WriteLineGrows, ProducerKeeps
<1>3. ASSUME NEW f \in 1..Last, Flush(f) \/ Finish(f) \/ MarkDone(f) PROVE TailIInv'
  <2>1. UNCHANGED <<checkpoint, tailer, batch, out, history>> /\ crashes' \in 0..MaxCrashes
    BY <1>1, <1>3 DEF Flush, Finish, MarkDone, TailTypeOK
  <2> QED
    BY <1>1, <1>3, <2>1, OtherProducerGrows, ProducerKeeps
<1>4. CASE ProducerCrash
  <2>1. UNCHANGED <<checkpoint, tailer, batch, out, history>>
    BY <1>4 DEF ProducerCrash
  <2>2. crashes \in 0..MaxCrashes /\ crashes < MaxCrashes /\ crashes' = crashes + 1
    BY <1>1, <1>4 DEF ProducerCrash, TailTypeOK
  <2>3. crashes' \in 0..MaxCrashes
    BY <2>2, LogAssumption
  <2> QED
    BY <1>1, <1>4, <2>1, <2>3, CrashGrows, ProducerKeeps
<1>5. CASE Eof
  <2>1. /\ UNCHANGED <<seg, checkpoint, batch, out, crashes, history>> /\ tailer.pc = "read"
        /\ tailer' = [tailer EXCEPT !.pc = "eof", !.eof = TRUE]
    BY <1>5 DEF Eof, Filling
  <2> QED
    BY <2>1, EofKeeps
<1>6. CASE UNCHANGED tailVars
  BY <1>6 DEF tailVars, history, TailIInv, TailTypeOK, Segments, Control, Marks, Hands, Coverage, CoverageOf, Once,
              Kept, Taken, Handed, AccountedFor, Running, Reading, Cur
<1> QED
  BY <1>2, <1>3, <1>4, <1>5, <1>6, StartKeeps, BuildPlanKeeps, ReadLineKeeps, ReadJunkKeeps, IsFileDoneKeeps, PollKeeps,
     YieldKeeps, CommitKeeps, StopKeeps DEF TailNext, TailerStep

\* The inductive invariant of the log and its tailer.
THEOREM TailInvariant == TailSpec => []TailIInv
<1>1. TailInit => TailIInv
  BY TailInitial
<1>2. TailIInv /\ [TailNext]_tailVars => TailIInv'
  BY TailInductive
<1> QED
  BY <1>1, <1>2, PTL DEF TailSpec

\* For every number of consumers, segments, lines and crashes: the log, the
\* checkpoints and the state of the tailer have their types.
THEOREM LogTypeCorrect == TailSpec => []TailTypeOK
<1>1. TailIInv => TailTypeOK
  BY DEF TailIInv
<1> QED
  BY <1>1, TailInvariant, PTL

\* For every number of consumers, segments, lines, open segments and crashes:
\* whatever is before a consumer's checkpoint was handed to it and committed, or
\* refused by its filter, or it is one of the three exceptions of Accounted: it
\* was passed over at the end of a file, or it was before the place at which a
\* consumer without a checkpoint was started, or the consumer overtook the batch
\* it was in with a later commit.
THEOREM NothingSkipped == TailSpec => []Accounted
<1>1. ASSUME TailIInv PROVE Accounted
  <2> SUFFICES ASSUME NEW c \in Consumers, checkpoint[c] # NoCheckpoint,
                      NEW r \in UpTo(checkpoint[c]), Readable(r)
               PROVE  r \in AccountedFor(c)
    BY DEF Accounted
  <2>1. TailTypeOK /\ Coverage
    BY <1>1, Parts
  <2>2. checkpoint[c][1] \in Nat /\ checkpoint[c][2] \in Nat
    BY <2>1, Positioned DEF TailTypeOK
  <2>3. r = <<r[1], r[2]>> /\ r[1] \in Nat /\ r[2] \in Nat /\ AtOrBefore(r, checkpoint[c])
    BY DEF UpTo
  <2>4. Rd(seg, r[1], r[2])
    BY <2>1, SegmentAt DEF Readable, Rd
  <2>5. r[1] < checkpoint[c][1] \/ (r[1] = checkpoint[c][1] /\ r[2] <= checkpoint[c][2])
    BY <2>2, <2>3 DEF AtOrBefore, Before
  <2>6. Covered(seg, checkpoint[c][1], checkpoint[c][2], AccountedFor(c))
    BY <2>1 DEF Coverage, CoverageOf
  <2> QED
    BY <2>3, <2>4, <2>5, <2>6 DEF Covered
<1> QED
  BY <1>1, TailInvariant, PTL

\* For every number of consumers, segments, lines and crashes: a run of the
\* tailer never collects a line for a consumer a second time.
THEOREM NothingRepeated == TailSpec => []NoRepeat
<1>1. ASSUME TailIInv PROVE NoRepeat
  <2> SUFFICES ASSUME Filling, NEW c \in Consumers, <<Cur, tailer.line + 1>> \in batch[c] \cup handed[c]
               PROVE  FALSE
    BY DEF NoRepeat, Offered
  <2>1. Once /\ tailer.pc = "read" /\ TailTypeOK
    BY <1>1, Parts DEF Filling
  <2>2. /\ Running /\ Cur \in 1..Len(seg) /\ Cur > tailer.last /\ Cur \notin tailer.bad /\ tailer.line \in Nat
        /\ tailer.last \in Nat
    BY <1>1, <2>1, Place, TailerType
  <2>3. PICK r : r = <<Cur, tailer.line + 1>>
    OBVIOUS
  <2>4. r[1] = Cur /\ r[2] = tailer.line + 1
    BY <2>3
  <2>5. r[1] \in tailer.bad \/ r[1] <= tailer.last \/ r[2] <= tailer.line
    BY <2>1, <2>2, <2>3 DEF Once
  <2> QED
    BY <2>2, <2>4, <2>5
<1> QED
  BY <1>1, TailInvariant, PTL
=============================================================================
