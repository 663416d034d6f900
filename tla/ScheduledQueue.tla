--------------------------- MODULE ScheduledQueue ---------------------------
(***************************************************************************)
(* Scheduled queues and what moves their messages: QueueStructure          *)
(* (crates/kumod/src/queue/strategy.rs), the shared timer wheels and the   *)
(* per-queue maintainers (maintainer.rs), the delayed half of Queue and    *)
(* its administrative drains (queue.rs).                                   *)
(*                                                                         *)
(* A queue is a set of messages.  With a singleton strategy the timer is a *)
(* shared wheel beside that set: version 1 has an entry for every insert,  *)
(* which a drain leaves behind, version 2 has one entry per message.  With *)
(* TimerWheel and SkipList the queue is its own timer.  A timer gives a    *)
(* message back some time after it is due (TimeQ bounds that), the         *)
(* millisecond wheels of TimerWheel and version 1 up to one tick before.   *)
(***************************************************************************)
EXTENDS Naturals, FiniteSets

CONSTANTS
  Strategies,  \* the values of QueueStrategy to consider
  Msgs,        \* messages
  Queues,      \* scheduled queues
  Batches,     \* bound: batches on their way to the ready queues at one time
  MaxTime,     \* bound: the clock, in ticks
  MaxEntries   \* bound: entries in the timers

V1 == "SingletonTimerWheel"
V2 == "SingletonTimerWheelV2"

ASSUME SQStrategyAssumption == Strategies \subseteq {V1, V2, "TimerWheel", "SkipList"}
ASSUME SQBoundsAssumption == MaxTime \in Nat /\ MaxEntries \in Nat

VARIABLES
  strategy,  \* QueueStrategy, the same for all queues
  now,       \* the clock
  due,       \* Message::get_due; 0 stands for None
  q,         \* QueueStructure of each queue: its messages
  wheel,     \* entries of the shared wheel: message, queue and time
  batch,     \* spawned reinsert_batch tasks, or a maintainer's popped messages
  calling,   \* insert_ready at work for messages that have come due
  out,       \* how many tasks own a message outside of the scheduled queues
  failed,    \* messages for which reinsert_ready_v2 has returned an error
  ended,     \* queues whose maintain_named_queue has returned an error
  shutting   \* the process is shutting down

vars == <<strategy, now, due, q, wheel, batch, calling, out, failed, ended, shutting>>

Singleton == strategy \in {V1, V2}
Entries == [msg : Msgs, queue : Queues, at : 0..MaxTime]
Items == [msg : Msgs, queue : Queues]
NoBatch == [phase |-> "free", items |-> {}, wake |-> 0]

\* Every message is owned by the task that received it.
Init ==
  /\ strategy \in Strategies
  /\ now = 0
  /\ due = [m \in Msgs |-> 0]
  /\ q = [s \in Queues |-> {}]
  /\ wheel = {}
  /\ batch = [b \in Batches |-> NoBatch]
  /\ calling = {}
  /\ out = [m \in Msgs |-> 1]
  /\ failed = {}
  /\ ended = {}
  /\ shutting = FALSE
----------------------------------------------------------------------------
(* Into the queue *)

\* SkipSet::insert removes an entry that compares equal: one with the same
\* second.  The other structures keep what they have.
Displaced(s, d) == IF strategy = "SkipList" THEN {m \in q[s] : due[m] = d} ELSE {}

Stored(m, s, d) ==
  /\ Cardinality(wheel) < MaxEntries
  /\ q' = [q EXCEPT ![s] = (@ \ Displaced(s, d)) \cup {m}]
  /\ wheel' = {e \in wheel : ~(e.queue = s /\ e.msg \in Displaced(s, d))}
                \cup {[msg |-> m, queue |-> s, at |-> d]}
  /\ due' = [due EXCEPT ![m] = d]
  /\ out' = [out EXCEPT ![m] = @ - 1]

\* The owner of the message is neither insert_ready nor a maintainer.
Elsewhere(m) ==
  /\ out[m] > 0
  /\ \A c \in calling : c.msg # m
  /\ Singleton \/ \A b \in Batches : \A i \in batch[b].items : i.msg # m

\* Queue::insert of a message that is not due yet.
Insert(m, s, d) ==
  /\ ~shutting
  /\ Elsewhere(m)
  /\ now < d
  /\ Stored(m, s, d)
  /\ UNCHANGED <<strategy, now, batch, calling, failed, ended, shutting>>

\* The owner disposes of the message: it is delivered or bounced.  During a
\* shutdown Queue::insert saves it and drops it.
Dispose(m) ==
  /\ Elsewhere(m)
  /\ out' = [out EXCEPT ![m] = @ - 1]
  /\ UNCHANGED <<strategy, now, due, q, wheel, batch, calling, failed, ended, shutting>>

\* insert_ready ends: the message is in a ready queue or on its way through
\* requeue_message, in other hands in any case.
InsertReadyEnds(c) ==
  /\ c \in calling
  /\ calling' = calling \ {c}
  /\ UNCHANGED <<strategy, now, due, q, wheel, batch, out, failed, ended, shutting>>

\* The messages that maintain_named_queue has popped from s and not passed on.
Rest(s) == {i \in UNION {batch[b].items : b \in Batches} : i.queue = s}

\* insert_ready returns an error and drops the message, which is left to the
\* spool.  The tasks of the shared wheels log it; maintain_named_queue ends, the
\* messages it still has are dropped, and nothing starts it again.
InsertReadyFails(c) ==
  LET dropped == {c} \cup (IF Singleton THEN {} ELSE Rest(c.queue)) IN
  /\ c \in calling
  /\ calling' = calling \ {c}
  /\ out' = [m \in Msgs |-> IF \E i \in dropped : i.msg = m THEN out[m] - 1 ELSE out[m]]
  /\ IF Singleton
     THEN UNCHANGED <<batch, ended>>
     ELSE /\ batch' = [b \in Batches |-> IF batch[b].items \cap dropped # {} THEN NoBatch ELSE batch[b]]
          /\ ended' = ended \cup {c.queue}
  /\ UNCHANGED <<strategy, now, due, q, wheel, failed, shutting>>

\* insert_ready finds the ready queue full: force_into_delayed, into the queue
\* at hand, also during a shutdown.
ForceIntoDelayed(c, d) ==
  /\ c \in calling
  /\ now < d
  /\ calling' = calling \ {c}
  /\ Stored(c.msg, c.queue, d)
  /\ UNCHANGED <<strategy, now, batch, failed, ended, shutting>>
----------------------------------------------------------------------------
(* Out of the queue *)

\* QueueStructure::drain: a message that version 2 has in flight stays.
Drained(s) ==
  IF strategy = V2 THEN {m \in q[s] : \E e \in wheel : e.msg = m} ELSE q[s]

\* What a drain leaves in the timer: version 1 does not look for its entries.
Uncancelled(s) ==
  IF strategy = V1 THEN wheel
  ELSE {e \in wheel : ~(e.queue = s /\ e.msg \in Drained(s))}

\* Mutant: version 2 does not put the messages in flight back.
DrainForgetsInFlight(s) ==
  /\ Drained(s) # {}
  /\ ~shutting
  /\ q' = [q EXCEPT ![s] = {}]
  /\ wheel' = Uncancelled(s)
  /\ out' = [m \in Msgs |-> IF m \in Drained(s) THEN out[m] + 1 ELSE out[m]]
  /\ UNCHANGED <<strategy, now, due, batch, calling, failed, ended, shutting>>

\* rebind_all, xfer_all, cancel_xfer_all and bounce_all: the messages go on to
\* be inserted again, here or elsewhere, or are removed.
Drain(s) ==
  /\ Drained(s) # {}
  /\ ~shutting
  /\ q' = [q EXCEPT ![s] = @ \ Drained(s)]
  /\ wheel' = Uncancelled(s)
  /\ out' = [m \in Msgs |-> IF m \in Drained(s) THEN out[m] + 1 ELSE out[m]]
  /\ UNCHANGED <<strategy, now, due, batch, calling, failed, ended, shutting>>

\* queue_meta_maintainer (or the maintainer of the queue) during a shutdown:
\* what it drains is saved and dropped.
DrainAndSave(s) ==
  /\ Drained(s) # {}
  /\ shutting
  /\ q' = [q EXCEPT ![s] = @ \ Drained(s)]
  /\ wheel' = Uncancelled(s)
  /\ UNCHANGED <<strategy, now, due, batch, calling, out, failed, ended, shutting>>
----------------------------------------------------------------------------
(* The timer *)

\* TimeQ<T>::pop advances a wheel whose entries count from its last tick, and
\* not from the time of the insert.
Early == IF strategy \in {V1, "TimerWheel"} THEN 1 ELSE 0

Ripe == {e \in wheel : e.at <= now + Early}

\* The weak reference of a version 1 entry can be upgraded.
Upgradable(m) == out[m] > 0 \/ \E s \in Queues : m \in q[s]

\* run_singleton_wheel_v1 and _v2: the entries leave the wheel, the messages
\* stay in their queues.
PopWheel(b, popped) ==
  LET items == {[msg |-> e.msg, queue |-> e.queue] : e \in {x \in popped : Upgradable(x.msg)}} IN
  /\ Singleton
  /\ wheel' = wheel \ popped
  /\ batch' = [batch EXCEPT ![b] = IF items = {} THEN NoBatch
                                   ELSE [phase |-> "spawned", items |-> items, wake |-> 0]]
  /\ UNCHANGED <<q, out>>

\* maintain_named_queue: QueueStructure::pop takes the messages out; the next
\* turn of the loop comes when insert_ready has returned for all of them.
PopQueue(b, popped) ==
  /\ ~Singleton
  /\ \E s \in Queues :
       /\ \A e \in popped : e.queue = s
       /\ s \notin ended
       /\ Rest(s) = {}
       /\ \A c \in calling : c.queue # s
       /\ q' = [q EXCEPT ![s] = @ \ {e.msg : e \in popped}]
  /\ wheel' = wheel \ popped
  /\ out' = [m \in Msgs |-> IF \E e \in popped : e.msg = m THEN out[m] + 1 ELSE out[m]]
  /\ batch' = [batch EXCEPT ![b] = [phase |-> "spawned", wake |-> 0,
                                    items |-> {[msg |-> e.msg, queue |-> e.queue] : e \in popped}]]

Pop(b, popped) ==
  /\ ~shutting
  /\ batch[b] = NoBatch
  /\ popped # {}
  /\ PopWheel(b, popped) \/ PopQueue(b, popped)
  /\ UNCHANGED <<strategy, now, due, calling, failed, ended, shutting>>

\* Mutant: messages that are not due are dropped from the batch.
DueOnly(b) == {i \in batch[b].items : due[i.msg] <= now}

Awaited(b) == batch[b].items

\* Mutant: no wait.
NoWait(b, w) == w = now

\* wait_for_message_batch: until the last message of the batch is due.
WakeTime(b, w) ==
  /\ w = now \/ \E i \in batch[b].items : w = due[i.msg]
  /\ \A i \in batch[b].items : due[i.msg] <= w

StartWait(b) ==
  \E w \in now..MaxTime :
    /\ batch[b].phase = "spawned"
    /\ WakeTime(b, w)
    /\ batch' = [batch EXCEPT ![b] = [phase |-> "asleep", items |-> Awaited(b), wake |-> w]]
    /\ UNCHANGED <<strategy, now, due, q, wheel, calling, out, failed, ended, shutting>>

\* The item leaves the batch; the last one ends it.
Without(b, i) ==
  IF batch[b].items = {i} THEN NoBatch ELSE [batch[b] EXCEPT !.items = @ \ {i}]

\* Mutant: the batch gives up when the process is shutting down.
AwakeUnlessShutting(b, i) ==
  batch[b].phase = "asleep" /\ batch[b].wake <= now /\ i \in batch[b].items /\ ~shutting

Awake(b, i) == batch[b].phase = "asleep" /\ batch[b].wake <= now /\ i \in batch[b].items

\* Mutant: the result of remove is ignored.
ClaimAlways(b, i) ==
  /\ Awake(b, i)
  /\ q' = [q EXCEPT ![i.queue] = @ \ {i.msg}]
  /\ out' = [out EXCEPT ![i.msg] = @ + 1]
  /\ calling' = calling \cup {i}

\* reinsert_ready, reinsert_ready_v2: whoever removes the message from the set
\* owns it and calls insert_ready.  Version 1 has kept the queue handle, version
\* 2 finds the queue by the name in the message's metadata.
Claim(b, i) ==
  /\ Awake(b, i)
  /\ IF i.msg \in q[i.queue]
     THEN /\ q' = [q EXCEPT ![i.queue] = @ \ {i.msg}]
          /\ out' = [out EXCEPT ![i.msg] = @ + 1]
          /\ calling' = calling \cup {i}
     ELSE UNCHANGED <<q, out, calling>>

Reinsert(b, i) ==
  /\ Singleton
  /\ Claim(b, i)
  /\ batch' = [batch EXCEPT ![b] = Without(b, i)]
  /\ UNCHANGED <<strategy, now, due, wheel, failed, ended, shutting>>

\* reinsert_ready_v2 fails before it has the queue (the metadata cannot be
\* loaded, the queue is not in the map): the error is logged.
ReinsertFails(b, i) ==
  /\ strategy = V2
  /\ Awake(b, i)
  /\ failed' = failed \cup {i.msg}
  /\ batch' = [batch EXCEPT ![b] = Without(b, i)]
  /\ UNCHANGED <<strategy, now, due, q, wheel, calling, out, ended, shutting>>

\* maintain_named_queue passes a message that it has popped to insert_ready, one
\* after the other.
PassOn(b, i) ==
  /\ ~Singleton
  /\ Awake(b, i)
  /\ \A c \in calling : c.queue # i.queue
  /\ calling' = calling \cup {i}
  /\ batch' = [batch EXCEPT ![b] = Without(b, i)]
  /\ UNCHANGED <<strategy, now, due, q, wheel, out, failed, ended, shutting>>

Advance ==
  /\ now < MaxTime
  /\ now' = now + 1
  /\ UNCHANGED <<strategy, due, q, wheel, batch, calling, out, failed, ended, shutting>>

Shutdown ==
  /\ ~shutting
  /\ shutting' = TRUE
  /\ UNCHANGED <<strategy, now, due, q, wheel, batch, calling, out, failed, ended>>
----------------------------------------------------------------------------
BatchStep(b) ==
  \/ StartWait(b)
  \/ \E i \in batch[b].items : Reinsert(b, i) \/ ReinsertFails(b, i) \/ PassOn(b, i)

Next ==
  \/ \E m \in Msgs, s \in Queues, d \in 1..MaxTime : Insert(m, s, d)
  \/ \E m \in Msgs : Dispose(m)
  \/ \E c \in calling : InsertReadyEnds(c) \/ InsertReadyFails(c)
  \/ \E c \in calling, d \in 1..MaxTime : ForceIntoDelayed(c, d)
  \/ \E s \in Queues : Drain(s) \/ DrainAndSave(s)
  \/ \E b \in Batches, popped \in SUBSET Ripe : Pop(b, popped)
  \/ \E b \in Batches : BatchStep(b)
  \/ Advance
  \/ Shutdown

Spec == Init /\ [][Next]_vars

\* Time passes; the wheels tick and return every entry some time after it is
\* ripe, as does a maintainer that has not ended; spawned tasks run, insert_ready
\* returns in one way or another, and the maintainers drain at shutdown.
Fairness ==
  /\ WF_vars(Advance)
  /\ \A m \in Msgs : WF_vars(\E b \in Batches, popped \in SUBSET Ripe :
                               Pop(b, popped) /\ \E e \in popped : e.msg = m)
  /\ \A b \in Batches : WF_vars(BatchStep(b))
  /\ \A c \in Items : WF_vars(InsertReadyEnds(c) \/ InsertReadyFails(c))
  /\ \A s \in Queues : WF_vars(DrainAndSave(s))

FairSpec == Spec /\ Fairness
----------------------------------------------------------------------------
\* The timer entries and batch items that name m in s.
Pending(m, s) ==
  \/ \E e \in wheel : e.msg = m /\ e.queue = s
  \/ \E b \in Batches : [msg |-> m, queue |-> s] \in batch[b].items

\* Types, and: outside of version 1 a message has at most one entry, and an
\* entry's message is in the entry's queue.
TypeOK ==
  /\ strategy \in Strategies
  /\ now \in 0..MaxTime
  /\ due \in [Msgs -> 0..MaxTime]
  /\ q \in [Queues -> SUBSET Msgs]
  /\ wheel \subseteq Entries
  /\ batch \in [Batches -> [phase : {"free", "spawned", "asleep"}, items : SUBSET Items,
                            wake : 0..MaxTime]]
  /\ calling \subseteq Items
  /\ out \in [Msgs -> Nat]
  /\ failed \subseteq Msgs
  /\ ended \subseteq Queues
  /\ shutting \in BOOLEAN
  /\ strategy # V1 => /\ \A e \in wheel : e.msg \in q[e.queue] /\ e.at = due[e.msg]
                      /\ \A e, f \in wheel : e.msg = f.msg => e = f

\* A message is owned once: it is in one queue, or one task has it, never both
\* or two, however many stale entries and batches still name it.
OneOwner ==
  \A m \in Msgs :
    /\ out[m] <= 1
    /\ \A s \in Queues : m \in q[s] => out[m] = 0 /\ \A u \in Queues \ {s} : m \notin q[u]

\* A message never disappears from memory without its owner's doing: it leaves
\* its queue only into the hands of a task.
NothingLost ==
  [][~shutting => \A m \in Msgs : (\E s \in Queues : m \in q[s]) /\ (\A s \in Queues : m \notin q'[s])
                                     => out'[m] = 1]_vars

\* A message in a queue has a timer entry or is in a batch that will find it
\* there, unless reinsert_ready_v2 failed for it: rebinding, bouncing and the
\* interplay of pops and drains leave no message without a timer.
NotStranded ==
  \A s \in Queues : \A m \in q[s] : m \in failed \/ Pending(m, s)

\* mod.rs:39: "we want to ensure that the actual time is after the due time of
\* this batch of messages", or insert_ready takes the message for one that the
\* event handler has delayed and gives it a new due time.  Version 1 is left
\* out: a message that is drained and inserted again during the wait is early.
NotEarly == strategy # V1 => \A c \in calling : due[c.msg] <= now

\* mod.rs:49: a batch waits "those few milliseconds" for messages that the wheel
\* has returned too early, so it does not hold a message back that is due: here,
\* not for longer than the tick by which the wheel may be early.
DueNotHeldBack ==
  [][\A b \in Batches :
       /\ batch[b].phase = "spawned" /\ batch'[b].phase = "asleep"
       /\ \E i \in batch[b].items : i.msg \in q[i.queue] /\ due[i.msg] <= now
       => batch'[b].wake <= now + 1]_vars

\* Every message leaves its queue some time.  Two errors keep it there and
\* nothing else does: one of reinsert_ready_v2 for this message, and one that
\* insert_ready returned to this queue's maintain_named_queue (maintainer.rs:169),
\* which is over then.
LeavesQueue ==
  \A m \in Msgs, s \in Queues : (m \in q[s]) ~> (m \notin q[s] \/ m \in failed \/ s \in ended)

\* After a shutdown has begun the queues become empty and stay so, as
\* queue_meta_maintainer expects, also a queue whose maintainer has ended; only
\* a message for which reinsert_ready_v2 failed may stay.
ShutdownEmpties == shutting ~> [](\A s \in Queues : q[s] \subseteq failed)
=============================================================================
