---------------------------- MODULE QueueManager ----------------------------
(***************************************************************************)
(* The map of scheduled queues: crates/kumod/src/queue/manager.rs, with    *)
(* the idle reaper (Queue::check_reap, queue.rs) and the task that empties *)
(* the map at shutdown (queue_meta_maintainer, maintainer.rs).             *)
(*                                                                         *)
(* A task resolves a queue name and then inserts its message through the   *)
(* handle it got.  An action is one lock section of the map, of a queue or *)
(* of a semaphore; the awaits of the code lie between actions.  A queue is *)
(* an Arc: it exists while the map or a task refers to it.                 *)
(*                                                                         *)
(* Timing assumption.  The two delays of the code, 60 seconds of negative  *)
(* caching and reap_interval, are longer than it takes the waiters of a    *)
(* released semaphore to run, and reap_interval is longer than the install *)
(* and insert of a message.  get_slot states the first of the two.         *)
(***************************************************************************)
EXTENDS Integers, FiniteSets, Sequences, SequencesExt

CONSTANTS
  Names,      \* scheduled queue names
  Tasks,      \* tasks that insert messages
  Deadlined,  \* those that resolve within a deadline
  Msgs,       \* messages
  Queues,     \* bound: Queue objects alive at one time
  Semas,      \* bound: semaphores alive at one time
  NoId,       \* not a queue, semaphore, name or message
  CanFail,    \* whether get_queue_config and its kin may fail
  Reaping     \* whether queues are idle for long enough to be reaped

ASSUME QMDeadlinedAssumption == Deadlined \subseteq Tasks
ASSUME QMFlagAssumption == CanFail \in BOOLEAN /\ Reaping \in BOOLEAN
ASSUME QMIdAssumption ==
  /\ NoId \notin Names \cup Tasks \cup Msgs \cup Queues \cup Semas
  /\ Queues \cap Semas = {}

VARIABLES
  slot,      \* MANAGER.named
  count,     \* SCHEDULED_QUEUE_COUNT
  line,      \* each semaphore's queue: the head has the permit
  pc,        \* where each task stands
  want,      \* the name a task resolves
  sema,      \* the semaphore a task has leased
  hand,      \* the queue handle a task holds
  msg,       \* the message a task carries
  where,     \* the scheduled queue a message is in, or NoId
  entry,     \* the state of its entry in the version 2 wheel
  touched,   \* queues whose last_change is recent
  reap,      \* the name and handle check_reap works on
  meta,      \* the name and handle queue_meta_maintainer works on
  ready,     \* whether there are ready queues
  shutting,  \* the process is shutting down
  done       \* queue_meta_maintainer has returned

task == <<pc, want, sema, hand, msg>>
vars == <<slot, count, line, task, where, entry, touched, reap, meta, ready, shutting, done>>

\* QueueSlot; "expired" is a Failed slot whose expires has passed.
Absent == [kind |-> "absent", id |-> NoId]
Failed == [kind |-> "failed", id |-> NoId]
Expired == [kind |-> "expired", id |-> NoId]
Handle(q) == [kind |-> "handle", id |-> q]
Resolving(s) == [kind |-> "resolving", id |-> s]
Slots == {Absent, Failed, Expired}
           \cup {Handle(q) : q \in Queues} \cup {Resolving(s) : s \in Semas}

Nowhere == [name |-> NoId, q |-> NoId]

Init ==
  /\ slot = [n \in Names |-> Absent]
  /\ count = 0
  /\ line = [s \in Semas |-> <<>>]
  /\ pc = [t \in Tasks |-> "idle"]
  /\ want = [t \in Tasks |-> NoId]
  /\ sema = [t \in Tasks |-> NoId]
  /\ hand = [t \in Tasks |-> NoId]
  /\ msg = [t \in Tasks |-> NoId]
  /\ where = [m \in Msgs |-> NoId]
  /\ entry = [m \in Msgs |-> "wheel"]
  /\ touched = {}
  /\ reap = Nowhere
  /\ meta = Nowhere
  /\ ready = FALSE
  /\ shutting = FALSE
  /\ done = FALSE

----------------------------------------------------------------------------
IsEmpty(q) == \A m \in Msgs : where[m] # q

\* Some Arc<Queue> of q exists.
Alive(q) ==
  \/ \E n \in Names : slot[n] = Handle(q)
  \/ \E t \in Tasks : hand[t] = q
  \/ reap.q = q
  \/ meta.q = q

\* Queue objects are interchangeable, and so are semaphores: which free one is
\* allocated makes no difference.
FreeQueues == {q \in Queues : ~Alive(q) /\ IsEmpty(q)}
NewQueue == CHOOSE q \in FreeQueues : TRUE

\* Semaphores that no slot and no task refers to.
FreeSemas == {s \in Semas :
                /\ \A n \in Names : slot[n] # Resolving(s)
                /\ \A t \in Tasks : sema[t] # s}
NewSema == CHOOSE s \in FreeSemas : TRUE

\* A message that no queue and no task has: it is about to be received, to be
\* loaded from the spool, or to be requeued by a ready queue.
Loose(m) == where[m] = NoId /\ \A t \in Tasks : msg[t] # m

\* Mutant: the permit of a resolve that ends is never given back.
Leaked(t) == [s \in Semas |-> line[s]]

\* The permit, or the place in the queue for it, is given up.
Released(t) == [s \in Semas |-> RemoveFirst(line[s], t)]

Finish(t) ==
  /\ pc' = [pc EXCEPT ![t] = "idle"]
  /\ want' = [want EXCEPT ![t] = NoId]
  /\ sema' = [sema EXCEPT ![t] = NoId]
  /\ hand' = [hand EXCEPT ![t] = NoId]
  /\ msg' = [msg EXCEPT ![t] = NoId]

\* The resolve returns the handle q.
Obtain(t, q) ==
  /\ pc' = [pc EXCEPT ![t] = "insert"]
  /\ sema' = [sema EXCEPT ![t] = NoId]
  /\ hand' = [hand EXCEPT ![t] = q]

\* Every task that has leased a semaphore has one that is still in the map.
Prompt == \A t \in Tasks :
  pc[t] \in {"leased", "waiting"} => slot[want[t]] = Resolving(sema[t])

----------------------------------------------------------------------------
(* Resolving a name *)

\* resolve_lease on a slot that has a handle.
LeaseHandle(t, n) ==
  \E q \in Queues :
    /\ slot[n] = Handle(q)
    /\ pc' = [pc EXCEPT ![t] = "insert"]
    /\ hand' = [hand EXCEPT ![t] = q]
    /\ UNCHANGED <<slot, count, sema>>

\* The number of slots grows when the slot is new.
Counted(n) == count + (IF slot[n] = Absent THEN 1 ELSE 0)

\* Mutant: a fresh semaphore although the slot is being resolved.
LeaseUnshared(t, n) ==
  /\ slot[n].kind = "resolving"
  /\ FreeSemas # {}
  /\ slot' = [slot EXCEPT ![n] = Resolving(NewSema)]
  /\ pc' = [pc EXCEPT ![t] = "leased"]
  /\ sema' = [sema EXCEPT ![t] = NewSema]
  /\ UNCHANGED <<count, hand>>

\* resolve_lease on a slot that somebody else resolves: share its semaphore.
LeaseShared(t, n) ==
  \E s \in Semas :
    /\ slot[n] = Resolving(s)
    /\ pc' = [pc EXCEPT ![t] = "leased"]
    /\ sema' = [sema EXCEPT ![t] = s]
    /\ UNCHANGED <<slot, count, hand>>

\* resolve_lease where there is nothing, or a failure that has expired.
LeaseNew(t, n) ==
  /\ slot[n] \in {Absent, Expired}
  /\ FreeSemas # {}
  /\ slot' = [slot EXCEPT ![n] = Resolving(NewSema)]
  /\ count' = Counted(n)
  /\ pc' = [pc EXCEPT ![t] = "leased"]
  /\ sema' = [sema EXCEPT ![t] = NewSema]
  /\ UNCHANGED hand

\* QueueManager::insert, insert_within_deadline and requeue_message up to the
\* first await of resolve.  On a failure that is still cached they return the
\* error and nothing changes.
Resolve(t, n, m) ==
  /\ ~done
  /\ pc[t] = "idle"
  /\ Loose(m)
  /\ LeaseHandle(t, n) \/ LeaseShared(t, n) \/ LeaseNew(t, n)
  /\ want' = [want EXCEPT ![t] = n]
  /\ msg' = [msg EXCEPT ![t] = m]
  /\ UNCHANGED <<line, where, entry, touched, reap, meta, ready, shutting, done>>

\* sema.acquire joins the semaphore's queue.
Acquire(t) ==
  /\ pc[t] = "leased"
  /\ line' = [line EXCEPT ![sema[t]] = Append(@, t)]
  /\ pc' = [pc EXCEPT ![t] = "waiting"]
  /\ UNCHANGED <<slot, count, want, sema, hand, msg, where, entry, touched, reap, meta,
                 ready, shutting, done>>

HasPermit(t) == pc[t] = "waiting" /\ line[sema[t]] # <<>> /\ Head(line[sema[t]]) = t

\* get_slot finds a handle: somebody else has resolved the name.
GotHandle(t) ==
  \E q \in Queues :
    /\ HasPermit(t)
    /\ slot[want[t]] = Handle(q)
    /\ Obtain(t, q)
    /\ line' = Released(t)
    /\ UNCHANGED <<want, msg>>

\* get_slot finds a failure, expired or not: resolve returns the error.
GotFailure(t) ==
  /\ HasPermit(t)
  /\ slot[want[t]] \in {Failed, Expired}
  /\ Finish(t)
  /\ line' = Released(t)

\* Mutant: get_slot does not recognise a resolved slot.
MustBuildAnyway(t) ==
  /\ HasPermit(t)
  /\ slot[want[t]] \notin {Failed, Expired}
  /\ pc' = [pc EXCEPT ![t] = "build"]
  /\ UNCHANGED <<want, sema, hand, msg, line>>

\* get_slot finds nothing to use: this task creates the queue.
MustBuild(t) ==
  /\ HasPermit(t)
  /\ slot[want[t]].kind \in {"resolving", "absent"}
  /\ pc' = [pc EXCEPT ![t] = "build"]
  /\ UNCHANGED <<want, sema, hand, msg, line>>

\* The permit arrives.
Proceed(t) ==
  /\ GotHandle(t) \/ GotFailure(t) \/ MustBuild(t)
  /\ UNCHANGED <<slot, count, where, entry, touched, reap, meta, ready, shutting, done>>

\* Queue::new returns a queue, which needs an Activity: there is none to be had
\* once the process is shutting down.
Build(t) ==
  /\ pc[t] = "build"
  /\ ~shutting
  /\ FreeQueues # {}
  /\ hand' = [hand EXCEPT ![t] = NewQueue]
  /\ touched' = touched \cup {NewQueue}
  /\ pc' = [pc EXCEPT ![t] = "install"]
  /\ UNCHANGED <<slot, count, line, want, sema, msg, where, entry, reap, meta, ready,
                 shutting, done>>

\* Queue::new fails: in the configuration's Lua code or for want of an Activity.
BuildFails(t) ==
  /\ pc[t] = "build"
  /\ CanFail \/ shutting
  /\ pc' = [pc EXCEPT ![t] = "install"]
  /\ UNCHANGED <<slot, count, line, want, sema, hand, msg, where, entry, touched, reap,
                 meta, ready, shutting, done>>

\* The result goes into the map and the permit is dropped.
Install(t) ==
  /\ pc[t] = "install"
  /\ slot' = [slot EXCEPT ![want[t]] =
                IF hand[t] = NoId THEN Failed ELSE Handle(hand[t])]
  /\ count' = Counted(want[t])
  /\ line' = Released(t)
  /\ IF hand[t] = NoId
       THEN Finish(t)
       ELSE Obtain(t, hand[t]) /\ UNCHANGED <<want, msg>>
  /\ UNCHANGED <<where, entry, touched, reap, meta, ready, shutting, done>>

\* The deadline of the resolve passes at one of its awaits: timeout_at drops
\* the future, and with it the permit.
Cancel(t) ==
  /\ t \in Deadlined
  /\ pc[t] \in {"leased", "waiting", "build"}
  /\ line' = Released(t)
  /\ Finish(t)
  /\ UNCHANGED <<slot, count, where, entry, touched, reap, meta, ready, shutting, done>>

\* 60 seconds after a failure.
Expire(n) ==
  /\ slot[n] = Failed
  /\ Prompt
  /\ slot' = [slot EXCEPT ![n] = Expired]
  /\ UNCHANGED <<count, line, task, where, entry, touched, reap, meta, ready, shutting, done>>

----------------------------------------------------------------------------
(* Using a handle *)

\* Queue::insert sets last_change; a queue that is shutting down saves the
\* message and drops it.
Insert(t) ==
  /\ pc[t] = "insert"
  /\ touched' = touched \cup {hand[t]}
  /\ IF shutting
       THEN Finish(t)
       ELSE /\ pc' = [pc EXCEPT ![t] = "placing"]
            /\ UNCHANGED <<want, sema, hand, msg>>
  /\ UNCHANGED <<slot, count, line, where, entry, reap, meta, ready, shutting, done>>

\* The message is not due, or insert_ready finds the ready queue full and
\* force_into_delayed puts it into the timer of the queue at hand.
PlaceDelayed(t) ==
  /\ pc[t] \in {"placing", "popped"}
  /\ where' = [where EXCEPT ![msg[t]] = hand[t]]
  /\ Finish(t)
  /\ UNCHANGED <<slot, count, line, entry, touched, reap, meta, ready, shutting, done>>

\* insert_ready moves the message to a ready queue, or requeues it: then it is
\* loose again.
PlaceReady(t) ==
  /\ pc[t] \in {"placing", "popped"}
  /\ ready' = TRUE
  /\ Finish(t)
  /\ UNCHANGED <<slot, count, line, where, entry, touched, reap, meta, shutting, done>>

\* The timer finds a due message, upgrades its queue handle and takes the
\* message out of that queue; insert_ready follows and last_change stays.
Pop(t, m) ==
  /\ ~shutting
  /\ pc[t] = "idle"
  /\ where[m] # NoId /\ Alive(where[m]) /\ entry[m] = "wheel"
  /\ where' = [where EXCEPT ![m] = NoId]
  /\ pc' = [pc EXCEPT ![t] = "popped"]
  /\ hand' = [hand EXCEPT ![t] = where[m]]
  /\ msg' = [msg EXCEPT ![t] = m]
  /\ UNCHANGED <<slot, count, line, want, sema, entry, touched, reap, meta, ready,
                 shutting, done>>

\* run_singleton_wheel_v2 takes a due message out of its wheel; it stays in its
\* queue until the batch it is in gets to it.
Fire(m) ==
  /\ ~shutting
  /\ where[m] # NoId /\ entry[m] = "wheel"
  /\ entry' = [entry EXCEPT ![m] = "fired"]
  /\ UNCHANGED <<slot, count, line, task, where, touched, reap, meta, ready, shutting, done>>

\* reinsert_ready_v2: the message is taken out of its queue, found in the map.
Reinsert(t, m) ==
  /\ pc[t] = "idle"
  /\ entry[m] = "fired"
  /\ \E n \in Names : slot[n] = Handle(where[m])
  /\ where' = [where EXCEPT ![m] = NoId]
  /\ entry' = [entry EXCEPT ![m] = "wheel"]
  /\ pc' = [pc EXCEPT ![t] = "popped"]
  /\ hand' = [hand EXCEPT ![t] = where[m]]
  /\ msg' = [msg EXCEPT ![t] = m]
  /\ UNCHANGED <<slot, count, line, want, sema, touched, reap, meta, ready, shutting, done>>

\* It fails (the batch cannot be spawned, the metadata cannot be loaded, the
\* queue is not in the map): the message stays in its queue without an entry.
ReinsertFails(m) ==
  /\ entry[m] = "fired"
  /\ CanFail \/ \A n \in Names : slot[n] # Handle(where[m])
  /\ entry' = [entry EXCEPT ![m] = "lost"]
  /\ UNCHANGED <<slot, count, line, task, where, touched, reap, meta, ready, shutting, done>>

----------------------------------------------------------------------------
(* Reaping *)

\* reap_interval after the last change.
Age(q) ==
  /\ Reaping
  /\ q \in touched
  /\ Prompt
  /\ \A t \in Tasks : pc[t] \in {"install", "insert", "placing"} => hand[t] # q
  /\ touched' = touched \ {q}
  /\ UNCHANGED <<slot, count, line, task, where, entry, reap, meta, ready, shutting, done>>

\* check_reap's tests before it locks the map.
Reapable(q) == IsEmpty(q) /\ q \notin touched

\* check_config_refresh gets the handle from the map, and check_reap tests it.
ReapPick(n) ==
  \E q \in Queues :
    /\ ~shutting
    /\ reap = Nowhere
    /\ slot[n] = Handle(q)
    /\ Reapable(q)
    /\ reap' = [name |-> n, q |-> q]
    /\ UNCHANGED <<slot, count, line, task, where, entry, touched, meta, ready, shutting, done>>

\* The condition of remove_if.
MayRemove(v) == IsEmpty(v.q)

\* remove_if and the decrement of the count.
ReapRemove ==
  /\ reap # Nowhere
  /\ IF MayRemove(reap) /\ slot[reap.name] # Absent
       THEN /\ slot' = [slot EXCEPT ![reap.name] = Absent]
            /\ count' = count - 1
       ELSE UNCHANGED <<slot, count>>
  /\ reap' = Nowhere
  /\ UNCHANGED <<line, task, where, entry, touched, meta, ready, shutting, done>>

----------------------------------------------------------------------------
(* Shutdown *)

Shutdown ==
  /\ ~shutting
  /\ shutting' = TRUE
  /\ UNCHANGED <<slot, count, line, task, where, entry, touched, reap, meta, ready, done>>

\* Mutant: the timer is not drained.
MetaDrainNothing(n) ==
  \E q \in Queues :
    /\ shutting /\ ~done
    /\ meta = Nowhere
    /\ slot[n] = Handle(q)
    /\ meta' = [name |-> n, q |-> q]
    /\ UNCHANGED <<slot, count, line, task, where, entry, touched, reap, ready, shutting, done>>

\* The messages that QueueStructure::drain takes: with version 2 a message whose
\* entry cannot be cancelled is put back.
Drained(q) == {m \in Msgs : where[m] = q /\ entry[m] = "wheel"}

\* queue_meta_maintainer gets a handle and drains its timer; the messages it
\* takes are saved and dropped.
MetaDrain(n) ==
  \E q \in Queues :
    /\ shutting /\ ~done
    /\ meta = Nowhere
    /\ slot[n] = Handle(q)
    /\ where' = [m \in Msgs |-> IF m \in Drained(q) THEN NoId ELSE where[m]]
    /\ meta' = [name |-> n, q |-> q]
    /\ UNCHANGED <<slot, count, line, task, entry, touched, reap, ready, shutting, done>>

\* It removes the slot when nothing is left; SCHEDULED_QUEUE_COUNT stays.
MetaRemove ==
  /\ meta # Nowhere
  /\ slot' = [slot EXCEPT ![meta.name] = IF MayRemove(meta) /\ ~ready THEN Absent ELSE @]
  /\ meta' = Nowhere
  /\ UNCHANGED <<count, line, task, where, entry, touched, reap, ready, shutting, done>>

\* No names are left: the task drops its Activity.
MetaDone ==
  /\ shutting /\ ~done
  /\ meta = Nowhere
  /\ \A n \in Names : slot[n] = Absent
  /\ ~ready
  /\ done' = TRUE
  /\ UNCHANGED <<slot, count, line, task, where, entry, touched, reap, meta, ready, shutting>>

\* The last ready queue is reaped.
ReadyReaped ==
  /\ ready
  /\ ready' = FALSE
  /\ UNCHANGED <<slot, count, line, task, where, entry, touched, reap, meta, shutting, done>>

----------------------------------------------------------------------------
TaskStep(t) ==
  \/ Acquire(t)
  \/ Proceed(t)
  \/ Build(t)
  \/ BuildFails(t)
  \/ Install(t)
  \/ Insert(t)
  \/ PlaceDelayed(t)
  \/ PlaceReady(t)

Next ==
  \/ \E t \in Tasks, n \in Names, m \in Msgs : Resolve(t, n, m)
  \/ \E t \in Tasks : TaskStep(t) \/ Cancel(t)
  \/ \E t \in Tasks, m \in Msgs : Pop(t, m) \/ Reinsert(t, m)
  \/ \E m \in Msgs : Fire(m) \/ ReinsertFails(m)
  \/ \E n \in Names : Expire(n) \/ ReapPick(n) \/ MetaDrain(n)
  \/ \E q \in Queues : Age(q)
  \/ ReapRemove
  \/ Shutdown
  \/ MetaRemove
  \/ MetaDone
  \/ ReadyReaped

Spec == Init /\ [][Next]_vars

\* The runtimes keep polling the tasks; the Lua callbacks that Queue::new and
\* insert_ready await return.
Fairness ==
  /\ \A t \in Tasks : WF_vars(TaskStep(t))
  /\ \A m \in Msgs : WF_vars(ReinsertFails(m) \/ \E t \in Tasks : Reinsert(t, m))
  /\ WF_vars(ReapRemove)
  /\ \A n \in Names : WF_vars(MetaDrain(n))
  /\ WF_vars(MetaRemove)
  /\ WF_vars(MetaDone)
  /\ WF_vars(ReadyReaped)

FairSpec == Spec /\ Fairness

----------------------------------------------------------------------------
PCs == {"idle", "leased", "waiting", "build", "install", "insert", "placing", "popped"}

\* Types, and: a task has a semaphore exactly while it resolves, and stands in
\* line for that one only, from acquire to the end of resolve.
TypeOK ==
  /\ slot \in [Names -> Slots]
  /\ count \in Int
  /\ line \in [Semas -> Seq(Tasks)]
  /\ pc \in [Tasks -> PCs]
  /\ want \in [Tasks -> Names \cup {NoId}]
  /\ sema \in [Tasks -> Semas \cup {NoId}]
  /\ hand \in [Tasks -> Queues \cup {NoId}]
  /\ msg \in [Tasks -> Msgs \cup {NoId}]
  /\ where \in [Msgs -> Queues \cup {NoId}]
  /\ entry \in [Msgs -> {"wheel", "fired", "lost"}]
  /\ touched \subseteq Queues
  /\ reap \in [name : Names \cup {NoId}, q : Queues \cup {NoId}]
  /\ meta \in [name : Names \cup {NoId}, q : Queues \cup {NoId}]
  /\ ready \in BOOLEAN /\ shutting \in BOOLEAN /\ done \in BOOLEAN
  /\ \A t \in Tasks : (sema[t] # NoId) <=> pc[t] \in {"leased", "waiting", "build", "install"}
  /\ \A t \in Tasks, s \in Semas :
       t \in Range(line[s]) <=> sema[t] = s /\ pc[t] \in {"waiting", "build", "install"}

\* manager.rs:367: the permit makes one task responsible for driving the slot,
\* so a name is never being built twice at the same time.
SoleBuilder ==
  ~shutting =>
    \A t, u \in Tasks :
      pc[t] \in {"build", "install"} /\ pc[u] \in {"build", "install"} /\ want[t] = want[u]
        => t = u

\* SCHEDULED_QUEUE_COUNT is the number of slots, whichever of the three places
\* that count a slot and whichever of the resolvers and reapers come first.
CountExact ==
  ~shutting => count = Cardinality({n \in Names : slot[n] # Absent})

\* A handle in the map is never replaced by another one or by a failure, which
\* would strand the messages of its queue: it leaves only when its queue is empty.
HandleStays ==
  [][~shutting =>
       \A n \in Names, q \in Queues :
         slot[n] = Handle(q) /\ slot'[n] # slot[n] => slot'[n] = Absent /\ IsEmpty(q)]_vars

\* Whoever calls resolve gets a handle or an error, and the insert that follows
\* ends: neither a failing nor a cancelled resolver keeps the others waiting.
ResolveReturns == \A t \in Tasks : (pc[t] # "idle") ~> (pc[t] = "idle")

\* maintainer.rs:267: "If the queue is not currently tracked in the QueueManager
\* then this message cannot possibly belong to it".
Tracked ==
  ~shutting => \A m \in Msgs, q \in Queues :
                 where[m] = q => \E n \in Names : slot[n] = Handle(q)

\* queue_meta_maintainer completes: when the other tasks have come to rest during
\* a shutdown it empties the map and ends.  Two things are in its way and nothing
\* else is: a slot without a handle, which it never removes, and a message that
\* has lost its entry in the version 2 wheel, which drain puts back every time.
MetaCompletes ==
  <>[](shutting /\ \A t \in Tasks : pc[t] = "idle")
    => <>[](\/ done
            \/ \E n \in Names : slot[n].kind \in {"failed", "expired", "resolving"}
            \/ \E n \in Names, m \in Msgs : slot[n] = Handle(where[m]) /\ entry[m] = "lost")
=============================================================================
