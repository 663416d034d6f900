# A TLA+ model of KumoMTA

KumoMTA is a mail transfer agent written in Rust.  This directory holds TLA+
specifications of the part of it that decides what becomes of a message: its
reception by SMTP, the message and its spool files, the scheduled queues and
their timers, the map that holds the queues, the ready queues, the sessions that
deliver; and of what these rest on: leases, the cache, the log and its tailer.
TLC checks them on small instances, TLAPS proves some of their properties for all
instances.  `PROJECT.json` lists components, runs, mutants, hazards and theorems,
and maps every definition to the lines it models.  Paths below are relative to
`src/crates/`.

To check a run: `tlc -config <cfg> <MC module>`.  To check proofs:
`tlapm <module>`.

## 1. The system

### How a message travels

    SMTP / HTTP / spool start-up
        |  save_to (message.rs), acknowledgement to the client
        v
    QueueManager::resolve(name) ----> Queue (scheduled queue)
        |                               |  timer: wheel v1, wheel v2, per-queue wheel, skip list
        |                               v
        |                       reinsert_ready / maintain_named_queue
        |                               |  insert_ready
        v                               v
    force_into_delayed  <-- full -- ReadyQueue: Fifo, reservations
                                        |  maintain(): opens sessions
                                        v
                                    Dispatcher: obtain, connect, deliver
                                        |
              requeue_message <---------+--------> log_disposition, remove_from_spool

A `Message` is a reference-counted handle.  A message should be in exactly one
place of this picture: a queue, a session, or a task that carries it from one to
the next.  Every place has a lock of its own, nearly every arrow has an `.await`
in it, and any task may be cancelled, fail, or meet a shutdown at one.  That is
what makes this program hard to test and what most of the properties are about.

### Components

| component | state | operations | interacts with | what makes it correct |
|---|---|---|---|---|
| Fifo of a ready queue (`kumod/src/ready_queue.rs`) | list behind a mutex, `num_reserved`, `capacity`, the `ready_count` gauge | reserve, redeem, drop of a reservation, push, pop, take_list, update_capacity | `insert_ready` reserves and redeems, sessions pop, `maintain()` drains and resizes | no message lost or duplicated; reservations exact (they are unsigned); no unbounded overcommit; the gauge does not drift |
| message and spool (`message/src/message.rs`, `spool/src/local_disk.rs`, `kumod/src/spool.rs`) | metadata and data in memory, two dirty flags, two files | setters, save_to, shrink, load, remove_from_spool, enumeration at start | everything that saves, shrinks, or disposes of a message | an acknowledged save survives a crash; a reader sees the newest version; a removed message stays removed |
| sessions of a ready queue (`ready_queue.rs`, `smtp_dispatcher.rs`) | `Dispatcher::msgs`, session state, the answers of the transaction | obtain_message, wait_for_message, attempt_connection, deliver_message, reinsertions, Drop, watchdog | Fifo, scheduled queue, spool, log | one owner; removal only after the last recipient's disposition; no needless second transmission; a shutdown drains |
| queue manager (`kumod/src/queue/manager.rs`, `check_reap`, `queue_meta_maintainer`) | map name -> slot (handle, resolving, failed), semaphores, `SCHEDULED_QUEUE_COUNT` | resolve with and without a deadline, get_opt, reap, empty at shutdown | everything that inserts a message by queue name | one queue per name; a queue that has messages is not displaced or dropped; resolve returns |
| scheduled queue (`kumod/src/queue/{strategy,maintainer,queue,mod}.rs`) | the set of a queue's messages, wheel entries, batches on their way | insert, force_into_delayed, pop, batch wait, reinsert, drain (rebind, transfer, bounce), shutdown | queue manager, ready queue, timer wheels | none lost, none owned twice, none without a timer, none early, each comes out |
| timer wheel v2 (`message/src/timeq.rs`) | lists of three tiers, entry slots, `next_run` | insert, cancel, retain, drain, pop with cascade | scheduled queues with SingletonTimerWheelV2 | a timer: once, not early, not much late, not after a cancel |
| timer wheel v1 (`timeq/src/lib.rs`) | a library wheel | insert, pop | the other wheel strategies | only its contract is used (in ScheduledQueue) |
| life cycle (`kumo-server-lifecycle`) | activities, shutdown state | Activity::get, drop, wait_for_shutdown | all | shutdown ends, and only after the last activity |
| spool start-up and health gate (`kumod/src/spool.rs`) | enumeration streams, latched health | start, is_healthy | queues, sessions, listeners | everything enumerated is queued again |
| retry schedule (`kumod/src/queue/config.rs`) | none | delay_for_attempt, infer_num_attempts, compute_delay_based_on_age | scheduled queue | terminates, monotone, within max_age |
| ready queue manager and maintainers (`kumod/src/ready_queue.rs`, insertion in `egress_source.rs`) | map name -> queue, one maintainer per queue, protocol and configuration | resolve, reserve, redeem, maintain, refresh, reap, final sweep | scheduled queues insert, sessions take | a queue with messages has a maintainer; messages leave it; a shutdown reaps all |
| throttles and leases (`throttle`) | lease sets in memory or Redis, GCRA | acquire, extend, release, drop | sessions, listeners | at most `limit` live leases, no place overlooked, acquire ends |
| cache (`lruttl`) | entries pending, refreshing, present, failed; LRU ticks; semaphores | get_or_try_insert, insert, expire, evict, purge | DNS, Lua memoize, configuration | no expired value served, no caller waits for ever, size comes down |
| log writer and tailer (`kumo-jsonl`, `tailer`, `kumod/src/logging`) | segments, plan, batches, checkpoints | write, roll, mark done, tail, hand over, commit | external consumers | at least once, no record skipped, none repeated within a run |
| SMTP server (`kumod/src/smtp_server.rs`) | read buffer, transaction, batches, answer | MAIL, RCPT, DATA, RSET, process_data | message, queue manager, log | a 250 is a promise kept, a refusal leaves nothing behind |
| HTTP injection (`kumod/src/http_server`) | none of its own | inject | message, queue manager | as for SMTP |
| transfer, rebind, bounce, suspend (`kumod/src/xfer`, `http_server/admin_*`) | rule lists with expiry | add, cancel, apply | queues | rules apply to what is queued now and later |
| Lua, configuration, DNS, TLS, mail parsing, DKIM/SPF/DMARC, metrics, command line, proxy, TSA daemon | | | | not modelled; see section 7 |

### What is hard

* Two tasks with one message: a stale timer entry, a batch and an administrative
  drain, a session and the maintainer.
* A handle used after an await: `insert_ready` finishes with the `Queue` it got
  seconds earlier; a waiter of a semaphore that has left the map.
* Failure between two steps: one of two stores of a save, one recipient of
  several, an error between the peer's answer and its record.
* Cancellation: deadlines of `resolve`, the progress watchdog of a session.
* Shutdown at any of these points.
* One answer for several messages: a transaction of several batches is acknowledged
  or refused as a whole, though each save and insertion succeeds or fails alone.
* Several readers at one position: consumers of a log that commit at different
  times, callers that wait for one population of a cache entry.
* Limits: a ready queue that becomes full or is resized under reservations, time
  wheels that round to ticks.

`PROJECT.json` lists these as hazards, each with its line and the properties that
would catch it.

## 2. Modules

`M` below is the module with the state machine; `MCM` instantiates it for TLC,
`MProofs` holds its theorems.  Three modules hold the theorems of two components
each: `StoreAndTimerProofs` (MessageStore and TimeQ, the message crate),
`LeaseAndLogProofs` (LeaseSet and LogTail) and `SmtpAndCacheProofs` (SmtpSession and
LruTtl).  Since both state machines are visible there, one of them names its parts
after itself: `WheelSpec`, `TailSpec` and `CacheSpec` are the specifications of TimeQ,
LogTail and LruTtl.  History variables (marked in the modules) only record the past.

### Fifo

One Fifo and the tasks that share it.  An action is one critical section of the
list mutex or one atomic access without it.  `pc` and `owed` keep what a task has
still to do: the gauge is adjusted after the unlock by push, pop, take_list and a
dropped reservation (`AdjustGauge`), but inside the lock by `reserve` and
`update_capacity`.  Integers are mathematical here; `ReservedIsExact` and
`GaugeBalance` are what shows that the unsigned decrements do not wrap.

### MessageStore

One message.  The contents of its two parts are version numbers, each edit writes
a new one.  `Edit` names the setters by the flag they raise, as they do in the
code: `set_meta`, `assign_data`, `set_sender`/`set_recipient_list` (which raise
DATA_DIRTY) and `set_scheduling` (no flag).  The two stores of a save are separate
steps in either order, each of which may fail; local_disk writes a temporary file
and renames it, so a store is atomic.  `Crash` may happen at any step, and
`Restart` enumerates the meta spool only.

### Dispatcher

One ready queue with its sessions, seen from the messages: every place that can
own a message is a variable (`sched`, `ready`, `msg`, `carry`, `moving`, `parked`,
`stranded`).  `carry` is what a session requeues inline, `moving` what a spawned
task returns, `parked` what was saved and dropped for a shutdown, `stranded` what
an error dropped from memory: it stays in the spool until a restart.  A session
goes through `loop`, `obtain`, `connect`, `deliver`, `answered`; an SMTP
transaction accepts some recipients, refuses some, defers the rest.  `Abort` is
the watchdog.  The connection plan (hosts, TLS, pauses) is one nondeterministic
outcome, a throttle is one nondeterministic delay.  `Toggle` switches the
operator's and the spool's conditions on and off at any time.

### QueueManager

The map of scheduled queues.  `line` is the FIFO of a tokio semaphore with one
permit, whose head has the permit.  Queues and semaphores are reference-counted:
they are free when neither the map nor a task refers to them.  `Resolve` is the
code up to the first await, `Acquire`, `Proceed`, `Build`, `Install` the rest;
`Cancel` is the deadline.  Then the handle is used: `Insert`, `PlaceDelayed`,
`PlaceReady`; `Pop` is the timer.  `ReapPick`/`ReapRemove` are `check_reap` before
and in the map lock, `Meta*` is `queue_meta_maintainer`.

Time is abstract.  `Expire` (60 s of negative caching) and `Age` (reap_interval)
may happen at any time, except while a task is still waiting for a semaphore that
has left the map (`Prompt`), or is between the installation of a queue and the end
of its first insert.  Those are steps of milliseconds against delays of a minute
and more; the comment in `get_slot` states the first one.  It is an assumption:
without it `SoleBuilder` is false, because a waiter that runs a minute late builds
the queue again.

### ScheduledQueue

Scheduled queues with one of the four strategies, chosen in `Init`.  `q` is the
set of a queue's messages and `wheel` the timer entries.  Version 1 keeps the
entry of a drained message, version 2 cancels it, and the other two strategies are
their own timers.  `out` counts the tasks that own a message outside.  Popped
messages are in a `batch`, which first sleeps until the latest due time it
contains, then claims its messages one by one; `calling` is `insert_ready` at
work.  Any subset of the ripe entries may pop: how late a wheel can be is the
business of TimeQ.

### TimeQ and Timer

`TimeQ` is the wheel of `timeq.rs`, with its rounding, cascading and catching-up.
`Rounds` are the lists that one pop visits, in turn: the cascades of the elapsed
ticks, then the lists of tier 0.  `VisitLists` empties them, and `Visited` is the
recursive function that gives the wheel after each round.  `Timer` is what the scheduled
queues need of it: a message that was accepted and not taken back is handed out
once, not before it is due and at most `Slack` later.  The refinement mapping is
in `TimeQ` (`Abstract`): a message is pending when it has an entry slot.

### ReadyQueue

The ready queues that exist under one name, one after the other.  A producer
(`insert_ready` through `select_and_insert`) resolves the name, reserves a place and
redeems it, with awaits in between; creating a queue spawns a maintainer, which
looks its queue up *by name* when it starts.  A maintainer waits, maintains (saves
at a shutdown, returns what a suspended or outdated queue holds, opens sessions),
then checks whether to reap, abort or retire its queue; `ReapRemove`/`ReapGone`/
`ReapNot` are the three outcomes of `remove_if`, `Sweep` the final sweep.
`Reconfigure` changes the protocol, after which the queue leaves the map and a
successor may be created while the old one still has messages.  `late` (history)
marks queues in which a place was reserved after they were given up.

### SmtpSession

One connection at a time, up to the point where the queues have taken over.  The
read buffer is a number of complete lines and whether a partial one follows, which
is all that `check_shutdown` and `read_line` look at.  A transaction becomes a list
of messages; `process_data` goes through `split`, `receive`, `resolve`, `accept`
(check_relaying, save, Reception record) and `insert` (insert_or_unwind), each of
which can fail, and gives one answer.  `SaveFails` removes the messages before it,
not itself; `AcceptError` is every other error of that loop.  `stray` (history) are
the messages that an ignored error left in the spool.

### LeaseSet

One limit with either backend.  In memory a waiter is told of a release by a
`Notify`, which keeps one permit when nobody waits; in Redis it polls, and times
are rounded to seconds by the script (`Floor`, `Ceil`).  A lease may expire under
its holder; a session *relies* on its lease until the time that it was last told.
Releases of dropped leases are left to spawned tasks (`deferred`).

### LruTtl

The cache with its callers, pruner and purges.  An item is pending, refreshing,
present or failed; the semaphore of a pending item is an identity, because an item
may be replaced by one with another semaphore while tasks wait on the first.  LRU
ticks are an order of keys.  The pruner's collection and its removal are two steps,
so that everything can happen between them; a task's own eviction is one step with
its insertion.  The capacity is fixed in `Init`, a purge clears all shards at once.

### LogTail

Segments are numbered; a line parses or it does not.  The writer appends, its
encoder makes lines visible some time later, a segment is finished and then marked
done, and a crash loses what was not visible.  The tailer builds a plan, reads,
skips what each consumer has, batches and hands over; a consumer commits or not.
History variables say what each consumer has committed (`done`), was handed by this
run (`handed`) and what the tailer passed over (`unread`).

## 3. What is checked

| run | instance | states | shows |
|---|---|---|---|
| fifo | 3 tasks, 4 messages, capacities 0, 1, 3 | 7,648 (with symmetry) | OneOwner, ReservedIsExact, GaugeBalance, Overcommit |
| message_store | 1 task, setters of metadata and data, 4 versions | 24,097 | ReadsLatest, AckedSurvives, GoneForGood |
| dispatcher | 2 sessions, 1 message, 2 recipients, capacity 1; suspension, bounce | 118,592 (with symmetry) | OneOwner, RemovedOnlyWhenDone, NoNeedlessDuplicate, NoRetryAfterFinal |
| dispatcher_shutdown | 2 sessions, 1 message, 1 recipient; spool health | 513,896 | ShutdownDrains |
| queue_manager | 1 name, 3 tasks (one with a deadline), 2 messages | 73,284 | SoleBuilder, HandleStays, ResolveReturns, MetaCompletes |
| timeq | 3 tiers of 2 lists, ticks of 2 units, 40 units, pops up to a tick late | 140,275 | ImplementsTimer |
| scheduled_queue | 3 strategies, 2 messages, 2 queues, 1 batch, clock to 2 | 126,320 | OneOwner, NotStranded, NotEarly, NothingLost, LeavesQueue, ShutdownEmpties |
| ready_queue | 2 queues of one name, 1 producer, 2 messages, capacity 1 | 135,709 | Sheltered, MessagesLeave, ShutdownReaps |
| lru_ttl | 1 key, 2 tasks, capacity 0 or 1, 1 purge, with and without stale reads | 235,380 | Served, CallAnswered, TrimsDown |
| lease_set | 3 tasks, limit 1, both backends, clock to 4 | 526,071 | WithinLimit, RefusedOnlyWhenFull, AcquireEnds |
| log_tail | 2 segments of 2 lines, 2 consumers with batches of 1 and 2, 1 crash | 117,535 | Accounted, NoRepeat, Delivered |
| smtp_session | 2 recipients, 2 transactions, 2 batches, 1 crash | 444,208 | AckedIsKept, EnvelopeExact, RefusedIsUnwound, ReceptionAccounted, SessionEnds |

Every module also has a type invariant (`TypeOK`, or `WheelTypeOK` and the like), and
some invariants that a run does not list because TLAPS proves them for all instances
(section 4): CleanMeansSaved, DirtyIsHeld, CountExact, CanonicalIsServed.  All of them hold on the instances above
and can be added to the configurations.

Each property is stated in natural language above its definition.  For each there
is a mutant in `PROJECT.json`: a plausible slip in the modelled code (a dropped
guard, a forgotten count, a missing reset) with which TLC finds the property
violated.

### Where the code and its comments disagree

Each of these configurations checks what a comment, a document or a test says, and
TLC answers with a behaviour of the code that contradicts it.  They are kept beside
the runs so that a change of the code can be tried against them.

| configuration | property | what is said | what happens |
|---|---|---|---|
| `MCMessageStore_envelope` | ReadsLatest | `message.rs:45`: META_DIRTY is "true if Metadata needs to be saved"; `smtp_dispatcher.rs:1625` relies on the revised recipient list | `set_sender` and `set_recipient_list` (744, 797) raise DATA_DIRTY although both are metadata.  A save stores the data only, a shrink drops the metadata, a load returns the old recipients: after a partial delivery, a second transmission |
| `MCQueueManager_reap` | Tracked | `maintainer.rs:267`: "If the queue is not currently tracked in the QueueManager then this message cannot possibly belong to it" | A queue whose last message was just popped is empty and, by `last_change`, idle for as long as that message waited.  It can be reaped while `insert_ready` awaits; if the ready queue is full, the message goes back into the queue that nobody can find (`queue.rs:1341`) |
| `MCTimeQ_late` | PopsAllDue | `timeq.rs:209`: "Return all messages that are due"; the test at 704 allows the rest of a tick | A cascaded message may be put back, rounded down (281), into the list that was just emptied, and returns a revolution of tier 0 (768 s) late.  The refinement of Timer holds with `Slack` a revolution of the wheel |
| `MCScheduledQueue_stale` | DueNotHeldBack | `queue/mod.rs:49`: "just wait those few milliseconds here" | With the default strategy, the stale entry of a message that was drained and inserted again brings it into a batch, and the batch sleeps until its new due time |
| `MCScheduledQueue_skiplist` | NothingLost | `strategy.md:13`: "a good general purpose queue"; comment at `strategy.rs:316` | `DelayedEntry` compares by the second alone, and `SkipSet::insert` replaces an equal entry |
| `MCReadyQueue_drop` | DropsEmpty | `ready_queue.rs:1687`: Drop logs an error if messages are left | A reservation made while, or after, the queue is found reapable is redeemed into a queue without a maintainer; `make_reservation` does not look at the map |
| `MCReadyQueue_replaced` | ReplacedEnds | `ready_queue.rs:741`: a replaced queue will "self reap "as usual"" | Once a successor has the name, neither branch of 678-699 applies: the old maintainer goes round every second until the successor is gone |
| `MCLruTtl_prune` | NeverEvictsPending | `lruttl/src/lib.rs:148`: a pending lookup cannot be evicted | The key was collected when it was not pending; the removal looks at its tick or expiration, not at its state |
| `MCLeaseSet_empty` | SomeElements | `limit.rs:302`: `expect("some elements")` | The last lease may be released between the failed last attempt and the search for the earliest expiration, or the limit may be 0 |
| `MCLogTail_lost` | AtLeastOnce | `batch.rs:12` and `LogBatch.md:20`: records that are not committed are read again | With several consumers, one that has no checkpoint yet does not count in the choice of the starting position (`tailer.rs:161`); after a restart it begins where the others are |

Other things met while reading, which have no configuration of their own:

* `set_scheduling` raises no dirty flag; a setter between `save_to`'s snapshot and
  its clearing of the flags is not saved, and with two tasks in MessageStore TLC
  finds ReadsLatest violated (the callers keep one owner per message, which
  Dispatcher and ScheduledQueue check).
* `SmtpDispatcher::deliver_message` requeues a message when the spool has become
  unhealthy but leaves it in `dispatcher.msgs`, so it has two owners from then on:
  `dispatcher` runs without that condition, `dispatcher_shutdown` with it.
* `queue_meta_maintainer` never removes a slot without a handle, which MetaCompletes
  states as its exception.
* `TimeQ::insert` calls a message due when its tick has been dispatched, up to a
  tick early.
* `infer_num_attempts` does not end for a `retry_interval` below a second;
  `delay_for_attempt` casts a saturated `u64` to `i64`.
* A maintainer that starts after its queue was replaced finds the successor, or
  nothing, by name: the old queue has none.  Sheltered names this case (`Misled`).
* In memory and with a limit of two or more, two releases while two tasks are between
  their attempt and `notified` leave one permit; the second task gets its place only
  by the last attempt at its deadline.
* The `unreachable!` of `tailer.rs:811` is reached when the only file of a plan turns
  out to be bad after good records; and between the end of a file in `next_line` and
  `is_file_done` (690) the writer may append and mark it.  A consumer that is ahead
  in a later file gets records again.
* SMTP: the message whose own save failed is not removed (its metadata may be
  enumerated later), an error of the accept loop other than a save leaves the
  earlier messages in the spool although the client gets 421, and failed removals are
  ignored: `stray` in RefusedIsUnwound.  552 and 500 leave the transaction open, so
  the next MAIL gets 503.  A batch that may not be relayed beside one that may is
  acknowledged and dropped.  When the only relayed message fails beside one that was
  not to be relayed, the answer is 250 PARTIAL.  With deferred_spool, a message whose save fails at a
  shutdown is acknowledged and lost.

### Bounds, and why they suffice

* Tasks, sessions: every race described above is between two actors; the third
  task of `fifo` and `queue_manager` is the bystander (a waiter behind a failed or
  cancelled resolver, a task with a reservation while two others resize and push).
* Messages: one message is enough where messages do not interact (MessageStore,
  Dispatcher, TimeQ); two where they do (a batch waits for its latest message; two
  due in one second; the Fifo has four, so that a resize to 1 has something to
  evict).
* Recipients: two, so that a transaction can be partly successful in each way;
  `MaxSends` = 2 lets a duplicate happen.
* `MaxVersion` = 4: a first version, an edit before, during and after a save.
* `MaxMoving` = 1: a message falls due, or is shed for an unhealthy spool, only
  while fewer tasks are returning it.  In `dispatcher` that restricts nothing
  (OneOwner); in `dispatcher_shutdown` it stops a message with two owners from
  getting ever more of them.
* `Queues` = 5, `Semas` = 4: one for each of the three tasks, one in the map, and a
  queue that has left the map with a message in it.
* Time: `MaxTime` = 2 in ScheduledQueue gives due times that are past, present and
  future, and an entry that is a tick early; `MCScheduledQueue_stale` needs 4.
  TimeQ runs for two and a half revolutions of the whole wheel (2^3 ticks of 2),
  so that each tier cascades more than once and delays beyond the last tier
  (`MaxDelay` = 24 > 16) occur.
* Names: one.  The names of the map do not interact except through the count,
  which `CountTheorem` covers for any number.
* ReadyQueue: two queues make a predecessor and a successor, two messages with one
  place make the queue full.  `Watched` is the message whose progress is checked; the
  other takes places.  With two producers the invariants hold over 457,401
  states; the run has one because of the liveness properties.  The two theorems
  cover any number.
* SmtpSession: two recipients of one domain make one batch or two; the limits of two
  recipients per message and per connection are both reached; two transactions
  show what is left over from the first; one crash at any point.
* LeaseSet: three tasks are a holder, a waiter and one that arrives between a release
  and its signal.  A second is two ticks, so that rounding happens both ways.
* LruTtl: one key, since keys only meet in eviction, where a capacity of 0 makes one
  key one too many; `MaxAttempts` 2 stands for 10, short times for seconds.
* LogTail: batches of 1 and 2 put the consumers at different positions, two segments
  in different files; `c2` has a filter.  One crash of the writer or the tailer.

Symmetry is used in `fifo` (tasks and messages) and `dispatcher` (sessions and
recipients), in neither of which a liveness property is checked.

`CHECK_DEADLOCK FALSE` is used where the system or its bounded clock comes to rest:
all messages removed, the process shut down, `MaxTime` or `MaxVersion` reached.

### Fairness

* Dispatcher: weak fairness of a session's own steps, of spawned tasks, and of the
  save in `maintain()`.  Every network operation of a session has a timeout, tokio
  polls what is ready, and `maintain()` runs on a timer.  Opening a session,
  falling due, the conditions and the watchdog have none.
* QueueManager: weak fairness of a task's steps (the Lua callbacks it awaits
  return), of the reaper's second half and of `queue_meta_maintainer`, which runs
  in a loop until its work is done.  Deadlines, expiry, and reaping have none:
  ResolveReturns does not depend on anybody's timeout.
* ReadyQueue: maintainers, producers and the end of sessions run; a maintainer that is
  due for work again and again does it (its throttles and suspensions end), and a
  session again and again offered a message takes it (strong fairness).  Nothing is
  assumed of reconfiguration, and none of new messages.
* SmtpSession: the steps of `process_data` (bounded by its deadline and the timeouts of
  what it calls) and of commands in the buffer; strong fairness of the shutdown
  branch, since `select!` picks at random among ready branches.  None for the client.
* LeaseSet: the clock and the steps of an acquire; none for holders, who may never
  extend or release.
* LruTtl: callers' steps, the pruner and the clock; none for the future that populates
  an item, which may hang for ever.
* LogTail: `MarkDone`, the tailer's steps and its restart, and the hand-over of batches
  (deadlines pass while it waits).  None for the writer or a crash.
* ScheduledQueue: time passes, the wheel returns every entry some time after it is
  ripe (weak fairness for each message; TimeQ justifies it), batches, `insert_ready`
  and the drain at shutdown run.

## 4. What is proved

TLAPS proves these for every value of the constants that satisfies the named
assumptions, where TLC has shown them for the instance above.

| theorem | states | inductive invariant |
|---|---|---|
| FifoProofs!OwnershipTheorem | OneOwner | TypeOK, OneOwner |
| FifoProofs!ReservationTheorem | ReservedIsExact | with TypeOK; cardinality lemmas for adding and removing one reservation |
| FifoProofs!OvercommitTheorem | Overcommit | TypeOK and ReservedIsExact |
| FifoProofs!GaugeTheorem | GaugeBalance | the same, and Settled: only a task that has left the mutex owes anything |
| SmtpAndCacheProofs!AcknowledgedMailIsKept | AckedIsKept | TypeOK, Phases, Stages, DoneIsGone and the four properties together |
| SmtpAndCacheProofs!RefusedMailIsUnwound | RefusedIsUnwound | the same |
| SmtpAndCacheProofs!ReceptionsAreAccounted | ReceptionAccounted | the same |
| SmtpAndCacheProofs!EnvelopesAreExact | EnvelopeExact | the same |
| DispatcherProofs!RemovalsAreFinal | RemovedOnlyWhenDone, with every condition | Ledger: the types, Recorded, Sessions |
| DispatcherProofs!MessagesHaveOneOwner | OneOwner, spool healthy | Ledger, Ownership, Books |
| DispatcherProofs!AcceptancesAreRecorded | NoNeedlessDuplicate, spool healthy | the same |
| DispatcherProofs!FinalIsFinal | NoRetryAfterFinal, spool healthy | the same |
| ScheduledQueueProofs!OwnershipTheorem | OneOwner | TypeOK, OneOwner, Calls, Held, InFlight |
| ScheduledQueueProofs!NotStrandedTheorem | NotStranded | the same, and NotStranded |
| ScheduledQueueProofs!NotEarlyTheorem | NotEarly | the same, and Waits: a sleeping batch wakes no earlier than its messages are due |
| ScheduledQueueProofs!NothingLostTheorem | NothingLost, without SkipList | the same |
| StoreAndTimerProofs!DurabilityTheorem | AckedSurvives, CleanMeansSaved, DirtyIsHeld, under Discipline | TypeOK, DirtyIsHeld, Ordered, Dead, Saving, Loading, Clean, Newest, Promised, Gone |
| StoreAndTimerProofs!ReadsLatestTheorem | ReadsLatest, under Discipline | the same |
| StoreAndTimerProofs!RemovalTheorem | GoneForGood, under Discipline | the same |
| QueueManagerProofs!SoleBuilderTheorem | SoleBuilder | TypeOK, Lines, Driven, Carried, Reaper |
| QueueManagerProofs!HandleStaysTheorem | HandleStays | the same |
| QueueManagerProofs!CountTheorem | CountExact, finitely many names | the same |
| LeaseAndLogProofs!LimitRespected | WithinLimit | TypeOK, Named, Apart, Backed, Bounded |
| LeaseAndLogProofs!RefusalsAreJustified | RefusedOnlyWhenFull | the same, and LastIsLate |
| ReadyQueueProofs!NoQueueIsAbandoned | Sheltered | Shape, Bounded, Spawned, Own, Swept, Vacated, InUse |
| ReadyQueueProofs!TheCanonicalQueueIsServed | CanonicalIsServed | the same |
| StoreAndTimerProofs!CleanTheorem, DirtyTheorem | CleanMeansSaved, DirtyIsHeld | parts of DurabilityTheorem |
| StoreAndTimerProofs!WheelImplementsTimer | ImplementsTimer | WheelIInv: Clocks, Slots, Scheduled |
| LeaseAndLogProofs!NothingSkipped | Accounted | TailIInv: TailTypeOK, Segments, Control, Marks, Hands, Coverage, Once |
| LeaseAndLogProofs!NothingRepeated | NoRepeat | the same |
| SmtpAndCacheProofs!NothingExpiredServed | Served | CacheIInv: Items, Calls |
| FifoTypes, MessageStoreTypes, QueueManagerTypes, ScheduledQueueTypes, LeaseSetTypes, ReadyQueueTypes, WheelTypeCorrect, LogTypeCorrect, TypesHold (SmtpSession, Dispatcher) | the type invariant of the module | its inductive invariant |

*Fifo.*  OneOwner is inductive with the type invariant: each action moves a
message from one place to another.  The capacity change is the only delicate one:
what stays is a prefix and what leaves is the rest, so distinct positions of the
list keep them apart.  ReservedIsExact needs finite sets of tasks.  GaugeBalance is
about a sum over the tasks, which the library defines by a recursive function on the
subsets of a set.  That such a function exists, is unique, has integer values, and
changes by the difference when one summand does (`SumsExist`, `SumsUnique`, `SumsInt`,
`SumUpdate`) is induction over finite sets, in the form of a smallest counterexample:
a set of subsets of a finite set has a minimal member (`MinimalSubset`, from the
library's theorem that strict inclusion is well founded).  Given `TotalUpdate`, each
action changes the gauge, one task's debt and the load so that they still balance.

*SmtpSession.*  The answer to DATA is given after two loops over the messages of the
transaction, one that saves and one that inserts, so the properties of the answer are
not inductive.  `Stages` has one clause per loop: before its index, messages are
`Saved` (in the spool if they are to be relayed) or `Settled` (taken by a queue, or
removed and logged as bounced); from its index on they are as the step before left
them.  `Phases` ties the transaction in the session's state to the point it has
reached: an open one has no messages yet and its recipients are those promised, a
processed one is closed.  `DoneIsGone` is what a crash and restart needs: what a
queue is done with is not found again.  EnvelopeExact rests on two lemmas about
operators: `BatchesPartition` (grouping by domain, or not, puts each recipient in one
batch) and `SetToSeqEnumerates` (a set of batches made a sequence has each once).
The theorems cover the strays as the properties do: `stray` names the messages left
by an error that the code ignores or by the failure of their own save.

*Dispatcher.*  The proof has two layers.  `Ledger` is about recipients only: each has
a terminal record or is still to be tried (`Recorded`), and a session that removes a
message has all records (`Sessions`).  It is inductive whatever the conditions, so
RemovalsAreFinal holds even where a message has two owners.  `Ownership` counts the
places of a message (`Count`): the number is one while it is in the spool, zero
after, each single place being free of duplicates (`ReadySingle`, `MsgSingle`,
`CarrySingle`).  Every action moves one unit from one place to another;
`DeliverUnhealthy` is the exception, it adds a unit, which is why these theorems
assume `"unhealthy" \notin Conditions`, as the run `dispatcher` does (section 3
describes what happens otherwise).  `Books` says that a message that may be tried
again has no recipient with a terminal record among the ones to try, and that every
acceptance but one was lost (`unrecorded`), that one being recorded or in the hands of
the one session with the answer.  It needs Ownership: with two owners the second
session's list of recipients is out of date.  `RetryStep` derives the action property
NoRetryAfterFinal from it.

*MessageStore.*  The theorems assume what the run does: one task at most has the
message, and only the setters are used that raise the flag of the part they change
(`Discipline`; `MCMessageStore_envelope` and the save race of section 3 show that
neither can be left out).  The checked invariants make an exception while a message
is being removed, but a removal may fail or be cut short by a crash, and the
message lives on.  The inductive forms (`Clean`, `Newest`, `Promised`) therefore
speak of the first *effect* of a removal, not of its beginning.  `Ordered` (versions
grow, memory is never behind the spool) is what makes a store keep older promises;
`Saving` and `Loading` say that the copies made before the awaits are still
accurate after them, which is where a second task would break the proof.

*ScheduledQueue.*  OneOwner alone is not inductive: a batch of version 1 may name a
message that another task owns, and an `insert_ready` that ends must own what it
passes on.  `Calls` says that a call owns its message and no other call does;
`Held` that a maintainer of a queue with its own timer owns the messages of its
batch; `InFlight` that with version 2 a popped message stays in its queue, has no
second entry and is in no second batch until its batch gets to it (which is why a
drain must put it back).

*QueueManager.*  SoleBuilder holds because two builders of one name would be heads
of one line.  That needs: the tasks that have leased a semaphore stand in the line
of that one only, once, and a builder is the head of its line (`TypeOK`, `Lines`);
a task that resolves a name finds its own semaphore in the map, or the recent
outcome of another task's work, and then it does not build (`Driven`, the part that
rests on the timing assumption); what a task has in hand at each point (`Carried`);
a queue about to be reaped is in the map and nobody resolves its name (`Reaper`).
`SlotChange` is the lemma that a step leaves the map alone, fills a slot that has no
handle, or reaps an empty queue; CountTheorem and HandleStaysTheorem follow from it.

*LeaseSet.*  The sessions that rely on a lease map one to one into the members of the
set (`Apart`, `Backed`), and the set is never larger than the limit (`Bounded`), so the
sessions are not either.  `Backed` needs that what a session relies on expires in
the set no earlier than the session believes, for both roundings, and that a
deferred release is never of a lease in use (`Apart`).  A refusal comes from the one
attempt made after the waiting ends; `LastIsLate` (that attempt is at or after the
deadline, since time does not go back) is what RefusedOnlyWhenFull adds.

*ReadyQueue.*  A queue is given up only when it is vacant, without messages and without
reservations (`Vacated`), and stays so unless somebody reserves late.  `Own` says that
the maintainer spawned for the queue in the map has found that queue; `Swept`, that a
maintainer ends only after its queue has left the map.  `Bounded` (places within the
capacity) needs that a redeemed reservation was counted before.

*TimeQ.*  The refinement needs to know where the wheel keeps a message, without
following it from list to list.  A list is `Fresh` for a due time when no tick that
has been processed since a tick before that due time was one that visits the list;
`Scheduled` says that the current slot of every message is in a fresh list, and in no
other.  Putting a message that is not due anywhere into the wheel makes it fresh
(`FreshNow`), so the rounding and the choice of the list, with which the code decides
how soon it will look, play no part in correctness; a list that a pop does not visit
stays fresh (`StaysFresh`), although the pop goes round tier 0 once only, because a
revolution has every residue.  A fresh list is visited within one revolution of the
wheel (`Revolution`, `AtMostSlack`), and that is the bound of `Slack`; the
configuration `MCTimeQ_late` shows that no bound of a tick can be proved.  A pop is a
recursion over its rounds: `Sorted` says what a round has done with a message (it was
not in the wheel; or it is ready and due; or it is still in a list that no round has
visited or that it was put into because it is not due), `RoundKeeps` that a round
keeps it.  Both recursive functions, `Span` and `Visited`, exist by `Recursion`, which
makes the table of their values; it and every induction over rounds or tiers take the
smallest counterexample (`SmallestMember`).  The theorem covers every resolution,
every number of tiers and lists, and pops of any delay.

*LogTail.*  Accounted speaks of the checkpoint files, and a checkpoint is written from
a batch, a batch is filled from the position of the tailer, and that position comes,
after a restart, from the checkpoint of the consumer furthest behind.  `Coverage` says
of each of these positions that every readable line up to it has been committed,
refused, passed over, or is in the batch or hand-over at hand.  To keep this the
writer must not change what is before a position (`Segments`, `Marks`: what is
readable of a segment stays, and only the newest is written to), a plan must leave
out nothing between two of its files but bad ones (`Control`), and a hand-over must
be all that its consumer has (`Hands`).  `Once` is the converse, for NoRepeat: what
the run has collected is of a file it will not plan again, or before its position in
the current one.

*LruTtl.*  A value is served by a look at the map after one or more awaits, when
everything may have changed.  `Calls` keeps that the call began at `deadline -
Timeout`, which is not after now; `ClonedItem` shows that `clone_item_state` either
finds an item that has not expired now, hence had not expired then, or leaves one that
is pending; `PutStores` that what else happens in that step (an eviction) can only
remove items.  `Items` has that an item is refreshed only where stale values may be
read.

The largest of these invariants, `IInv` of SmtpSession (444,208 states), `IInv` of
Dispatcher (411,216 states with one message, 421,580 with two), `TailIInv` of LogTail,
`WheelIInv` of TimeQ, `CacheIInv` of LruTtl (the instances of section 3) and `Settled`
of Fifo, were checked by TLC, without symmetry, before they were proved.

What is only model-checked:

* All liveness properties (ShutdownDrains, ResolveReturns, MetaCompletes, LeavesQueue,
  ShutdownEmpties, MessagesLeave, ShutdownReaps, CallAnswered, TrimsDown, AcquireEnds,
  Delivered, SessionEnds): the prover has neither fairness nor ENABLED.
* OneOwner, NoNeedlessDuplicate and NoRetryAfterFinal of Dispatcher with a spool that
  becomes unhealthy: they do not hold there.  NothingLost of ScheduledQueue with the
  SkipList strategy likewise, and MessageStore's properties without Discipline.
* The type invariant of LruTtl, which also counts: that the map and the LRU order have
  the same keys, and that a free semaphore can always be found.

## 5. Plan

Done: Fifo, MessageStore, Dispatcher, QueueManager, ScheduledQueue, TimeQ, Timer,
ReadyQueue, SmtpSession, LeaseSet, LruTtl, LogTail, and proofs about each of them.
Every safety property of the runs, the refinement of Timer included, is a theorem
under the hypotheses of section 4; what the runs alone show is liveness.

Next, in this order:

1. Proofs: sharper forms of what is proved under a hypothesis (what remains of
   OneOwner when the spool becomes unhealthy; NothingLost with the SkipList strategy,
   but for entries of one second); the safety part of the liveness properties, such as
   what a QueueManager task that waits is waiting for.
2. An abstract *Delivery* specification (each recipient of an acknowledged message
   reaches one terminal disposition), implemented by SmtpSession and Dispatcher.
3. *Lifecycle*: activities, `wait_for_shutdown`, and what the other modules assume of
   them.
4. *SpoolStart*: enumeration, rate-limited requeueing, the health gate; with a
   crash between removal of data and of metadata as MessageStore leaves it.
5. *RetrySchedule*: `delay_for_attempt`, `infer_num_attempts`,
   `compute_delay_based_on_age` as pure operators with their integer widths.
6. The Lua batch dispatcher; transfer and its cancellation between two nodes;
   bounce and rebind rules.

## 6. Reading the map

`PROJECT.json` maps each definition to lines of the source.  The definitions it names
under "as" (such as `NoFlag`, `Leaked`, `UnwindsNothing`) are not part of the
specification; they are plausible slips used to show that a property can fail.

## 7. Not modelled

* RocksDB spool: the database is a library; its permits are planned.
* Lua, configuration and policy: calls that succeed or fail.
* DNS, MTA-STS, DANE, TLS, SOCKS: the outcome of a connection attempt.
* Mail parsing, DKIM, SPF, DMARC, ARC, bounce classification, domain and CIDR maps:
  sequential functions over text.
* Metrics other than the two gauges above, log formatting, memory readings.
* The TSA daemon, the proxy and the command line tools are programs of their own.
* Floating point (GCRA throttles).
* SMTP: STARTTLS, AUTH, XCLIENT, the PROXY protocol, the listener and its connection
  limits, rewriting of responses, DeferredSmtpInjectionDispatcher, a recipient named
  twice.  HTTP injection ends in the same save and insert.
* Ready queues: the number of connections (`ideal_connection_count` beyond zero or
  not), shrinking when memory is low, the refresh of the capacity.
* Logs: `tail` mode from the end, file patterns, the watching of the directory,
  templates, the channel to the writer threads.
* Memory ordering: atomics are sequentially consistent in the models.
