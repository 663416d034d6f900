----------------------------- MODULE ReadyQueue -----------------------------
(***************************************************************************)
(* The life of the ready queues of one name: ReadyQueueManager,            *)
(* ReadyQueue::maintain, reapable and perform_config_refresh of            *)
(* crates/kumod/src/ready_queue.rs, with the insertions of egress_source.rs. *)
(*                                                                         *)
(* A queue is created by the task that misses it in the manager's map, and *)
(* its creation spawns a maintainer that finds its queue by name.  A queue *)
(* leaves the map when it is reaped or when its protocol changes; a        *)
(* successor of the same name may be created at once, while tasks still    *)
(* hold the old one.  Sessions only take messages here: what they do with  *)
(* them is Dispatcher, and a queue has one session at a time.  `away`      *)
(* holds the messages that are anywhere else.                              *)
(* A clock is abstracted to the choice it forces: a queue may count as     *)
(* idle long enough, and a deadline as passed, at any time.                *)
(***************************************************************************)
EXTENDS Naturals, Sequences, FiniteSets, SequencesExt

CONSTANTS
  MaxQueues,  \* bound: queues created under the name, one after the other
  Producers,  \* tasks that promote messages
  Msgs,       \* messages
  Watched,    \* messages whose progress is checked (the others take the places)
  Capacity,   \* max_ready
  NoMsg       \* not a message

ASSUME ReadyQueueAssumption ==
  /\ MaxQueues \in Nat /\ Capacity \in Nat /\ Capacity > 0
  /\ NoMsg \notin Msgs /\ Watched \subseteq Msgs /\ IsFiniteSet(Msgs) /\ IsFiniteSet(Producers)

Queues == 1..MaxQueues
NoQueue == 0

VARIABLES
  shutting,   \* the process is shutting down
  map,        \* the manager's entry for the name
  made,       \* queues created so far; queue i is the i-th
  changed,    \* queues whose protocol differs from their configuration's
  fifo,       \* the messages of each queue
  session,    \* the queues with a connection
  pc,         \* the maintainer spawned for each queue
  queue,      \* the queue that maintainer found by name
  stopping,   \* its flag shutting_down
  prod,       \* the producers: where each stands, its queue and its message
  away,       \* messages elsewhere; once the process shuts down, saved for good
  late        \* history: queues reserved in when they were already given up

maint == <<pc, queue, stopping>>
messages == <<fifo, away>>
vars == <<shutting, map, made, changed, session, maint, prod, messages, late>>

Idle == [pc |-> "idle", queue |-> NoQueue, msg |-> NoMsg]

Init ==
  /\ shutting = FALSE /\ map = NoQueue /\ made = 0 /\ changed = {}
  /\ fifo = [i \in Queues |-> <<>>]
  /\ session = {}
  /\ pc = [i \in Queues |-> "none"]
  /\ queue = [i \in Queues |-> NoQueue]
  /\ stopping = [i \in Queues |-> FALSE]
  /\ prod = [p \in Producers |-> Idle]
  /\ away = Msgs /\ late = {}
-----------------------------------------------------------------------------
(* The producers: SourceSelector::select_and_insert.                       *)

Reservations(i) == {p \in Producers : prod[p].pc = "reserved" /\ prod[p].queue = i}

\* ReadyQueue::ready_count: the messages and the reservations.
CountOfMessages(i) == Len(fifo[i])
Count(i) == Len(fifo[i]) + Cardinality(Reservations(i))

Set(p, s) == prod' = [prod EXCEPT ![p] = s]
GiveUp(p) == Set(p, Idle) /\ away' = away \cup {prod[p].msg}

\* A message becomes due and insert_ready is called for it, which nothing starts
\* once the process is shutting down: the wheels stop, and Queue::insert checks.
Promote(p, m) ==
  /\ prod[p].pc = "idle" /\ m \in away /\ ~shutting
  /\ Set(p, [pc |-> "promoting", queue |-> NoQueue, msg |-> m])
  /\ away' = away \ {m}
  /\ UNCHANGED <<shutting, map, made, changed, session, maint, fifo, late>>

\* resolve_queue finds the queue of the name, also during a shutdown that began
\* after the check...
Find(p) ==
  /\ prod[p].pc = "promoting" /\ map # NoQueue
  /\ Set(p, [pc |-> "resolved", queue |-> map, msg |-> prod[p].msg])
  /\ UNCHANGED <<shutting, map, made, changed, session, maint, messages, late>>

\* ... or resolve_by_queue_name creates it and spawns its maintainer.
NewQueue ==
  /\ ~shutting /\ map = NoQueue /\ made < MaxQueues
  /\ made' = made + 1
  /\ map' = made'
  /\ pc' = [pc EXCEPT ![made'] = "starting"]
  /\ UNCHANGED <<shutting, changed, session, queue, stopping, fifo, late>>

Create(p) ==
  /\ NewQueue
  /\ prod[p].pc = "promoting"
  /\ Set(p, [pc |-> "resolved", queue |-> made', msg |-> prod[p].msg])
  /\ UNCHANGED away

\* ... or fails: there is no Activity for a new queue during a shutdown.
NoActivity(p) ==
  /\ prod[p].pc = "promoting" /\ shutting /\ map = NoQueue
  /\ GiveUp(p)
  /\ UNCHANGED <<shutting, map, made, changed, session, maint, fifo, late>>

\* Some other task creates the queue and is then throttled.
CreateElsewhere == NewQueue /\ UNCHANGED <<prod, away>>

\* make_reservation: a place, if there is one.  It is not refused in a queue
\* that has left the map in the meantime, or is about to.
HasRoom(i) == Count(i) < Capacity
GivenUp(i) == map # i \/ \E t \in Queues : queue[t] = i /\ pc[t] = "reap"

Reserve(p) ==
  /\ prod[p].pc = "resolved" /\ HasRoom(prod[p].queue)
  /\ Set(p, [prod[p] EXCEPT !.pc = "reserved"])
  /\ late' = late \cup {i \in {prod[p].queue} : GivenUp(i)}
  /\ UNCHANGED <<shutting, map, made, changed, session, maint, messages>>

Full(p) ==
  /\ prod[p].pc = "resolved" /\ ~HasRoom(prod[p].queue)
  /\ GiveUp(p)
  /\ UNCHANGED <<shutting, map, made, changed, session, maint, fifo, late>>

\* The source selection rate throttles: the reservation is dropped.
Throttled(p) ==
  /\ prod[p].pc = "reserved"
  /\ GiveUp(p)
  /\ UNCHANGED <<shutting, map, made, changed, session, maint, fifo, late>>

\* redeem_reservation
Redeem(p) ==
  /\ prod[p].pc = "reserved"
  /\ fifo' = [fifo EXCEPT ![prod[p].queue] = Append(@, prod[p].msg)]
  /\ Set(p, Idle)
  /\ UNCHANGED <<shutting, map, made, changed, session, maint, away, late>>
-----------------------------------------------------------------------------
(* The maintainer spawned for queue t: maintainer_task.                    *)

To(t, l) == pc' = [pc EXCEPT ![t] = l]
Return(i) == fifo' = [fifo EXCEPT ![i] = <<>>] /\ away' = away \cup ToSet(fifo[i])
Keep == UNCHANGED <<shutting, map, made, changed, session, queue, stopping, prod,
                    messages, late>>

\* It looks its queue up by name: it may find a successor, or nothing and end.
Start(t) ==
  /\ pc[t] = "starting"
  /\ queue' = [queue EXCEPT ![t] = map]
  /\ To(t, IF map = NoQueue THEN "done" ELSE "wait")
  /\ UNCHANGED <<shutting, map, made, changed, session, stopping, prod, messages, late>>

\* The first select! ends (a notification, the age-out timer, the shutdown) and
\* maintain() runs.
Maintained(t) ==
  /\ pc[t] = "wait"
  /\ To(t, "check")
  /\ stopping' = [stopping EXCEPT ![t] = @ \/ shutting]

\* is_canonical and protocol_changed
Outdated(i) == map # i \/ i \in changed

\* maintain() during a shutdown: a spawned task saves the messages.
MaintainSave(t) ==
  /\ Maintained(t) /\ shutting
  /\ Return(queue[t])
  /\ UNCHANGED <<shutting, map, made, changed, session, queue, prod, late>>

\* maintain() returns the messages of a queue that has been replaced or whose
\* protocol changed, or (held) while it, its source or the spool is suspended.
ReturnHeldOnly(t, held) ==
  /\ Maintained(t) /\ ~shutting /\ held
  /\ Return(queue[t])
  /\ UNCHANGED <<shutting, map, made, changed, session, queue, prod, late>>

MaintainReturn(t, held) ==
  /\ Maintained(t) /\ ~shutting /\ (Outdated(queue[t]) \/ held)
  /\ Return(queue[t])
  /\ UNCHANGED <<shutting, map, made, changed, session, queue, prod, late>>

\* maintain() opens a connection, once it has its leases.
MaintainOpen(t) ==
  /\ Maintained(t) /\ ~shutting /\ ~Outdated(queue[t])
  /\ Count(queue[t]) > 0 /\ queue[t] \notin session
  /\ session' = session \cup {queue[t]}
  /\ UNCHANGED <<shutting, map, made, changed, queue, prod, messages, late>>

\* No connection is needed, a lease is refused, or the second select! takes
\* its other branch: the process is shutting down, or the memory status has
\* changed.
MaintainNothing(t) ==
  /\ Maintained(t)
  /\ UNCHANGED <<shutting, map, made, changed, session, queue, prod, messages, late>>

\* reapable; aged: no notification for AGE_OUT_INTERVAL.
EmptyIgnoringReservations(i) == CountOfMessages(i) = 0 /\ i \notin session
Empty(i) == Count(i) = 0 /\ i \notin session
Reapable(i, aged) == Empty(i) /\ (aged \/ shutting \/ map # i)

CheckReapable(t, aged) ==
  /\ pc[t] = "check" /\ Reapable(queue[t], aged)
  /\ To(t, "reap")
  /\ Keep

\* The deadline has passed: abort_all_connections.
CheckAbort(t) ==
  /\ pc[t] = "check" /\ ~Reapable(queue[t], FALSE)
  /\ stopping[t] /\ queue[t] \in session
  /\ session' = session \ {queue[t]}
  /\ To(t, "wait")
  /\ UNCHANGED <<shutting, map, made, changed, queue, stopping, prod, messages, late>>

\* No longer the canonical queue: it leaves the map, is closed, and the
\* maintainer goes on as though the process were shutting down.
CheckRetire(t) ==
  /\ pc[t] = "check" /\ ~Reapable(queue[t], FALSE)
  /\ ~shutting /\ ~stopping[t] /\ Outdated(queue[t])
  /\ map' = IF map = queue[t] THEN NoQueue ELSE map
  /\ stopping' = [stopping EXCEPT ![t] = TRUE]
  /\ To(t, "wait")
  /\ UNCHANGED <<shutting, made, changed, session, queue, prod, messages, late>>

CheckNothing(t) ==
  /\ pc[t] = "check" /\ ~Reapable(queue[t], FALSE)
  /\ shutting \/ stopping[t] \/ ~Outdated(queue[t])
  /\ To(t, "wait")
  /\ Keep

\* remove_if: this very queue, and still reapable.
LeavesMap(t) == map' = NoQueue

ReapRemove(t) ==
  /\ pc[t] = "reap" /\ map = queue[t] /\ Empty(queue[t])
  /\ LeavesMap(t)
  /\ To(t, "sweep")
  /\ UNCHANGED <<shutting, made, changed, session, queue, stopping, prod, messages, late>>

\* "Likely removed due to the protocol changing": nothing has the name.
NameIsMine(t) == map = queue[t]
NameIsFree(t) == map = NoQueue

ReapGone(t) ==
  /\ pc[t] = "reap" /\ ~(map = queue[t] /\ Empty(queue[t])) /\ NameIsFree(t)
  /\ To(t, "sweep")
  /\ Keep

\* Neither: the queue has found new work, or a successor has the name.
ReapNot(t) ==
  /\ pc[t] = "reap" /\ ~(map = queue[t] /\ Empty(queue[t])) /\ ~NameIsFree(t)
  /\ To(t, "wait")
  /\ Keep

\* The final sweep, and the task ends.
Sweep(t) ==
  /\ pc[t] = "sweep"
  /\ Return(queue[t])
  /\ To(t, "done")
  /\ UNCHANGED <<shutting, map, made, changed, session, queue, stopping, prod, late>>

Maintainer(t) ==
  \/ Start(t) \/ MaintainSave(t) \/ MaintainOpen(t) \/ MaintainNothing(t)
  \/ \E b \in BOOLEAN : MaintainReturn(t, b) \/ CheckReapable(t, b)
  \/ CheckAbort(t) \/ CheckRetire(t) \/ CheckNothing(t)
  \/ ReapRemove(t) \/ ReapGone(t) \/ ReapNot(t) \/ Sweep(t)
-----------------------------------------------------------------------------
\* A session takes the next message.
Take(i) ==
  /\ i \in session /\ fifo[i] # <<>>
  /\ fifo' = [fifo EXCEPT ![i] = Tail(@)]
  /\ away' = away \cup {Head(fifo[i])}
  /\ UNCHANGED <<shutting, map, made, changed, session, maint, prod, late>>

\* A session ends: idle, failed, stopped by the watchdog, by the queue's
\* being closed or by the shutdown.
End(i) ==
  /\ i \in session
  /\ session' = session \ {i}
  /\ UNCHANGED <<shutting, map, made, changed, maint, prod, messages, late>>

\* The configuration of the scheduled queue that created queue i changes its
\* protocol (which makes no difference to a queue that has left the map)...
Reconfigure(i) ==
  /\ map = i /\ i \notin changed
  /\ changed' = changed \cup {i}
  /\ UNCHANGED <<shutting, map, made, session, maint, prod, messages, late>>

\* ... and perform_config_refresh unlinks the queue.
Refresh(i) ==
  /\ i \in changed /\ map = i /\ ~shutting
  /\ map' = NoQueue
  /\ UNCHANGED <<shutting, made, changed, session, maint, prod, messages, late>>

\* Nobody holds the queue any more: ReadyQueue::drop.
Held(i) ==
  \/ map = i
  \/ \E t \in Queues : queue[t] = i /\ pc[t] # "done"
  \/ \E p \in Producers : prod[p].queue = i
  \/ i \in session

Drop(i) ==
  /\ fifo[i] # <<>> /\ ~Held(i)
  /\ fifo' = [fifo EXCEPT ![i] = <<>>]
  /\ UNCHANGED <<shutting, map, made, changed, session, maint, prod, away, late>>

Shutdown ==
  /\ ~shutting
  /\ shutting' = TRUE
  /\ UNCHANGED <<map, made, changed, session, maint, prod, messages, late>>

Produce(p) == Find(p) \/ Create(p) \/ NoActivity(p) \/ Reserve(p) \/ Full(p) \/ Throttled(p) \/ Redeem(p)

Next ==
  \/ \E p \in Producers : Produce(p) \/ \E m \in Msgs : Promote(p, m)
  \/ \E t \in Queues : Maintainer(t)
  \/ \E i \in Queues : Take(i) \/ End(i) \/ Reconfigure(i) \/ Refresh(i) \/ Drop(i)
  \/ CreateElsewhere \/ Shutdown

Spec == Init /\ [][Next]_vars

\* Tasks are scheduled, a maintainer's timer fires at least every ten minutes,
\* and sessions are ended by their timeouts or by the watchdog.  The select!
\* chooses at random among its ready branches, so maintain() is not cancelled
\* every time.  Leases come free again, so a queue that keeps asking opens a
\* connection some time; and a session either takes a message or fails to
\* connect, which after a bounded number of failures in a row returns the
\* messages (here: takes them).
Maintains(t) == MaintainSave(t) \/ MaintainReturn(t, FALSE) \/ MaintainOpen(t)

Fairness ==
  /\ \A t \in Queues : WF_vars(Maintainer(t)) /\ SF_vars(Maintains(t))
  /\ \A i \in Queues : WF_vars(End(i)) /\ SF_vars(Take(i))
  /\ \A p \in Producers : WF_vars(Produce(p))

FairSpec == Spec /\ Fairness
-----------------------------------------------------------------------------
\* Every ready queue, producer, message and maintainer has its type.
TypeOK ==
  /\ shutting \in BOOLEAN /\ map \in Queues \cup {NoQueue} /\ made \in 0..MaxQueues
  /\ map <= made /\ changed \subseteq 1..made /\ late \subseteq 1..made
  /\ fifo \in [Queues -> Seq(Msgs)] /\ \A i \in Queues : Count(i) <= Capacity
  /\ session \subseteq 1..made
  /\ pc \in [Queues -> {"none", "starting", "wait", "check", "reap", "sweep", "done"}]
  /\ queue \in [Queues -> Queues \cup {NoQueue}]
  /\ stopping \in [Queues -> BOOLEAN]
  /\ prod \in [Producers -> [pc : {"idle", "promoting", "resolved", "reserved"},
                             queue : Queues \cup {NoQueue}, msg : Msgs \cup {NoMsg}]]
  /\ away \subseteq Msgs

\* A maintainer is at work on the queue.
Serves(t, i) == queue[t] = i /\ pc[t] \notin {"none", "starting", "done"}
Served(i) == \E t \in Queues : Serves(t, i)

\* The queue that insertions find has a maintainer, running or about to start:
\* no interleaving of reaping, replacement and late starts leaves a queue in
\* the manager's map that nothing serves.
CanonicalIsServed == map # NoQueue => pc[map] = "starting" \/ Served(map)

\* The maintainer that was spawned for queue i has found another queue or none.
Misled(i) == pc[i] \notin {"none", "starting"} /\ queue[i] # i

\* A queue that holds messages has, or is about to have, a maintainer: reaping
\* never leaves one behind that a reservation made in time is redeemed into.
\* Only a place reserved after the queue left the map or its maintainer found
\* it reapable, or a maintainer that started after the queue was replaced,
\* strands a message.
Sheltered ==
  \A i \in Queues : fifo[i] # <<>> =>
    pc[i] = "starting" \/ Served(i) \/ i \in late \/ Misled(i)

\* A message in a queue with a maintainer leaves it, to a session or back to
\* its scheduled queue, also when the queue is replaced, loses its name to a
\* successor, is suspended, or the process shuts down.
MessagesLeave ==
  \A i \in Queues, m \in Watched :
    (Served(i) /\ m \in ToSet(fifo[i])) ~> (m \notin ToSet(fifo[i]))

\* After a shutdown is requested every maintainer ends and the name is free,
\* whichever queues have been replaced before.
ShutdownReaps ==
  shutting ~> (map = NoQueue /\ \A t \in Queues : pc[t] \in {"none", "done"})

\* ReadyQueue::drop: a queue is dropped with no messages in it.
DropsEmpty == \A i \in Queues : fifo[i] # <<>> => Held(i)

\* maintainer_task: a queue that is no longer canonical is reaped "as usual".
ReplacedEnds ==
  \A t \in Queues : (Serves(t, t) /\ map # t) ~> (pc[t] = "done")
=============================================================================
