----------------------------- MODULE Dispatcher -----------------------------
(***************************************************************************)
(* Delivery from one ready queue: the Dispatcher tasks of                  *)
(* crates/kumod/src/ready_queue.rs driving the SMTP protocol               *)
(* (smtp_dispatcher.rs, one message per batch), the tasks they spawn to    *)
(* return messages, and the insertion into the scheduled queue             *)
(* (queue/queue.rs) those tasks end in.                                    *)
(*                                                                         *)
(* Every place that can own a message is a variable.  The scheduled queue  *)
(* is the set of its messages: its timers are modelled elsewhere, here a   *)
(* message may fall due at any time.  An action ends where the code awaits *)
(* something that another task can interleave with.                        *)
(***************************************************************************)
EXTENDS Naturals, Sequences, FiniteSets, SequencesExt

CONSTANTS
  Dispatchers,  \* connection slots
  Msgs,         \* messages accepted into the spool
  Rcpts,        \* the recipients of each message
  Capacity,     \* max_ready
  Conditions,   \* the operator and spool conditions that come and go
  MaxSends,     \* bound: accepted transmissions of one message
  MaxMoving,    \* bound: tasks returning one message when another is added
  NoMsg         \* no message, not a member of Msgs

AllConditions == {"unhealthy", "suspend_ready", "suspend", "bounce"}

ASSUME ConditionsAssumption == Conditions \subseteq AllConditions
ASSUME MsgAssumption == NoMsg \notin Msgs /\ IsFiniteSet(Msgs) /\ IsFiniteSet(Dispatchers)
ASSUME BoundsAssumption == Capacity \in Nat /\ MaxSends \in Nat /\ MaxMoving \in Nat

VARIABLES
  active,     \* the conditions in force
  shutting,   \* the process is shutting down
  sched,      \* messages waiting in the scheduled queue
  ready,      \* the Fifo of the ready queue
  msg,        \* Dispatcher::msgs, at most one message
  carry,      \* messages a dispatcher is requeueing inline
  moving,     \* how many spawned tasks are returning each message
  parked,     \* saved and dropped because of the shutdown
  stranded,   \* dropped after an error, in the spool until a restart
  pc,         \* where each dispatcher stands
  answer,     \* the recipients accepted and refused by the transaction
  rcpts,      \* the recipient list of each message
  final,      \* recipients whose terminal disposition has been logged
  spool,      \* messages in the spool
  sent,       \* history: accepted transmissions per message and recipient
  unrecorded, \* history: acceptances whose recording was cut short
  cut         \* history: logged recipients whose recording was cut short

places == <<sched, ready, msg, carry, moving, parked, stranded>>
books == <<rcpts, final, spool, sent, unrecorded, cut>>
vars == <<active, shutting, places, pc, answer, books>>

NoAnswer == [ok |-> {}, bad |-> {}]

\* Every message has just been received and is on its way to the queue.
Init ==
  /\ active = {}
  /\ shutting = FALSE
  /\ sched = {} /\ ready = <<>> /\ parked = {} /\ stranded = {}
  /\ msg = [d \in Dispatchers |-> NoMsg]
  /\ carry = [d \in Dispatchers |-> {}]
  /\ moving = [m \in Msgs |-> 1]
  /\ pc = [d \in Dispatchers |-> "off"]
  /\ answer = [d \in Dispatchers |-> NoAnswer]
  /\ rcpts = [m \in Msgs |-> Rcpts]
  /\ final = [m \in Msgs |-> {}]
  /\ spool = Msgs
  /\ sent = [m \in Msgs |-> [r \in Rcpts |-> 0]]
  /\ unrecorded = [m \in Msgs |-> [r \in Rcpts |-> 0]]
  /\ cut = [m \in Msgs |-> {}]
-----------------------------------------------------------------------------
\* log_disposition of a terminal record for every remaining recipient, then
\* remove_from_spool: admin bounce, expiration, rejection by an event.
Dispose(m) ==
  /\ final' = [final EXCEPT ![m] = @ \cup rcpts[m]]
  /\ spool' = spool \ {m}
  /\ UNCHANGED <<rcpts, sent, unrecorded, cut>>

\* May Queue::insert_ready promote a message to the ready queue now?
MayPromote == active \cap {"unhealthy", "bounce", "suspend"} = {} /\ Len(ready) < Capacity

\* Queue::insert_delayed and force_into_delayed: into the timer.
InsertDelayed(m) == sched' = sched \cup {m} /\ UNCHANGED <<ready, books>>

\* Queue::insert_ready: into the ready queue, when nothing holds it back.
InsertReady(m) == MayPromote /\ ready' = Append(ready, m) /\ UNCHANGED <<sched, books>>

\* The message is too old for another attempt, or an event rejected it.
Expire(m) == Dispose(m) /\ UNCHANGED <<sched, ready>>

\* requeue_message and Queue::insert: what becomes of a message its caller
\* gives up.  An error is only logged; the handle is dropped.
Insert(m) ==
  \/ /\ "bounce" \in active
     /\ Dispose(m)
     /\ UNCHANGED <<sched, ready, parked, stranded>>
  \/ /\ "bounce" \notin active /\ shutting
     /\ parked' = parked \cup {m}
     /\ UNCHANGED <<sched, ready, stranded, books>>
  \/ /\ "bounce" \notin active /\ ~shutting
     /\ InsertDelayed(m) \/ InsertReady(m) \/ Expire(m)
     /\ UNCHANGED <<parked, stranded>>
  \/ /\ stranded' = stranded \cup {m}
     /\ UNCHANGED <<sched, ready, parked, books>>

\* A spawned task returns its message.
FinishMove(m) ==
  /\ moving[m] > 0
  /\ moving' = [moving EXCEPT ![m] = @ - 1]
  /\ Insert(m)
  /\ UNCHANGED <<active, shutting, msg, carry, pc, answer>>

\* A message of the scheduled queue falls due and is taken out by the
\* queue's maintainer, which goes on to insert_ready.
FallDue(m) ==
  /\ m \in sched /\ moving[m] < MaxMoving
  /\ sched' = sched \ {m}
  /\ moving' = [moving EXCEPT ![m] = @ + 1]
  /\ UNCHANGED <<active, shutting, ready, msg, carry, parked, stranded, pc, answer, books>>

InReady == {ready[i] : i \in DOMAIN ready}

Spawned(ms) == [m \in Msgs |-> IF m \in ms THEN moving[m] + 1 ELSE moving[m]]

\* ReadyQueue::reinsert_ready_queue from maintain(): the whole Fifo goes back.
Drain ==
  /\ ready # <<>>
  /\ active \cap {"unhealthy", "suspend_ready"} # {} /\ ~shutting
  /\ ready' = <<>>
  /\ moving' = Spawned(InReady)
  /\ UNCHANGED <<active, shutting, sched, msg, carry, parked, stranded, pc, answer, books>>

\* maintain() during a shutdown: the whole Fifo is saved.
SaveReady ==
  /\ ready # <<>> /\ shutting
  /\ ready' = <<>>
  /\ parked' = parked \cup InReady
  /\ UNCHANGED <<active, shutting, sched, msg, carry, moving, stranded, pc, answer, books>>

\* maintain() opens a connection.
Open(d) ==
  /\ pc[d] = "off" /\ ~shutting
  /\ active \cap {"unhealthy", "suspend_ready"} = {}
  /\ ready # <<>>
  /\ pc' = [pc EXCEPT ![d] = "obtain"]
  /\ UNCHANGED <<active, shutting, places, answer, books>>
-----------------------------------------------------------------------------
Go(d, l) == pc' = [pc EXCEPT ![d] = l]

\* wait_for_message, before it looks for work: the exits that keep the
\* message for Drop (session terminated, delivery limit, lease lost).
LeaveLoop(d) ==
  /\ pc[d] = "loop" /\ ~shutting
  /\ Go(d, "closing")
  /\ UNCHANGED <<active, shutting, places, answer, books>>

\* The messages of a dispatcher: the content of msgs.
Held(d) == {msg[d]} \ {NoMsg}

\* wait_for_message during a shutdown: the batch is saved and dropped.
KeepGoing(d) ==
  /\ pc[d] = "loop" /\ shutting
  /\ Go(d, "obtain")
  /\ UNCHANGED <<active, shutting, places, answer, books>>
LeaveShutdown(d) ==
  /\ pc[d] = "loop" /\ shutting
  /\ parked' = parked \cup Held(d)
  /\ msg' = [msg EXCEPT ![d] = NoMsg]
  /\ Go(d, "closing")
  /\ UNCHANGED <<active, shutting, sched, ready, carry, moving, stranded, answer, books>>

\* Dispatcher::reinsert_ready_queue and throttle_ready_queue: the Fifo and the
\* batch are handed to a spawned task.
GiveBackAll(d) ==
  /\ ready' = <<>>
  /\ moving' = Spawned(InReady \cup Held(d))
  /\ msg' = [msg EXCEPT ![d] = NoMsg]
  /\ UNCHANGED <<sched, carry, parked, stranded>>

\* wait_for_message while the ready queue (or its source) is suspended.
LeaveSuspended(d) ==
  /\ pc[d] = "loop" /\ ~shutting
  /\ "suspend_ready" \in active
  /\ GiveBackAll(d)
  /\ Go(d, "closing")
  /\ UNCHANGED <<active, shutting, answer, books>>

LoopToObtain(d) ==
  /\ pc[d] = "loop" /\ ~shutting
  /\ "suspend_ready" \notin active
  /\ Go(d, "obtain")
  /\ UNCHANGED <<active, shutting, places, answer, books>>

\* obtain_message: a batch is at hand, or one message is popped.
HaveBatch(d) ==
  /\ pc[d] = "obtain" /\ "unhealthy" \notin active
  /\ msg[d] # NoMsg
  /\ Go(d, "connect")
  /\ UNCHANGED <<active, shutting, places, answer, books>>

PopBatch(d) ==
  /\ pc[d] = "obtain" /\ "unhealthy" \notin active
  /\ msg[d] = NoMsg /\ ready # <<>>
  /\ ready' = Tail(ready)
  /\ LET m == Head(ready) IN
     \/ /\ "bounce" \in active
        /\ Dispose(m)
        /\ UNCHANGED <<msg, carry, pc>>
     \/ /\ "bounce" \notin active /\ "suspend" \in active
        /\ carry' = [carry EXCEPT ![d] = {m}]
        /\ Go(d, "obtaining")
        /\ UNCHANGED <<msg, books>>
     \/ /\ active \cap {"bounce", "suspend"} = {}
        /\ msg' = [msg EXCEPT ![d] = m]
        /\ Go(d, "connect")
        /\ UNCHANGED <<carry, books>>
  /\ UNCHANGED <<active, shutting, sched, moving, parked, stranded, answer>>

\* wait_for_message waits: on a timeout it returns whether it holds a batch,
\* on a shutdown or a closed queue it returns false, on a suspension it hands
\* the messages back.
WaitTimeout(d) ==
  /\ pc[d] = "obtain"
  /\ msg[d] = NoMsg => ready = <<>> \/ "unhealthy" \in active
  /\ Go(d, IF msg[d] # NoMsg THEN "connect" ELSE "closing")
  /\ UNCHANGED <<active, shutting, places, answer, books>>

WaitShutdown(d) ==
  /\ pc[d] = "obtain" /\ shutting
  /\ Go(d, "closing")
  /\ UNCHANGED <<active, shutting, places, answer, books>>

WaitSuspended(d) ==
  /\ pc[d] = "obtain" /\ ~shutting
  /\ "suspend_ready" \in active
  /\ GiveBackAll(d)
  /\ Go(d, "closing")
  /\ UNCHANGED <<active, shutting, answer, books>>
-----------------------------------------------------------------------------
\* attempt_connection: connected, or try the next host, or give the session up.
Connected(d) ==
  /\ pc[d] = "connect"
  /\ pc' \in {[pc EXCEPT ![d] = l] : l \in {"deliver", "loop"}}
  /\ UNCHANGED <<active, shutting, places, answer, books>>

\* The select! on shutting_down: the session closes with its batch.
ConnectShutdown(d) ==
  /\ pc[d] = "connect" /\ shutting
  /\ Go(d, "closing")
  /\ UNCHANGED <<active, shutting, places, answer, books>>

\* The batch leaves msgs to be requeued by the dispatcher itself.
CarryBatch(d) ==
  /\ carry' = [carry EXCEPT ![d] = Held(d)]
  /\ msg' = [msg EXCEPT ![d] = NoMsg]
  /\ UNCHANGED <<sched, ready, moving, parked, stranded>>

\* No candidate host is left.
ConnectFailed(d) ==
  /\ pc[d] = "connect"
  /\ CarryBatch(d)
  /\ Go(d, "giveup")
  /\ UNCHANGED <<active, shutting, answer, books>>

\* Too many connection failures in a row: delay_ready_queue requeues the Fifo.
DelayReadyQueue(d) ==
  /\ pc[d] = "giveup" /\ carry[d] = {}
  /\ carry' = [carry EXCEPT ![d] = InReady]
  /\ ready' = <<>>
  /\ Go(d, "bulk")
  /\ UNCHANGED <<active, shutting, sched, msg, moving, parked, stranded, answer, books>>

\* PeerClosedConnectionNeedNewSession.
PeerClosed(d) ==
  /\ pc[d] = "connect"
  /\ GiveBackAll(d)
  /\ Go(d, "closing")
  /\ UNCHANGED <<active, shutting, answer, books>>

CarryStates == {"obtaining", "giveup", "bulk", "failed", "shed"}

\* Where the dispatcher goes on once it has requeued what it carried.
AfterCarry(d) == CASE pc[d] = "obtaining" -> "obtain"
                   [] pc[d] \in {"giveup", "bulk"} -> "closing"
                   [] pc[d] \in {"failed", "shed"} -> "loop"

\* Inline requeueing of one message.  An error ends the session where the
\* code uses `?` and is logged or ignored elsewhere; the message is dropped
\* in both cases.
FinishCarry(d) ==
  /\ pc[d] \in CarryStates
  /\ \E m \in carry[d] :
       /\ carry' = [carry EXCEPT ![d] = @ \ {m}]
       /\ Insert(m)
       /\ IF m \in stranded' /\ pc[d] \in {"giveup", "failed"} THEN Go(d, "closing")
          ELSE UNCHANGED pc
  /\ UNCHANGED <<active, shutting, msg, moving, answer>>

CarryDone(d) ==
  /\ pc[d] \in CarryStates /\ carry[d] = {}
  /\ Go(d, AfterCarry(d))
  /\ UNCHANGED <<active, shutting, places, answer, books>>
-----------------------------------------------------------------------------
\* deliver_message returns without having done anything: the ready queue was
\* just suspended, or a shutdown ended the wait for a message rate throttle.
DeliverNothing(d) ==
  /\ pc[d] = "deliver" /\ ("suspend_ready" \in active \/ shutting)
  /\ Go(d, "loop")
  /\ UNCHANGED <<active, shutting, places, answer, books>>

\* deliver_message meets a message rate throttle with a long delay.
DeliverThrottled(d) ==
  /\ pc[d] = "deliver" /\ "suspend_ready" \notin active
  /\ GiveBackAll(d)
  /\ Go(d, "loop")
  /\ UNCHANGED <<active, shutting, answer, books>>

\* deliver_message fails before anything was sent (load, Activity::get).
DeliverFailed(d) ==
  /\ pc[d] = "deliver" /\ "suspend_ready" \notin active
  /\ CarryBatch(d)
  /\ Go(d, "failed")
  /\ UNCHANGED <<active, shutting, answer, books>>

\* SmtpDispatcher::deliver_message, race protection: the spool became
\* unhealthy after obtain_message.  The message is requeued; it is not taken
\* out of dispatcher.msgs.
DeliverUnhealthy(d) ==
  /\ pc[d] = "deliver" /\ "suspend_ready" \notin active
  /\ "unhealthy" \in active /\ msg[d] # NoMsg /\ ~shutting
  /\ moving[msg[d]] < MaxMoving
  /\ carry' = [carry EXCEPT ![d] = Held(d)]
  /\ Go(d, "shed")
  /\ UNCHANGED <<active, shutting, sched, ready, msg, moving, parked, stranded, answer, books>>

\* The SMTP transaction: the peer accepts some recipients, refuses some for
\* good and defers the rest (all of them on a transport error).
Transmit(d) ==
  /\ pc[d] = "deliver" /\ active \cap {"suspend_ready", "unhealthy"} = {}
  /\ msg[d] # NoMsg /\ ~shutting
  /\ LET m == msg[d] IN
     \E ok \in SUBSET rcpts[m] : \E bad \in SUBSET (rcpts[m] \ ok) :
       /\ \A r \in ok : sent[m][r] < MaxSends
       /\ answer' = [answer EXCEPT ![d] = [ok |-> ok, bad |-> bad]]
       /\ sent' = [sent EXCEPT ![m] = [r \in Rcpts |-> IF r \in ok THEN @[r] + 1 ELSE @[r]]]
  /\ Go(d, "answered")
  /\ UNCHANGED <<active, shutting, places, rcpts, final, spool, unrecorded, cut>>

\* The recipients that need another attempt.
NobodyLeft(d) == {}
EverybodyNotRefused(d) == rcpts[msg[d]] \ answer[d].bad
EverybodyNotAccepted(d) == rcpts[msg[d]] \ answer[d].ok
Remaining(d) == rcpts[msg[d]] \ (answer[d].ok \cup answer[d].bad)

\* The loop over by_status: log_disposition of one group of recipients with
\* the same terminal response.
LogOutcome(d) ==
  /\ pc[d] \in {"answered", "logging"}
  /\ \E rs \in SUBSET ((answer[d].ok \cup answer[d].bad) \ final[msg[d]]) :
       /\ rs # {}
       /\ final' = [final EXCEPT ![msg[d]] = @ \cup rs]
  /\ Go(d, "logging")
  /\ UNCHANGED <<active, shutting, places, answer, rcpts, spool, sent, unrecorded, cut>>

\* The loop has ended.  The message is still in msgs.
AllLogged(d) ==
  /\ pc[d] \in {"answered", "logging"}
  /\ answer[d].ok \cup answer[d].bad \subseteq final[msg[d]]

\* Every recipient has a terminal disposition: the message leaves msgs, and
\* its removal from the spool follows.
PopDone(d) ==
  /\ AllLogged(d) /\ Remaining(d) = {}
  /\ carry' = [carry EXCEPT ![d] = Held(d)]
  /\ msg' = [msg EXCEPT ![d] = NoMsg]
  /\ answer' = [answer EXCEPT ![d] = NoAnswer]
  /\ Go(d, "removing")
  /\ UNCHANGED <<active, shutting, sched, ready, moving, parked, stranded, books>>

\* remove_from_spool after the last recipient.
RemoveSent(d) ==
  /\ pc[d] = "removing"
  /\ spool' = spool \ carry[d]
  /\ carry' = [carry EXCEPT ![d] = {}]
  /\ Go(d, "loop")
  /\ UNCHANGED <<active, shutting, sched, ready, msg, moving, parked, stranded, answer,
                 rcpts, final, sent, unrecorded, cut>>

\* Some recipients are left: set_recipient_list, then the message stays for
\* the next host or an immediate retry, or a spawned task requeues it.
TrimRecipients(d) ==
  /\ AllLogged(d) /\ Remaining(d) # {}
  /\ rcpts' = [rcpts EXCEPT ![msg[d]] = Remaining(d)]
  /\ \/ UNCHANGED <<msg, moving>>
     \/ /\ moving' = Spawned(Held(d))
        /\ msg' = [msg EXCEPT ![d] = NoMsg]
  /\ answer' = [answer EXCEPT ![d] = NoAnswer]
  /\ Go(d, "loop")
  /\ UNCHANGED <<active, shutting, sched, ready, carry, parked, stranded, final, spool, sent,
                 unrecorded, cut>>

\* The acceptances, and the logged outcomes, of a transaction that is cut short
\* before the recipient list is trimmed or the message has left msgs.
Lost(d) == [unrecorded EXCEPT ![msg[d]] = [r \in Rcpts |-> IF r \in answer[d].ok THEN @[r] + 1 ELSE @[r]]]
CutShort(d) == [cut EXCEPT ![msg[d]] = @ \cup ((answer[d].ok \cup answer[d].bad) \cap final[msg[d]])]

\* An error between the peer's answer and the end of its recording: before
\* the first record (queue name or policy not available for
\* smtp_client_rewrite_delivery_status), or in set_recipient_list.
RecordFailed(d) ==
  /\ \/ pc[d] = "answered" /\ answer[d].bad \cup Remaining(d) # {}
     \/ AllLogged(d) /\ Remaining(d) # {}
  /\ unrecorded' = Lost(d)
  /\ cut' = CutShort(d)
  /\ answer' = [answer EXCEPT ![d] = NoAnswer]
  /\ CarryBatch(d)
  /\ Go(d, "failed")
  /\ UNCHANGED <<active, shutting, rcpts, final, spool, sent>>
-----------------------------------------------------------------------------
\* Drop for Dispatcher: a message still in msgs is handed to a spawned task.
NothingReturned(d) == moving
Dropped(d) == Spawned(Held(d))

DropDispatcher(d) ==
  /\ moving' = Dropped(d)
  /\ msg' = [msg EXCEPT ![d] = NoMsg]
  /\ Go(d, "off")

Close(d) ==
  /\ pc[d] = "closing"
  /\ DropDispatcher(d)
  /\ UNCHANGED <<active, shutting, sched, ready, carry, parked, stranded, answer, books>>

\* The progress watchdog (or the abort of all connections) cancels the task
\* where it awaits: Drop returns msgs, what it carried is only in the spool.
Abort(d) ==
  /\ pc[d] # "off"
  /\ DropDispatcher(d)
  /\ stranded' = stranded \cup carry[d]
  /\ carry' = [carry EXCEPT ![d] = {}]
  /\ IF pc[d] \in {"answered", "logging"} THEN unrecorded' = Lost(d) /\ cut' = CutShort(d)
     ELSE UNCHANGED <<unrecorded, cut>>
  /\ answer' = [answer EXCEPT ![d] = NoAnswer]
  /\ UNCHANGED <<active, shutting, sched, ready, parked, rcpts, final, spool, sent>>

\* Conditions come and go; a shutdown is requested once.
Toggle(c) ==
  /\ active' = IF c \in active THEN active \ {c} ELSE active \cup {c}
  /\ UNCHANGED <<shutting, places, pc, answer, books>>

Shutdown ==
  /\ ~shutting
  /\ shutting' = TRUE
  /\ UNCHANGED <<active, places, pc, answer, books>>

Work(d) ==
  \/ LeaveLoop(d) \/ LeaveShutdown(d) \/ LeaveSuspended(d) \/ LoopToObtain(d)
  \/ HaveBatch(d) \/ PopBatch(d) \/ WaitTimeout(d) \/ WaitShutdown(d) \/ WaitSuspended(d)
  \/ Connected(d) \/ ConnectShutdown(d) \/ ConnectFailed(d) \/ DelayReadyQueue(d) \/ PeerClosed(d)
  \/ FinishCarry(d) \/ CarryDone(d)
  \/ DeliverNothing(d) \/ DeliverThrottled(d) \/ DeliverFailed(d) \/ DeliverUnhealthy(d)
  \/ Transmit(d) \/ LogOutcome(d) \/ PopDone(d) \/ RemoveSent(d) \/ TrimRecipients(d) \/ RecordFailed(d)
  \/ Close(d)

Next ==
  \/ \E d \in Dispatchers : Open(d) \/ Work(d) \/ Abort(d)
  \/ \E m \in Msgs : FinishMove(m) \/ FallDue(m)
  \/ Drain \/ SaveReady
  \/ \E c \in Conditions : Toggle(c)
  \/ Shutdown

\* Running tasks make progress: every network operation of a dispatcher has a
\* timeout, spawned tasks are scheduled, and maintain() runs periodically.
Fairness ==
  /\ \A d \in Dispatchers : WF_vars(Work(d))
  /\ \A m \in Msgs : WF_vars(FinishMove(m))
  /\ WF_vars(SaveReady)

Spec == Init /\ [][Next]_vars /\ Fairness
-----------------------------------------------------------------------------
TypeOK ==
  /\ active \subseteq Conditions
  /\ shutting \in BOOLEAN
  /\ sched \subseteq Msgs /\ parked \subseteq Msgs /\ stranded \subseteq Msgs
  /\ ready \in Seq(Msgs) /\ Len(ready) <= Capacity
  /\ msg \in [Dispatchers -> Msgs \cup {NoMsg}]
  /\ carry \in [Dispatchers -> SUBSET Msgs]
  /\ moving \in [Msgs -> Nat]
  /\ pc \in [Dispatchers -> {"off", "loop", "obtain", "obtaining", "connect", "giveup", "bulk",
                             "deliver", "failed", "shed", "answered", "logging", "removing", "closing"}]
  /\ answer \in [Dispatchers -> [ok : SUBSET Rcpts, bad : SUBSET Rcpts]]
  /\ rcpts \in [Msgs -> SUBSET Rcpts] /\ final \in [Msgs -> SUBSET Rcpts]
  /\ spool \subseteq Msgs
  /\ sent \in [Msgs -> [Rcpts -> 0..MaxSends]]
  /\ unrecorded \in [Msgs -> [Rcpts -> Nat]]
  /\ cut \in [Msgs -> SUBSET Rcpts]

\* How many owners a message has.
Owners(m) ==
  Cardinality({s \in {1, 2, 3} : m \in <<sched, parked, stranded>>[s]})
  + Cardinality({i \in DOMAIN ready : ready[i] = m})
  + Cardinality({d \in Dispatchers : msg[d] = m})
  + Cardinality({d \in Dispatchers : m \in carry[d]})
  + moving[m]

\* A message has one owner at any time until it is removed: never two queues,
\* tasks or sessions at once, and none after its removal.
OneOwner == \A m \in Msgs : Owners(m) = IF m \in spool THEN 1 ELSE 0

\* A message leaves the spool only when a terminal disposition has been logged
\* for each of its recipients, whatever fails, is aborted or shut down.
RemovedOnlyWhenDone == \A m \in Msgs \ spool : final[m] = Rcpts

\* A recipient is transmitted a second time only when an abort or an error
\* came after an earlier acceptance and before the message's recipient list
\* was trimmed: once for each such interruption.
NoNeedlessDuplicate == \A m \in Msgs, r \in Rcpts : sent[m][r] <= 1 + unrecorded[m][r]

\* A recipient whose terminal disposition has been logged is not transmitted
\* again by any session, unless the transaction that logged it was cut short
\* between the record and the trimming of the recipient list.
NoRetryAfterFinal == [][\A m \in Msgs, r \in Rcpts :
                          sent'[m][r] > sent[m][r] => r \notin final[m] \/ r \in cut[m]]_vars

\* The same without the exception.  Does not hold: the watchdog may abort a
\* session that awaits log_disposition, and Drop requeues the message with
\* the recipients it had before the transaction.
FinalIsNeverRetried == [][\A m \in Msgs, r \in Rcpts : sent'[m][r] > sent[m][r] => r \notin final[m]]_vars

\* Shutdown drains: every session ends and every message in the ready queue,
\* in a session or in a spawned task is saved, disposed of or (after an
\* error) left in the spool.
ShutdownDrains ==
  shutting ~> /\ \A d \in Dispatchers : pc[d] = "off"
              /\ ready = <<>>
              /\ \A m \in Msgs : moving[m] = 0
=============================================================================
