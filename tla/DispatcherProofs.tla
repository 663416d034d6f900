-------------------------- MODULE DispatcherProofs --------------------------
(***************************************************************************)
(* Who owns a message, and what is known about its recipients, proved of   *)
(* Dispatcher for any number of sessions, messages and recipients.         *)
(*                                                                         *)
(* The proof has two layers.  Ledger needs nothing of the owners: it is    *)
(* about the recipients that are still to be tried and those that are      *)
(* done, and holds even where a message has two owners.  Ownership and     *)
(* Books need the spool to stay healthy, since the race protection of      *)
(* deliver_message (DeliverUnhealthy) requeues a message that the session  *)
(* still holds.                                                            *)
(***************************************************************************)
EXTENDS Dispatcher, FiniteSetTheorems, SequenceTheorems, TLAPS

(* Types, in the three parts that actions change separately.               *)

Labels == {"off", "loop", "obtain", "obtaining", "connect", "giveup", "bulk",
           "deliver", "failed", "shed", "answered", "logging", "removing", "closing"}

RunTyped ==
  /\ active \subseteq Conditions /\ shutting \in BOOLEAN
  /\ pc \in [Dispatchers -> Labels]
  /\ answer \in [Dispatchers -> [ok : SUBSET Rcpts, bad : SUBSET Rcpts]]

PlacesTyped ==
  /\ sched \subseteq Msgs /\ parked \subseteq Msgs /\ stranded \subseteq Msgs
  /\ ready \in Seq(Msgs) /\ Len(ready) <= Capacity
  /\ msg \in [Dispatchers -> Msgs \cup {NoMsg}]
  /\ carry \in [Dispatchers -> SUBSET Msgs]
  /\ moving \in [Msgs -> Nat]

BooksTyped ==
  /\ rcpts \in [Msgs -> SUBSET Rcpts] /\ final \in [Msgs -> SUBSET Rcpts]
  /\ spool \subseteq Msgs
  /\ sent \in [Msgs -> [Rcpts -> 0..MaxSends]]
  /\ unrecorded \in [Msgs -> [Rcpts -> Nat]]
  /\ cut \in [Msgs -> SUBSET Rcpts]

\* Where a session has the answer of the peer and its message.
Answering == {"answered", "logging"}

\* Every recipient is still to be tried or has its terminal record, and a
\* message that was removed has all of them.
Recorded ==
  /\ \A m \in Msgs : final[m] \cup rcpts[m] = Rcpts
  /\ \A m \in Msgs \ spool : final[m] = Rcpts

\* A session with an answer has the message it is about, and one that removes
\* a message has recorded everything.
Sessions ==
  /\ \A d \in Dispatchers : pc[d] \in Answering => msg[d] # NoMsg
  /\ \A d \in Dispatchers : pc[d] = "removing" => \A m \in carry[d] : final[m] = Rcpts

Ledger == RunTyped /\ PlacesTyped /\ BooksTyped /\ Recorded /\ Sessions
-----------------------------------------------------------------------------
InMsg(m) == \E d \in Dispatchers : msg[d] = m
InCarry(m) == \E d \in Dispatchers : m \in carry[d]
One(b) == IF b THEN 1 ELSE 0

\* No kind of place holds a message twice.
ReadySingle == \A i, j \in DOMAIN ready : ready[i] = ready[j] => i = j
MsgSingle == \A d, e \in Dispatchers : d # e /\ msg[d] = msg[e] => msg[d] = NoMsg
CarrySingle == \A d, e \in Dispatchers : d # e => carry[d] \cap carry[e] = {}

\* A session carries messages only where it is about to requeue or remove them.
Slots ==
  \A d \in Dispatchers :
    /\ pc[d] \notin CarryStates \cup {"removing"} => carry[d] = {}
    /\ pc[d] \in {"giveup", "failed"} => \A x, y \in carry[d] : x = y

\* The kinds of places that hold a message; all of them together hold it as
\* often as the spool.
Queued(m) == One(m \in sched) + One(m \in parked) + One(m \in stranded) + One(m \in InReady)
Count(m) == Queued(m) + One(InMsg(m)) + One(InCarry(m)) + moving[m]
Counted == \A m \in Msgs : Count(m) = One(m \in spool)

Ownership ==
  /\ "unhealthy" \notin Conditions
  /\ ReadySingle /\ MsgSingle /\ CarrySingle /\ Slots /\ Counted

\* A message that is not tried again before a restart.
Dead(m) ==
  \/ m \notin spool \/ m \in parked \/ m \in stranded
  \/ \E d \in Dispatchers : pc[d] = "removing" /\ m \in carry[d]

\* The peer accepted a recipient and the recipient list is still to be
\* trimmed; the answer settles a recipient, one way or the other.
Pending(m, r) == \E d \in Dispatchers : pc[d] \in Answering /\ msg[d] = m /\ r \in answer[d].ok
Settled(m, r) == \E d \in Dispatchers :
                   pc[d] \in Answering /\ msg[d] = m /\ r \in answer[d].ok \cup answer[d].bad

\* A recipient that may be tried again although it has its terminal record is
\* one of a transaction that was cut short, or about to be taken off the list.
\* Each acceptance but one is known to have been lost; with that one the
\* recipient is off the list, the message is given up, or the session is about
\* to trim the list.
Retriable == \A m \in Msgs : \A r \in rcpts[m] \cap final[m] : Dead(m) \/ r \in cut[m] \/ Settled(m, r)
Spent(m, r) == r \notin rcpts[m] \/ Dead(m) \/ Pending(m, r)
Sends == \A m \in Msgs, r \in Rcpts : sent[m][r] <= unrecorded[m][r] + One(Spent(m, r))

Books == Retriable /\ Sends

IInv == Ledger /\ Ownership /\ Books
-----------------------------------------------------------------------------
(* Ledger is kept.                                                         *)

\* No terminal record is taken back.
FinalGrows == \A m \in Msgs : final[m] = Rcpts => final'[m] = Rcpts

\* A step that leaves the books alone.
LEMMA BooksKept ==
  ASSUME Ledger, UNCHANGED books
  PROVE  BooksTyped' /\ Recorded' /\ FinalGrows
<1>1. UNCHANGED <<rcpts, final, spool, sent, unrecorded, cut>>
  BY DEF books
<1>2. BooksTyped'
  BY <1>1 DEF Ledger, BooksTyped
<1> QED
  BY <1>1, <1>2 DEF Ledger, Recorded, FinalGrows

\* An admin bounce, an expiration or a rejection records what is left.
LEMMA DisposeLedger ==
  ASSUME Ledger, NEW m \in Msgs, Dispose(m)
  PROVE  BooksTyped' /\ Recorded' /\ FinalGrows
<1>1. /\ BooksTyped /\ Recorded /\ final' = [final EXCEPT ![m] = @ \cup rcpts[m]] /\ spool' = spool \ {m}
      /\ UNCHANGED <<rcpts, sent, unrecorded, cut>>
  BY DEF Ledger, Dispose
<1>2. final'[m] = Rcpts /\ \A x \in Msgs : x # m => final'[x] = final[x]
  BY <1>1 DEF BooksTyped, Recorded
<1>3. BooksTyped'
  BY <1>1 DEF BooksTyped
<1> QED
  BY <1>1, <1>2, <1>3 DEF BooksTyped, Recorded, FinalGrows

\* What Insert does to places and books, whoever calls it.
LEMMA InsertLedger ==
  ASSUME Ledger, NEW m \in Msgs, Insert(m)
  PROVE  /\ BooksTyped' /\ Recorded' /\ FinalGrows
         /\ sched' \subseteq Msgs /\ parked' \subseteq Msgs /\ stranded' \subseteq Msgs
         /\ ready' \in Seq(Msgs) /\ Len(ready') <= Capacity
<1>1. Dispose(m) \/ UNCHANGED books
  BY DEF Insert, InsertDelayed, InsertReady, Expire
<1>2. BooksTyped' /\ Recorded' /\ FinalGrows
  BY <1>1, BooksKept, DisposeLedger
<1>3. PlacesTyped
  BY DEF Ledger
<1>4. sched' \subseteq Msgs /\ parked' \subseteq Msgs /\ stranded' \subseteq Msgs
  BY <1>3 DEF PlacesTyped, Insert, InsertDelayed, InsertReady, Expire
<1>5. ready' \in Seq(Msgs) /\ Len(ready') <= Capacity
  <2>1. CASE UNCHANGED ready
    BY <1>3, <2>1 DEF PlacesTyped
  <2>2. CASE Len(ready) < Capacity /\ ready' = Append(ready, m)
    <3>1. ready' \in Seq(Msgs) /\ Len(ready') = Len(ready) + 1
      BY <1>3, <2>2, AppendProperties DEF PlacesTyped
    <3> QED
      BY <1>3, <2>2, <3>1, BoundsAssumption DEF PlacesTyped
  <2> QED
    BY <2>1, <2>2 DEF Insert, InsertDelayed, InsertReady, Expire, MayPromote
<1> QED
  BY <1>2, <1>4, <1>5

\* One more task for each message of ms.
LEMMA SpawnedTyped ==
  ASSUME PlacesTyped, NEW ms
  PROVE  /\ Spawned(ms) \in [Msgs -> Nat]
         /\ \A m \in Msgs : Spawned(ms)[m] = moving[m] + One(m \in ms)
BY DEF Spawned, PlacesTyped, One

LEMMA EmptyReady == <<>> \in Seq(Msgs) /\ Len(<<>>) <= Capacity
BY BoundsAssumption

\* A session moves on without touching a message or the books.
PcOnly(d) ==
  /\ \E l \in {"loop", "obtain", "connect", "deliver", "closing"} : pc' = [pc EXCEPT ![d] = l]
  /\ UNCHANGED <<active, shutting, places, answer, books>>

\* The actions that only move a session on, and where from.
LEMMA PcOnlyActions ==
  ASSUME NEW d \in Dispatchers,
         \/ Open(d) \/ LeaveLoop(d) \/ LoopToObtain(d) \/ HaveBatch(d) \/ WaitTimeout(d)
         \/ WaitShutdown(d) \/ Connected(d) \/ ConnectShutdown(d) \/ CarryDone(d) \/ DeliverNothing(d)
  PROVE  PcOnly(d) /\ pc[d] \notin Answering /\ (pc[d] \in CarryStates \cup {"removing"} => carry[d] = {})
<1>1. CASE CarryDone(d)
  BY <1>1 DEF CarryDone, AfterCarry, CarryStates, PcOnly, Go, Answering
<1>2. CASE Connected(d)
  BY <1>2 DEF Connected, PcOnly, CarryStates, Answering
<1>3. CASE WaitTimeout(d)
  BY <1>3 DEF WaitTimeout, PcOnly, Go, CarryStates, Answering
<1>4. CASE Open(d) \/ LeaveLoop(d) \/ LoopToObtain(d) \/ HaveBatch(d)
  BY <1>4 DEF Open, LeaveLoop, LoopToObtain, HaveBatch, PcOnly, Go, CarryStates, Answering
<1>5. CASE WaitShutdown(d) \/ ConnectShutdown(d) \/ DeliverNothing(d)
  BY <1>5 DEF WaitShutdown, ConnectShutdown, DeliverNothing, PcOnly, Go, CarryStates, Answering
<1> QED
  BY <1>1, <1>2, <1>3, <1>4, <1>5

LEMMA PcOnlyLedger ==
  ASSUME Ledger, NEW d \in Dispatchers, PcOnly(d)
  PROVE  Ledger'
<1>1. BooksTyped' /\ Recorded' /\ UNCHANGED <<msg, carry, final>>
  BY BooksKept DEF PcOnly, books, places
<1>2. RunTyped' /\ PlacesTyped'
  BY DEF Ledger, PcOnly, RunTyped, PlacesTyped, places, Labels
<1>3. Sessions'
  BY <1>1 DEF Ledger, PcOnly, Sessions, RunTyped, Answering
<1> QED
  BY <1>1, <1>2, <1>3 DEF Ledger

LEMMA FinishMoveLedger == ASSUME Ledger, NEW m \in Msgs, FinishMove(m) PROVE Ledger'
<1>1. UNCHANGED <<active, shutting, msg, carry, pc, answer>> /\ Insert(m)
  BY DEF FinishMove
<1>2. moving' \in [Msgs -> Nat]
  BY DEF Ledger, PlacesTyped, FinishMove
<1>3. RunTyped' /\ PlacesTyped' /\ Sessions'
  BY <1>1, <1>2, InsertLedger DEF Ledger, RunTyped, PlacesTyped, Sessions, FinalGrows
<1> QED
  BY <1>1, <1>3, InsertLedger DEF Ledger

LEMMA FallDueLedger == ASSUME Ledger, NEW m \in Msgs, FallDue(m) PROVE Ledger'
<1>1. moving' \in [Msgs -> Nat]
  BY DEF Ledger, PlacesTyped, FallDue
<1>2. RunTyped' /\ PlacesTyped' /\ Sessions'
  BY <1>1 DEF Ledger, RunTyped, PlacesTyped, Sessions, FallDue, books
<1> QED
  BY <1>2, BooksKept DEF Ledger, FallDue

\* The whole Fifo is drained or saved.
LEMMA MaintainLedger == ASSUME Ledger, Drain \/ SaveReady PROVE Ledger'
<1>1. UNCHANGED <<active, shutting, msg, carry, pc, answer, books>> /\ ready' = <<>>
  BY DEF Drain, SaveReady
<1>2. InReady \subseteq Msgs
  BY DEF InReady, Ledger, PlacesTyped
<1>3. moving' \in [Msgs -> Nat] /\ sched' \subseteq Msgs /\ parked' \subseteq Msgs /\ stranded' \subseteq Msgs
  BY <1>2, SpawnedTyped DEF Ledger, PlacesTyped, Drain, SaveReady
<1>4. RunTyped' /\ PlacesTyped' /\ Sessions'
  BY <1>1, <1>3, EmptyReady DEF Ledger, RunTyped, PlacesTyped, Sessions, books
<1> QED
  BY <1>1, <1>4, BooksKept DEF Ledger

LEMMA ToggleLedger == ASSUME Ledger, NEW c \in Conditions, Toggle(c) PROVE Ledger'
<1>1. UNCHANGED <<places, pc, answer, books>> /\ active' \subseteq Conditions /\ shutting' \in BOOLEAN
  BY DEF Toggle, Ledger, RunTyped
<1>2. RunTyped' /\ PlacesTyped' /\ Sessions'
  BY <1>1 DEF Ledger, RunTyped, PlacesTyped, Sessions, books, places
<1> QED
  BY <1>1, <1>2, BooksKept DEF Ledger

\* A session goes to a label where it neither has an answer nor removes.
LEMMA SessionsGo ==
  ASSUME Ledger, NEW d \in Dispatchers, NEW l \in Labels \ (Answering \cup {"removing"}), Go(d, l),
         FinalGrows,
         \A e \in Dispatchers : e # d => msg'[e] = msg[e] /\ carry'[e] = carry[e]
  PROVE  Sessions' /\ pc' \in [Dispatchers -> Labels]
BY DEF Ledger, RunTyped, PlacesTyped, Sessions, Go, FinalGrows

LEMMA LeaveShutdownLedger == ASSUME Ledger, NEW d \in Dispatchers, LeaveShutdown(d) PROVE Ledger'
<1>1. BooksTyped' /\ Recorded' /\ FinalGrows
  BY BooksKept DEF LeaveShutdown
<1>2. /\ Go(d, "closing") /\ msg' = [msg EXCEPT ![d] = NoMsg] /\ parked' = parked \cup Held(d)
      /\ UNCHANGED <<active, shutting, sched, ready, carry, moving, stranded, answer>>
  BY DEF LeaveShutdown
<1>3. Sessions' /\ pc' \in [Dispatchers -> Labels]
  BY <1>1, <1>2, SessionsGo DEF Labels, Answering, Ledger, PlacesTyped
<1>4. Held(d) \subseteq Msgs
  BY DEF Held, Ledger, PlacesTyped
<1>5. RunTyped' /\ PlacesTyped'
  BY <1>2, <1>3, <1>4 DEF Ledger, RunTyped, PlacesTyped
<1> QED
  BY <1>1, <1>3, <1>5 DEF Ledger

LEMMA GiveBackLedger ==
  ASSUME Ledger, NEW d \in Dispatchers, NEW l \in {"loop", "closing"}, GiveBackAll(d), Go(d, l),
         UNCHANGED <<active, shutting, answer, books>>
  PROVE  Ledger'
<1>1. BooksTyped' /\ Recorded' /\ FinalGrows
  BY BooksKept
<1>2. /\ msg' = [msg EXCEPT ![d] = NoMsg] /\ ready' = <<>> /\ moving' = Spawned(InReady \cup Held(d))
      /\ UNCHANGED <<sched, carry, parked, stranded>>
  BY DEF GiveBackAll
<1>3. Sessions' /\ pc' \in [Dispatchers -> Labels]
  BY <1>1, <1>2, SessionsGo DEF Labels, Answering, Ledger, PlacesTyped
<1>4. moving' \in [Msgs -> Nat]
  BY <1>2, SpawnedTyped DEF Ledger
<1>5. RunTyped' /\ PlacesTyped'
  BY <1>2, <1>3, <1>4, EmptyReady DEF Ledger, RunTyped, PlacesTyped
<1> QED
  BY <1>1, <1>3, <1>5 DEF Ledger

LEMMA CarryBatchLedger ==
  ASSUME Ledger, NEW d \in Dispatchers, NEW l \in {"giveup", "failed"}, CarryBatch(d), Go(d, l),
         UNCHANGED <<active, shutting, rcpts, final, spool, sent>>,
         unrecorded' \in [Msgs -> [Rcpts -> Nat]], cut' \in [Msgs -> SUBSET Rcpts],
         answer' \in [Dispatchers -> [ok : SUBSET Rcpts, bad : SUBSET Rcpts]]
  PROVE  Ledger'
<1>1. BooksTyped' /\ Recorded' /\ FinalGrows
  BY DEF Ledger, BooksTyped, Recorded, FinalGrows
<1>2. /\ msg' = [msg EXCEPT ![d] = NoMsg] /\ carry' = [carry EXCEPT ![d] = Held(d)]
      /\ UNCHANGED <<sched, ready, moving, parked, stranded>>
  BY DEF CarryBatch
<1>3. Sessions' /\ pc' \in [Dispatchers -> Labels]
  BY <1>1, <1>2, SessionsGo DEF Labels, Answering, Ledger, PlacesTyped
<1>4. Held(d) \subseteq Msgs
  BY DEF Held, Ledger, PlacesTyped
<1>5. RunTyped' /\ PlacesTyped'
  BY <1>2, <1>3, <1>4 DEF Ledger, RunTyped, PlacesTyped
<1> QED
  BY <1>1, <1>3, <1>5 DEF Ledger

LEMMA DeliverUnhealthyLedger == ASSUME Ledger, NEW d \in Dispatchers, DeliverUnhealthy(d) PROVE Ledger'
<1>1. BooksTyped' /\ Recorded' /\ FinalGrows
  BY BooksKept DEF DeliverUnhealthy
<1>2. /\ carry' = [carry EXCEPT ![d] = Held(d)] /\ Go(d, "shed")
      /\ UNCHANGED <<active, shutting, sched, ready, msg, moving, parked, stranded, answer>>
  BY DEF DeliverUnhealthy
<1>3. Sessions' /\ pc' \in [Dispatchers -> Labels]
  BY <1>1, <1>2, SessionsGo DEF Labels, Answering, Ledger, PlacesTyped
<1>4. Held(d) \subseteq Msgs
  BY DEF Held, Ledger, PlacesTyped
<1>5. RunTyped' /\ PlacesTyped'
  BY <1>2, <1>3, <1>4 DEF Ledger, RunTyped, PlacesTyped
<1> QED
  BY <1>1, <1>3, <1>5 DEF Ledger

\* The head of the Fifo is a message, and the rest a Fifo.
LEMMA ReadyHead ==
  ASSUME PlacesTyped, ready # <<>>
  PROVE  Head(ready) \in Msgs /\ Tail(ready) \in Seq(Msgs) /\ Len(Tail(ready)) = Len(ready) - 1
BY HeadTailProperties DEF PlacesTyped

LEMMA PopBatchLedger == ASSUME Ledger, NEW d \in Dispatchers, PopBatch(d) PROVE Ledger'
<1> DEFINE m == Head(ready)
<1>1. m \in Msgs /\ Tail(ready) \in Seq(Msgs) /\ Len(Tail(ready)) <= Capacity
  <2>1. Len(Tail(ready)) = Len(ready) - 1 /\ m \in Msgs /\ Tail(ready) \in Seq(Msgs)
    BY ReadyHead DEF PopBatch, Ledger
  <2> QED
    BY <2>1, BoundsAssumption DEF Ledger, PlacesTyped
<1>2. ready' = Tail(ready) /\ UNCHANGED <<active, shutting, sched, moving, parked, stranded, answer>>
  BY DEF PopBatch
<1> HIDE DEF m
<1>3. CASE Dispose(m) /\ UNCHANGED <<msg, carry, pc>>
  <2>1. BooksTyped' /\ Recorded' /\ FinalGrows
    BY <1>1, <1>3, DisposeLedger
  <2>2. RunTyped' /\ PlacesTyped' /\ Sessions'
    BY <1>1, <1>2, <1>3, <2>1 DEF Ledger, RunTyped, PlacesTyped, Sessions, FinalGrows
  <2> QED
    BY <2>1, <2>2 DEF Ledger
<1>4. CASE carry' = [carry EXCEPT ![d] = {m}] /\ Go(d, "obtaining") /\ UNCHANGED <<msg, books>>
  <2>1. BooksTyped' /\ Recorded' /\ FinalGrows
    BY <1>4, BooksKept
  <2>2. Sessions' /\ pc' \in [Dispatchers -> Labels]
    BY <1>4, <2>1, SessionsGo DEF Labels, Answering, Ledger, PlacesTyped
  <2>3. RunTyped' /\ PlacesTyped'
    BY <1>1, <1>2, <1>4, <2>2 DEF Ledger, RunTyped, PlacesTyped
  <2> QED
    BY <2>1, <2>2, <2>3 DEF Ledger
<1>5. CASE msg' = [msg EXCEPT ![d] = m] /\ Go(d, "connect") /\ UNCHANGED <<carry, books>>
  <2>1. BooksTyped' /\ Recorded' /\ FinalGrows
    BY <1>5, BooksKept
  <2>2. Sessions' /\ pc' \in [Dispatchers -> Labels]
    BY <1>5, <2>1, SessionsGo DEF Labels, Answering, Ledger, PlacesTyped
  <2>3. RunTyped' /\ PlacesTyped'
    BY <1>1, <1>2, <1>5, <2>2 DEF Ledger, RunTyped, PlacesTyped
  <2> QED
    BY <2>1, <2>2, <2>3 DEF Ledger
<1> QED
  BY <1>3, <1>4, <1>5 DEF PopBatch, m

LEMMA DelayReadyQueueLedger == ASSUME Ledger, NEW d \in Dispatchers, DelayReadyQueue(d) PROVE Ledger'
<1>1. BooksTyped' /\ Recorded' /\ FinalGrows
  BY BooksKept DEF DelayReadyQueue
<1>2. /\ carry' = [carry EXCEPT ![d] = InReady] /\ ready' = <<>> /\ Go(d, "bulk")
      /\ UNCHANGED <<active, shutting, sched, msg, moving, parked, stranded, answer>>
  BY DEF DelayReadyQueue
<1>3. Sessions' /\ pc' \in [Dispatchers -> Labels]
  BY <1>1, <1>2, SessionsGo DEF Labels, Answering, Ledger, PlacesTyped
<1>4. InReady \subseteq Msgs
  BY DEF InReady, Ledger, PlacesTyped
<1>5. RunTyped' /\ PlacesTyped'
  BY <1>2, <1>3, <1>4, EmptyReady DEF Ledger, RunTyped, PlacesTyped
<1> QED
  BY <1>1, <1>3, <1>5 DEF Ledger

LEMMA FinishCarryLedger == ASSUME Ledger, NEW d \in Dispatchers, FinishCarry(d) PROVE Ledger'
<1>1. PICK m \in carry[d] : carry' = [carry EXCEPT ![d] = @ \ {m}] /\ Insert(m)
  BY DEF FinishCarry
<1>2. m \in Msgs
  BY DEF Ledger, PlacesTyped
<1>3. /\ pc[d] \in CarryStates /\ (UNCHANGED pc \/ Go(d, "closing"))
      /\ UNCHANGED <<active, shutting, msg, moving, answer>>
  BY DEF FinishCarry
<1>4. Sessions' /\ pc' \in [Dispatchers -> Labels]
  <2>1. CASE UNCHANGED pc
    BY <1>1, <1>2, <1>3, <2>1, InsertLedger
    DEF Ledger, Sessions, RunTyped, PlacesTyped, FinalGrows, CarryStates, Answering
  <2>2. CASE Go(d, "closing")
    BY <1>1, <1>2, <1>3, <2>2, InsertLedger, SessionsGo DEF Labels, Answering, Ledger, PlacesTyped
  <2> QED
    BY <1>3, <2>1, <2>2
<1>5. RunTyped' /\ PlacesTyped'
  BY <1>1, <1>2, <1>3, <1>4, InsertLedger DEF Ledger, RunTyped, PlacesTyped
<1> QED
  BY <1>1, <1>2, <1>4, <1>5, InsertLedger DEF Ledger

LEMMA TransmitLedger == ASSUME Ledger, NEW d \in Dispatchers, Transmit(d) PROVE Ledger'
<1>1. PICK ok \in SUBSET rcpts[msg[d]] : \E bad \in SUBSET (rcpts[msg[d]] \ ok) :
        /\ \A r \in ok : sent[msg[d]][r] < MaxSends
        /\ answer' = [answer EXCEPT ![d] = [ok |-> ok, bad |-> bad]]
        /\ sent' = [sent EXCEPT ![msg[d]] = [r \in Rcpts |-> IF r \in ok THEN @[r] + 1 ELSE @[r]]]
  BY DEF Transmit
<1>2. PICK bad \in SUBSET (rcpts[msg[d]] \ ok) : answer' = [answer EXCEPT ![d] = [ok |-> ok, bad |-> bad]]
  BY <1>1
<1>3. /\ msg[d] \in Msgs /\ rcpts[msg[d]] \subseteq Rcpts /\ Go(d, "answered")
      /\ UNCHANGED <<active, shutting, places, rcpts, final, spool, unrecorded, cut>>
  BY DEF Transmit, Ledger, PlacesTyped, BooksTyped
<1>4. answer' \in [Dispatchers -> [ok : SUBSET Rcpts, bad : SUBSET Rcpts]]
  BY <1>2, <1>3 DEF Ledger, RunTyped
<1>5. [r \in Rcpts |-> IF r \in ok THEN sent[msg[d]][r] + 1 ELSE sent[msg[d]][r]] \in [Rcpts -> 0..MaxSends]
  BY <1>1, <1>3, BoundsAssumption DEF Ledger, BooksTyped
<1>6. sent' \in [Msgs -> [Rcpts -> 0..MaxSends]]
  BY <1>1, <1>3, <1>5 DEF Ledger, BooksTyped
<1>7. BooksTyped' /\ Recorded'
  BY <1>3, <1>6 DEF Ledger, BooksTyped, Recorded
<1>8. RunTyped' /\ PlacesTyped'
  BY <1>3, <1>4 DEF Ledger, RunTyped, PlacesTyped, Go, Labels, places
<1>9. Sessions'
  BY <1>3, MsgAssumption DEF Ledger, Sessions, RunTyped, Go, places, Answering
<1> QED
  BY <1>7, <1>8, <1>9 DEF Ledger

\* A session with an answer: its message, and what the end of its logging means.
LEMMA RecordLedger ==
  ASSUME Ledger, NEW d \in Dispatchers, pc[d] \in Answering
  PROVE  /\ msg[d] \in Msgs /\ Held(d) = {msg[d]}
         /\ answer[d].ok \subseteq Rcpts /\ answer[d].bad \subseteq Rcpts
         /\ AllLogged(d) => final[msg[d]] \cup Remaining(d) = Rcpts
<1>1. msg[d] \in Msgs /\ Held(d) = {msg[d]}
  BY MsgAssumption DEF Ledger, Sessions, PlacesTyped, Held
<1>2. answer[d].ok \subseteq Rcpts /\ answer[d].bad \subseteq Rcpts
  BY DEF Ledger, RunTyped
<1>3. final[msg[d]] \cup rcpts[msg[d]] = Rcpts /\ rcpts[msg[d]] \subseteq Rcpts /\ final[msg[d]] \subseteq Rcpts
  BY <1>1 DEF Ledger, Recorded, BooksTyped
<1> QED
  BY <1>1, <1>2, <1>3 DEF Remaining, AllLogged

LEMMA NoAnswerTyped ==
  ASSUME Ledger, NEW d \in Dispatchers, answer' = [answer EXCEPT ![d] = NoAnswer]
  PROVE  answer' \in [Dispatchers -> [ok : SUBSET Rcpts, bad : SUBSET Rcpts]]
BY DEF Ledger, RunTyped, NoAnswer

LEMMA LogOutcomeLedger == ASSUME Ledger, NEW d \in Dispatchers, LogOutcome(d) PROVE Ledger'
<1>1. PICK rs \in SUBSET ((answer[d].ok \cup answer[d].bad) \ final[msg[d]]) :
        final' = [final EXCEPT ![msg[d]] = @ \cup rs]
  BY DEF LogOutcome
<1>2. /\ pc[d] \in Answering /\ Go(d, "logging")
      /\ UNCHANGED <<active, shutting, places, answer, rcpts, spool, sent, unrecorded, cut>>
  BY DEF LogOutcome, Answering
<1>3. msg[d] \in Msgs /\ rs \subseteq Rcpts
  BY <1>2, RecordLedger
<1>4. /\ final' \in [Msgs -> SUBSET Rcpts] /\ \A x \in Msgs : final[x] \subseteq final'[x] /\ final'[x] \subseteq Rcpts
  BY <1>1, <1>3 DEF Ledger, BooksTyped
<1>5. BooksTyped'
  BY <1>2, <1>4 DEF Ledger, BooksTyped
<1>6. Recorded' /\ FinalGrows
  <2>1. \A x \in Msgs : final[x] = Rcpts => final'[x] = Rcpts
    BY <1>4
  <2>2. \A x \in Msgs : final[x] \cup rcpts[x] = Rcpts => final'[x] \cup rcpts[x] = Rcpts
    BY <1>4
  <2> QED
    BY <1>2, <2>1, <2>2 DEF Ledger, Recorded, FinalGrows
<1>7. RunTyped' /\ PlacesTyped'
  BY <1>2 DEF Ledger, RunTyped, PlacesTyped, places, Go, Labels
<1>8. Sessions'
  BY <1>2, <1>3, <1>6, MsgAssumption DEF Ledger, Sessions, RunTyped, PlacesTyped, places, Go, Answering, FinalGrows
<1> QED
  BY <1>5, <1>6, <1>7, <1>8 DEF Ledger

LEMMA PopDoneLedger == ASSUME Ledger, NEW d \in Dispatchers, PopDone(d) PROVE Ledger'
<1>1. /\ pc[d] \in Answering /\ Remaining(d) = {} /\ AllLogged(d)
      /\ carry' = [carry EXCEPT ![d] = Held(d)] /\ msg' = [msg EXCEPT ![d] = NoMsg]
      /\ answer' = [answer EXCEPT ![d] = NoAnswer] /\ Go(d, "removing")
      /\ UNCHANGED <<active, shutting, sched, ready, moving, parked, stranded, books>>
  BY DEF PopDone, AllLogged, Answering
<1>2. msg[d] \in Msgs /\ Held(d) = {msg[d]} /\ final[msg[d]] \cup Remaining(d) = Rcpts
  BY <1>1, RecordLedger
<1>3. BooksTyped' /\ Recorded' /\ final' = final
  BY <1>1, BooksKept DEF books
<1>4. RunTyped'
  BY <1>1, NoAnswerTyped DEF Ledger, RunTyped, Go, Labels
<1>5. PlacesTyped'
  BY <1>1, <1>2 DEF Ledger, PlacesTyped
<1>6. Sessions'
  <2>1. final[msg[d]] = Rcpts
    BY <1>1, <1>2
  <2> QED
    BY <1>1, <1>2, <1>3, <2>1 DEF Ledger, Sessions, RunTyped, PlacesTyped, Go, Answering
<1> QED
  BY <1>3, <1>4, <1>5, <1>6 DEF Ledger

LEMMA RemoveSentLedger == ASSUME Ledger, NEW d \in Dispatchers, RemoveSent(d) PROVE Ledger'
<1>1. /\ pc[d] = "removing" /\ spool' = spool \ carry[d] /\ carry' = [carry EXCEPT ![d] = {}] /\ Go(d, "loop")
      /\ UNCHANGED <<active, shutting, sched, ready, msg, moving, parked, stranded, answer,
                     rcpts, final, sent, unrecorded, cut>>
  BY DEF RemoveSent
<1>2. BooksTyped' /\ Recorded' /\ FinalGrows
  BY <1>1 DEF Ledger, BooksTyped, Recorded, Sessions, FinalGrows
<1>3. Sessions' /\ pc' \in [Dispatchers -> Labels]
  BY <1>1, <1>2, SessionsGo DEF Labels, Answering, Ledger, PlacesTyped
<1>4. RunTyped' /\ PlacesTyped'
  BY <1>1, <1>3 DEF Ledger, RunTyped, PlacesTyped
<1> QED
  BY <1>2, <1>3, <1>4 DEF Ledger

LEMMA TrimRecipientsLedger == ASSUME Ledger, NEW d \in Dispatchers, TrimRecipients(d) PROVE Ledger'
<1>1. /\ pc[d] \in Answering /\ AllLogged(d)
      /\ rcpts' = [rcpts EXCEPT ![msg[d]] = Remaining(d)]
      /\ UNCHANGED <<msg, moving>> \/ (moving' = Spawned(Held(d)) /\ msg' = [msg EXCEPT ![d] = NoMsg])
      /\ answer' = [answer EXCEPT ![d] = NoAnswer] /\ Go(d, "loop")
      /\ UNCHANGED <<active, shutting, sched, ready, carry, parked, stranded, final, spool, sent, unrecorded, cut>>
  BY DEF TrimRecipients, AllLogged, Answering
<1>2. msg[d] \in Msgs /\ final[msg[d]] \cup Remaining(d) = Rcpts
  BY <1>1, RecordLedger
<1>3. Remaining(d) \subseteq Rcpts
  BY <1>2 DEF Remaining, Ledger, BooksTyped
<1>4. BooksTyped'
  BY <1>1, <1>2, <1>3 DEF Ledger, BooksTyped
<1>5. Recorded' /\ FinalGrows
  BY <1>1, <1>2, <1>3 DEF Ledger, BooksTyped, Recorded, FinalGrows
<1>6. Sessions' /\ pc' \in [Dispatchers -> Labels]
  BY <1>1, <1>5, SessionsGo DEF Labels, Answering, Ledger, PlacesTyped
<1>7. moving' \in [Msgs -> Nat] /\ msg' \in [Dispatchers -> Msgs \cup {NoMsg}]
  BY <1>1, SpawnedTyped DEF Ledger, PlacesTyped
<1>8. RunTyped' /\ PlacesTyped'
  BY <1>1, <1>6, <1>7, NoAnswerTyped DEF Ledger, RunTyped, PlacesTyped
<1> QED
  BY <1>4, <1>5, <1>6, <1>8 DEF Ledger

\* One more lost acceptance for each recipient of the answer.
LEMMA LostTyped ==
  ASSUME Ledger, NEW d \in Dispatchers, msg[d] \in Msgs
  PROVE  /\ Lost(d) \in [Msgs -> [Rcpts -> Nat]]
         /\ \A x \in Msgs, r \in Rcpts :
              Lost(d)[x][r] = unrecorded[x][r] + One(x = msg[d] /\ r \in answer[d].ok)
<1> DEFINE new == [r \in Rcpts |-> IF r \in answer[d].ok THEN unrecorded[msg[d]][r] + 1 ELSE unrecorded[msg[d]][r]]
<1>1. unrecorded \in [Msgs -> [Rcpts -> Nat]]
  BY DEF Ledger, BooksTyped
<1>2. new \in [Rcpts -> Nat] /\ Lost(d) = [unrecorded EXCEPT ![msg[d]] = new]
  BY <1>1 DEF Lost
<1> QED
  BY <1>1, <1>2 DEF One

LEMMA CutTyped ==
  ASSUME Ledger, NEW d \in Dispatchers, msg[d] \in Msgs
  PROVE  /\ CutShort(d) \in [Msgs -> SUBSET Rcpts]
         /\ \A x \in Msgs : cut[x] \subseteq CutShort(d)[x]
         /\ (answer[d].ok \cup answer[d].bad) \cap final[msg[d]] \subseteq CutShort(d)[msg[d]]
BY DEF Ledger, BooksTyped, RunTyped, CutShort

LEMMA RecordFailedLedger == ASSUME Ledger, NEW d \in Dispatchers, RecordFailed(d) PROVE Ledger'
<1>1. /\ pc[d] \in Answering /\ CarryBatch(d) /\ Go(d, "failed") /\ unrecorded' = Lost(d) /\ cut' = CutShort(d)
      /\ answer' = [answer EXCEPT ![d] = NoAnswer] /\ UNCHANGED <<active, shutting, rcpts, final, spool, sent>>
  BY DEF RecordFailed, AllLogged, Answering
<1>2. msg[d] \in Msgs
  BY <1>1, RecordLedger
<1> QED
  BY <1>1, <1>2, LostTyped, CutTyped, NoAnswerTyped, CarryBatchLedger

LEMMA DropLedger ==
  ASSUME Ledger, NEW d \in Dispatchers, DropDispatcher(d)
  PROVE  /\ Go(d, "off") /\ msg' = [msg EXCEPT ![d] = NoMsg]
         /\ moving' \in [Msgs -> Nat] /\ msg' \in [Dispatchers -> Msgs \cup {NoMsg}]
BY SpawnedTyped DEF DropDispatcher, Dropped, Ledger, PlacesTyped

LEMMA CloseLedger == ASSUME Ledger, NEW d \in Dispatchers, Close(d) PROVE Ledger'
<1>1. BooksTyped' /\ Recorded' /\ FinalGrows
  BY BooksKept DEF Close
<1>2. /\ DropDispatcher(d) /\ UNCHANGED <<active, shutting, sched, ready, carry, parked, stranded, answer>>
  BY DEF Close
<1>3. Sessions' /\ pc' \in [Dispatchers -> Labels]
  BY <1>1, <1>2, DropLedger, SessionsGo DEF Labels, Answering, Ledger, PlacesTyped
<1>4. RunTyped' /\ PlacesTyped'
  BY <1>2, <1>3, DropLedger DEF Ledger, RunTyped, PlacesTyped
<1> QED
  BY <1>1, <1>3, <1>4 DEF Ledger

LEMMA AbortLedger == ASSUME Ledger, NEW d \in Dispatchers, Abort(d) PROVE Ledger'
<1>1. /\ DropDispatcher(d) /\ stranded' = stranded \cup carry[d] /\ carry' = [carry EXCEPT ![d] = {}]
      /\ \/ pc[d] \in Answering /\ unrecorded' = Lost(d) /\ cut' = CutShort(d)
         \/ UNCHANGED <<unrecorded, cut>>
      /\ answer' = [answer EXCEPT ![d] = NoAnswer]
      /\ UNCHANGED <<active, shutting, sched, ready, parked, rcpts, final, spool, sent>>
  BY DEF Abort, Answering
<1>2. pc[d] \in Answering => msg[d] \in Msgs
  BY DEF Ledger, Sessions, PlacesTyped
<1>3. unrecorded' \in [Msgs -> [Rcpts -> Nat]] /\ cut' \in [Msgs -> SUBSET Rcpts]
  BY <1>1, <1>2, LostTyped, CutTyped DEF Ledger, BooksTyped
<1>4. BooksTyped' /\ Recorded' /\ FinalGrows
  BY <1>1, <1>3 DEF Ledger, BooksTyped, Recorded, FinalGrows
<1>5. Sessions' /\ pc' \in [Dispatchers -> Labels]
  BY <1>1, <1>4, DropLedger, SessionsGo DEF Labels, Answering, Ledger, PlacesTyped
<1>6. RunTyped' /\ PlacesTyped'
  BY <1>1, <1>5, DropLedger, NoAnswerTyped DEF Ledger, RunTyped, PlacesTyped
<1> QED
  BY <1>4, <1>5, <1>6 DEF Ledger

\* The first layer holds initially and is kept by every step, whatever the
\* conditions: no step takes a terminal record back, and none removes a
\* message with a recipient left.
LEMMA InitLedger == Init => Ledger
<1> SUFFICES ASSUME Init PROVE Ledger
  OBVIOUS
<1>1. RunTyped /\ PlacesTyped
  BY EmptyReady DEF Init, RunTyped, PlacesTyped, Labels, NoAnswer
<1>2. BooksTyped
  BY BoundsAssumption DEF Init, BooksTyped
<1> QED
  BY <1>1, <1>2 DEF Init, Ledger, Recorded, Sessions, Answering

LEMMA NextLedger == ASSUME Ledger, [Next]_vars PROVE Ledger'
<1>1. ASSUME NEW d \in Dispatchers, Work(d) PROVE Ledger'
  <2>1. CASE \/ LeaveLoop(d) \/ LoopToObtain(d) \/ HaveBatch(d) \/ WaitTimeout(d) \/ WaitShutdown(d)
             \/ Connected(d) \/ ConnectShutdown(d) \/ CarryDone(d) \/ DeliverNothing(d)
    BY <2>1, PcOnlyActions, PcOnlyLedger
  <2>2. CASE LeaveSuspended(d) \/ WaitSuspended(d) \/ PeerClosed(d) \/ DeliverThrottled(d)
    BY <2>2, GiveBackLedger DEF LeaveSuspended, WaitSuspended, PeerClosed, DeliverThrottled
  <2>3. CASE ConnectFailed(d) \/ DeliverFailed(d)
    <3>1. CarryBatch(d) /\ (Go(d, "giveup") \/ Go(d, "failed")) /\ UNCHANGED <<active, shutting, answer, books>>
      BY <2>3 DEF ConnectFailed, DeliverFailed
    <3>2. /\ unrecorded' \in [Msgs -> [Rcpts -> Nat]] /\ cut' \in [Msgs -> SUBSET Rcpts]
          /\ answer' \in [Dispatchers -> [ok : SUBSET Rcpts, bad : SUBSET Rcpts]]
          /\ UNCHANGED <<rcpts, final, spool, sent>>
      BY <3>1 DEF books, Ledger, BooksTyped, RunTyped
    <3> QED
      BY <3>1, <3>2, CarryBatchLedger
  <2> QED
    BY <1>1, <2>1, <2>2, <2>3, LeaveShutdownLedger, PopBatchLedger, DelayReadyQueueLedger, FinishCarryLedger,
       DeliverUnhealthyLedger, TransmitLedger, LogOutcomeLedger, PopDoneLedger, RemoveSentLedger,
       TrimRecipientsLedger, RecordFailedLedger, CloseLedger
    DEF Work
<1>2. ASSUME NEW d \in Dispatchers, Open(d) \/ Abort(d) PROVE Ledger'
  BY <1>2, PcOnlyActions, PcOnlyLedger, AbortLedger
<1>3. ASSUME NEW m \in Msgs, FinishMove(m) \/ FallDue(m) PROVE Ledger'
  BY <1>3, FinishMoveLedger, FallDueLedger
<1>4. CASE Drain \/ SaveReady
  BY <1>4, MaintainLedger
<1>5. ASSUME NEW c \in Conditions, Toggle(c) PROVE Ledger'
  BY <1>5, ToggleLedger
<1>6. CASE Shutdown \/ UNCHANGED vars
  <2>1. UNCHANGED <<places, pc, answer, books>> /\ active' \subseteq Conditions /\ shutting' \in BOOLEAN
    BY <1>6 DEF vars, Shutdown, Ledger, RunTyped
  <2>2. RunTyped' /\ PlacesTyped' /\ Sessions'
    BY <2>1 DEF Ledger, RunTyped, PlacesTyped, Sessions, books, places
  <2> QED
    BY <2>1, <2>2, BooksKept DEF Ledger
<1> QED
  BY <1>1, <1>2, <1>3, <1>4, <1>5, <1>6 DEF Next
-----------------------------------------------------------------------------
(* What moving a message does to each kind of place.                       *)

\* A message that is not in the Fifo is appended.
LEMMA ReadyAppend ==
  ASSUME PlacesTyped, ReadySingle, NEW m \in Msgs, m \notin InReady, ready' = Append(ready, m)
  PROVE  ReadySingle' /\ InReady' = InReady \cup {m}
<1>1. /\ ready \in Seq(Msgs) /\ Len(ready) \in Nat /\ DOMAIN ready = 1..Len(ready)
      /\ DOMAIN ready' = 1..(Len(ready) + 1) /\ ready'[Len(ready) + 1] = m
      /\ \A k \in 1..Len(ready) : ready'[k] = ready[k]
  BY DEF PlacesTyped
<1>2. \A k \in 1..(Len(ready) + 1) : k \in 1..Len(ready) \/ k = Len(ready) + 1
  BY <1>1
<1>3. InReady' = InReady \cup {m}
  BY <1>1, <1>2 DEF InReady
<1>4. \A k \in 1..Len(ready) : ready[k] # m
  BY <1>1 DEF InReady
<1> QED
  BY <1>1, <1>2, <1>3, <1>4 DEF ReadySingle

\* The head of the Fifo leaves it.
LEMMA ReadyTail ==
  ASSUME PlacesTyped, ReadySingle, ready # <<>>, ready' = Tail(ready)
  PROVE  /\ ReadySingle' /\ Head(ready) \in InReady
         /\ InReady' = InReady \ {Head(ready)}
<1>1. /\ ready \in Seq(Msgs) /\ Len(ready) \in Nat \ {0} /\ DOMAIN ready = 1..Len(ready) /\ Head(ready) = ready[1]
      /\ DOMAIN ready' = 1..(Len(ready) - 1)
      /\ \A k \in 1..(Len(ready) - 1) : ready'[k] = ready[k + 1]
  BY EmptySeq, HeadTailProperties DEF PlacesTyped
<1>2. ReadySingle'
  <2> SUFFICES ASSUME NEW a \in 1..(Len(ready) - 1), NEW b \in 1..(Len(ready) - 1), ready[a + 1] = ready[b + 1]
               PROVE  a = b
    BY <1>1 DEF ReadySingle
  <2>1. a + 1 \in DOMAIN ready /\ b + 1 \in DOMAIN ready
    BY <1>1
  <2>2. a + 1 = b + 1
    BY <2>1 DEF ReadySingle
  <2> QED
    BY <2>2
<1>3. InReady' \subseteq InReady \ {Head(ready)}
  <2> SUFFICES ASSUME NEW k \in 1..(Len(ready) - 1) PROVE ready[k + 1] \in InReady /\ ready[k + 1] # ready[1]
    BY <1>1 DEF InReady
  <2>1. k + 1 \in DOMAIN ready /\ 1 \in DOMAIN ready /\ k + 1 # 1
    BY <1>1
  <2> QED
    BY <2>1 DEF InReady, ReadySingle
<1>4. InReady \ {Head(ready)} \subseteq InReady'
  <2> SUFFICES ASSUME NEW k \in 1..Len(ready), ready[k] # ready[1] PROVE ready[k] \in InReady'
    BY <1>1 DEF InReady
  <2>1. k - 1 \in 1..(Len(ready) - 1) /\ (k - 1) + 1 = k
    BY <1>1
  <2>2. ready'[k - 1] = ready[k]
    BY <1>1, <2>1
  <2> QED
    BY <1>1, <2>1, <2>2 DEF InReady
<1>5. Head(ready) \in InReady
  BY <1>1 DEF InReady
<1> QED
  BY <1>2, <1>3, <1>4, <1>5

LEMMA ReadyEmpty == ASSUME ready' = <<>> PROVE ReadySingle' /\ InReady' = {}
BY DEF ReadySingle, InReady

\* A session lets go of its message.
LEMMA MsgClear ==
  ASSUME PlacesTyped, MsgSingle, NEW d \in Dispatchers, msg' = [msg EXCEPT ![d] = NoMsg]
  PROVE  /\ MsgSingle'
         /\ \A x \in Held(d) : InMsg(x)
         /\ \A x \in Msgs : InMsg(x)' <=> InMsg(x) /\ x \notin Held(d)
<1>1. msg'[d] = NoMsg /\ \A e \in Dispatchers : e # d => msg'[e] = msg[e]
  BY DEF PlacesTyped
<1>2. MsgSingle'
  BY <1>1 DEF MsgSingle
<1> QED
  BY <1>1, <1>2, MsgAssumption DEF MsgSingle, InMsg, Held

\* A session without a message takes one.
LEMMA MsgTake ==
  ASSUME PlacesTyped, MsgSingle, NEW d \in Dispatchers, NEW m \in Msgs, msg[d] = NoMsg, ~InMsg(m),
         msg' = [msg EXCEPT ![d] = m]
  PROVE  MsgSingle' /\ \A x \in Msgs : InMsg(x)' <=> InMsg(x) \/ x = m
<1>1. msg'[d] = m /\ \A e \in Dispatchers : e # d => msg'[e] = msg[e]
  BY DEF PlacesTyped
<1> QED
  BY <1>1, MsgAssumption DEF MsgSingle, InMsg

\* A session that carries nothing begins to carry S.
LEMMA CarryTake ==
  ASSUME PlacesTyped, CarrySingle, NEW d \in Dispatchers, NEW S \in SUBSET Msgs, carry[d] = {},
         \A x \in S : ~InCarry(x), carry' = [carry EXCEPT ![d] = S]
  PROVE  CarrySingle' /\ \A x \in Msgs : InCarry(x)' <=> InCarry(x) \/ x \in S
<1>1. carry'[d] = S /\ \A e \in Dispatchers : e # d => carry'[e] = carry[e]
  BY DEF PlacesTyped
<1>2. CarrySingle'
  BY <1>1 DEF CarrySingle, InCarry
<1> QED
  BY <1>1, <1>2 DEF InCarry

\* A session is left with S of what it carried.
LEMMA CarryLess ==
  ASSUME PlacesTyped, CarrySingle, NEW d \in Dispatchers, NEW S \in SUBSET carry[d],
         carry' = [carry EXCEPT ![d] = S]
  PROVE  /\ CarrySingle' /\ \A x \in carry[d] : InCarry(x)
         /\ \A x \in Msgs : InCarry(x)' <=> InCarry(x) /\ x \notin carry[d] \ S
<1>1. carry'[d] = S /\ \A e \in Dispatchers : e # d => carry'[e] = carry[e]
  BY DEF PlacesTyped
<1>2. CarrySingle'
  BY <1>1 DEF CarrySingle
<1> QED
  BY <1>1, <1>2 DEF CarrySingle, InCarry
-----------------------------------------------------------------------------
(* What a step may do to the books without looking at them.                *)

\* A message that is given up stays given up.
DeadStays == \A m \in Msgs : Dead(m) => Dead(m)'

\* A recipient whose transaction is being recorded still is.
PendingStays == \A m \in Msgs, r \in Rcpts : (Pending(m, r) => Pending(m, r)') /\ (Settled(m, r) => Settled(m, r)')

LEMMA DeadStaysWhen ==
  ASSUME spool' \subseteq spool, parked \subseteq parked', stranded \subseteq stranded',
         \A d \in Dispatchers : pc[d] = "removing" => pc'[d] = "removing" /\ carry'[d] = carry[d]
  PROVE  DeadStays
BY DEF DeadStays, Dead

LEMMA PendingStaysWhen ==
  ASSUME \A d \in Dispatchers : pc[d] \in Answering =>
           pc'[d] \in Answering /\ msg'[d] = msg[d] /\ answer'[d] = answer[d]
  PROVE  PendingStays
BY DEF PendingStays, Pending, Settled

\* The books stay true when neither they nor what they depend on changes.
LEMMA SendsStay ==
  ASSUME Ledger, Sends, UNCHANGED <<sent, unrecorded>>,
         \A m \in Msgs, r \in Rcpts : Spent(m, r) => Spent(m, r)'
  PROVE  Sends'
<1> SUFFICES ASSUME NEW m \in Msgs, NEW r \in Rcpts
             PROVE  sent'[m][r] <= unrecorded'[m][r] + One(Spent(m, r)')
  BY DEF Sends, One
<1>1. sent[m][r] \in Nat /\ unrecorded[m][r] \in Nat
  BY BoundsAssumption DEF Ledger, BooksTyped
<1>2. sent[m][r] <= unrecorded[m][r] + One(Spent(m, r))
  BY DEF Sends
<1> QED
  BY <1>1, <1>2 DEF One

LEMMA BooksStay ==
  ASSUME Ledger, Books, UNCHANGED books, DeadStays, PendingStays
  PROVE  Books'
<1>1. UNCHANGED <<rcpts, final, sent, unrecorded, cut>>
  BY DEF books
<1>2. Retriable'
  BY <1>1 DEF Books, Retriable, DeadStays, PendingStays, Ledger, BooksTyped
<1>3. \A m \in Msgs, r \in Rcpts : Spent(m, r) => Spent(m, r)'
  BY <1>1 DEF Spent, DeadStays, PendingStays
<1> QED
  BY <1>1, <1>2, <1>3, SendsStay DEF Books

\* A message is disposed of.
LEMMA BooksDispose ==
  ASSUME Ledger, Books, NEW m \in Msgs, Dispose(m), DeadStays, PendingStays
  PROVE  Books'
<1>1. /\ final' = [final EXCEPT ![m] = @ \cup rcpts[m]] /\ spool' = spool \ {m}
      /\ UNCHANGED <<rcpts, sent, unrecorded, cut>> /\ final \in [Msgs -> SUBSET Rcpts]
  BY DEF Dispose, Ledger, BooksTyped
<1>2. Dead(m)' /\ \A x \in Msgs : x # m => final'[x] = final[x]
  BY <1>1 DEF Dead
<1>3. Retriable'
  BY <1>1, <1>2 DEF Books, Retriable, DeadStays, PendingStays, Ledger, BooksTyped
<1>4. \A x \in Msgs, r \in Rcpts : Spent(x, r) => Spent(x, r)'
  BY <1>1 DEF Spent, DeadStays, PendingStays
<1> QED
  BY <1>1, <1>3, <1>4, SendsStay DEF Books

\* Whoever has a message is the only one, and the message is in the spool.
LEMMA OnlyOwner ==
  ASSUME Ledger, Counted, NEW m \in Msgs
  PROVE  /\ moving[m] \in Nat
         /\ moving[m] > 0 => /\ moving[m] = 1 /\ Queued(m) = 0 /\ ~InMsg(m) /\ ~InCarry(m) /\ m \in spool
         /\ InMsg(m) => moving[m] = 0 /\ Queued(m) = 0 /\ ~InCarry(m) /\ m \in spool
         /\ InCarry(m) => moving[m] = 0 /\ Queued(m) = 0 /\ ~InMsg(m) /\ m \in spool
         /\ Queued(m) # 0 => moving[m] = 0 /\ Queued(m) = 1 /\ ~InMsg(m) /\ ~InCarry(m) /\ m \in spool
<1>1. moving[m] \in Nat
  BY DEF Ledger, PlacesTyped
<1>2. Queued(m) \in Nat
  BY DEF Queued, One
<1>3. Queued(m) + One(InMsg(m)) + One(InCarry(m)) + moving[m] = One(m \in spool)
  BY DEF Counted, Count
<1> QED
  BY <1>1, <1>2, <1>3 DEF One

\* What the count of the queues says about each of them.
LEMMA QueuedIn ==
  ASSUME NEW m
  PROVE  /\ Queued(m) = 0 <=> m \notin sched /\ m \notin parked /\ m \notin stranded /\ m \notin InReady
         /\ m \in sched /\ Queued(m) = 1 => m \notin parked /\ m \notin stranded /\ m \notin InReady
         /\ m \in InReady /\ Queued(m) = 1 => m \notin parked /\ m \notin stranded /\ m \notin sched
BY DEF Queued, One

\* Insert puts a message that is in no queue into one place, or disposes of it.
LEMMA InsertOwner ==
  ASSUME IInv, NEW m \in Msgs, Insert(m), Queued(m) = 0, m \in spool
  PROVE  /\ ReadySingle' /\ spool' \subseteq spool /\ parked \subseteq parked' /\ stranded \subseteq stranded'
         /\ \A x \in Msgs : x # m => Queued(x)' = Queued(x) /\ (x \in spool' <=> x \in spool)
         /\ Queued(m)' = One(m \in spool')
<1>1. m \notin sched /\ m \notin parked /\ m \notin stranded /\ m \notin InReady
  BY QueuedIn
<1>2. CASE Dispose(m) /\ UNCHANGED <<sched, ready, parked, stranded>>
  <2>1. InReady' = InReady /\ ReadySingle' /\ spool' = spool \ {m}
    BY <1>2 DEF IInv, Ownership, InReady, ReadySingle, Dispose
  <2> QED
    BY <1>1, <1>2, <2>1 DEF Queued, One
<1>3. CASE parked' = parked \cup {m} /\ UNCHANGED <<sched, ready, stranded, books>>
  <2>1. InReady' = InReady /\ ReadySingle' /\ spool' = spool
    BY <1>3 DEF IInv, Ownership, InReady, ReadySingle, books
  <2> QED
    BY <1>1, <1>3, <2>1 DEF Queued, One
<1>4. CASE stranded' = stranded \cup {m} /\ UNCHANGED <<sched, ready, parked, books>>
  <2>1. InReady' = InReady /\ ReadySingle' /\ spool' = spool
    BY <1>4 DEF IInv, Ownership, InReady, ReadySingle, books
  <2> QED
    BY <1>1, <1>4, <2>1 DEF Queued, One
<1>5. CASE sched' = sched \cup {m} /\ UNCHANGED <<ready, parked, stranded, books>>
  <2>1. InReady' = InReady /\ ReadySingle' /\ spool' = spool
    BY <1>5 DEF IInv, Ownership, InReady, ReadySingle, books
  <2> QED
    BY <1>1, <1>5, <2>1 DEF Queued, One
<1>6. CASE ready' = Append(ready, m) /\ UNCHANGED <<sched, parked, stranded, books>>
  <2>1. InReady' = InReady \cup {m} /\ ReadySingle' /\ spool' = spool
    BY <1>1, <1>6, ReadyAppend DEF IInv, Ledger, Ownership, books
  <2> QED
    BY <1>1, <1>6, <2>1 DEF Queued, One
<1> QED
  BY <1>2, <1>3, <1>4, <1>5, <1>6 DEF Insert, InsertDelayed, InsertReady, Expire

LEMMA InsertBooks ==
  ASSUME Ledger, Books, NEW m \in Msgs, Insert(m), DeadStays, PendingStays
  PROVE  Books'
<1>1. Dispose(m) \/ UNCHANGED books
  BY DEF Insert, InsertDelayed, InsertReady, Expire
<1> QED
  BY <1>1, BooksStay, BooksDispose

LEMMA FinishMoveStep ==
  ASSUME IInv, NEW m \in Msgs, FinishMove(m) PROVE Ownership' /\ Books'
<1>1. /\ moving[m] > 0 /\ moving' = [moving EXCEPT ![m] = @ - 1] /\ Insert(m)
      /\ UNCHANGED <<active, shutting, msg, carry, pc, answer>>
  BY DEF FinishMove
<1>2. moving[m] = 1 /\ Queued(m) = 0 /\ ~InMsg(m) /\ ~InCarry(m) /\ m \in spool
  BY <1>1, OnlyOwner DEF IInv, Ownership
<1>3. moving'[m] = 0 /\ \A x \in Msgs : x # m => moving'[x] = moving[x]
  BY <1>1, <1>2 DEF IInv, Ledger, PlacesTyped
<1>4. MsgSingle' /\ CarrySingle' /\ Slots' /\ \A x \in Msgs : (InMsg(x)' <=> InMsg(x)) /\ (InCarry(x)' <=> InCarry(x))
  BY <1>1 DEF IInv, Ownership, MsgSingle, CarrySingle, Slots, InMsg, InCarry
<1>5. Counted'
  <2> SUFFICES ASSUME NEW x \in Msgs PROVE Count(x)' = One(x \in spool')
    BY DEF Counted, One
  <2>1. Count(x) = One(x \in spool)
    BY DEF IInv, Ownership, Counted
  <2>2. CASE x = m
    BY <1>1, <1>2, <1>3, <1>4, <2>2, InsertOwner DEF Count, One
  <2>3. CASE x # m
    BY <1>1, <1>2, <1>3, <1>4, <2>1, <2>3, InsertOwner DEF Count, One
  <2> QED
    BY <2>2, <2>3
<1>6. Ownership'
  BY <1>1, <1>2, <1>4, <1>5, InsertOwner DEF IInv, Ownership
<1>7. DeadStays /\ PendingStays
  BY <1>1, <1>2, InsertOwner, DeadStaysWhen, PendingStaysWhen DEF Answering
<1> QED
  BY <1>1, <1>6, <1>7, InsertBooks DEF IInv

LEMMA FallDueStep ==
  ASSUME IInv, NEW m \in Msgs, FallDue(m) PROVE Ownership' /\ Books'
<1>1. /\ m \in sched /\ sched' = sched \ {m} /\ moving' = [moving EXCEPT ![m] = @ + 1]
      /\ UNCHANGED <<ready, msg, carry, parked, stranded, pc, answer, books>>
  BY DEF FallDue
<1>2. Queued(m) # 0
  BY <1>1, QueuedIn
<1>3. moving[m] = 0 /\ Queued(m) = 1 /\ ~InMsg(m) /\ ~InCarry(m) /\ m \in spool
  BY <1>2, OnlyOwner DEF IInv, Ownership
<1>4. moving'[m] = 1 /\ \A x \in Msgs : x # m => moving'[x] = moving[x]
  BY <1>1, <1>3 DEF IInv, Ledger, PlacesTyped
<1>5. /\ ReadySingle' /\ MsgSingle' /\ CarrySingle' /\ Slots' /\ InReady' = InReady /\ spool' = spool
      /\ \A x \in Msgs : (InMsg(x)' <=> InMsg(x)) /\ (InCarry(x)' <=> InCarry(x))
  BY <1>1 DEF IInv, Ownership, ReadySingle, MsgSingle, CarrySingle, Slots, InMsg, InCarry, InReady, books
<1>6. Counted'
  <2> SUFFICES ASSUME NEW x \in Msgs PROVE Count(x)' = One(x \in spool')
    BY DEF Counted, One
  <2>1. Count(x) = One(x \in spool) /\ moving[x] \in Nat
    BY OnlyOwner DEF IInv, Ownership, Counted
  <2> QED
    BY <1>1, <1>3, <1>4, <1>5, <2>1 DEF Count, Queued, One
<1>7. DeadStays /\ PendingStays
  BY <1>1, <1>5, DeadStaysWhen, PendingStaysWhen DEF Answering
<1> QED
  BY <1>1, <1>5, <1>6, <1>7, BooksStay DEF IInv, Ownership

LEMMA MaintainStep == ASSUME IInv, Drain \/ SaveReady PROVE Ownership' /\ Books'
<1>1. /\ ready' = <<>> /\ UNCHANGED <<sched, msg, carry, stranded, pc, answer, books>>
      /\ \/ moving' = Spawned(InReady) /\ UNCHANGED parked
         \/ UNCHANGED moving /\ parked' = parked \cup InReady
  BY DEF Drain, SaveReady
<1>2. /\ ReadySingle' /\ MsgSingle' /\ CarrySingle' /\ Slots' /\ InReady' = {} /\ spool' = spool
      /\ \A x \in Msgs : (InMsg(x)' <=> InMsg(x)) /\ (InCarry(x)' <=> InCarry(x))
  BY <1>1, ReadyEmpty DEF IInv, Ownership, MsgSingle, CarrySingle, Slots, InMsg, InCarry, books
<1>3. Counted'
  <2> SUFFICES ASSUME NEW x \in Msgs PROVE Count(x)' = One(x \in spool')
    BY DEF Counted, One
  <2>1. Count(x) = One(x \in spool) /\ moving[x] \in Nat
    BY OnlyOwner DEF IInv, Ownership, Counted
  <2>2. moving' = Spawned(InReady) => moving'[x] = moving[x] + One(x \in InReady)
    BY SpawnedTyped DEF IInv, Ledger
  <2> QED
    BY <1>1, <1>2, <2>1, <2>2 DEF Count, Queued, One
<1>4. DeadStays /\ PendingStays
  BY <1>1, <1>2, DeadStaysWhen, PendingStaysWhen DEF Answering
<1> QED
  BY <1>1, <1>2, <1>3, <1>4, BooksStay DEF IInv, Ownership

\* Conditions, the shutdown and stuttering touch neither places nor books.
LEMMA QuietStep ==
  ASSUME IInv, UNCHANGED <<places, pc, answer, books>> PROVE Ownership' /\ Books'
<1>1. UNCHANGED <<sched, ready, msg, carry, moving, parked, stranded, pc, answer, books, spool>>
  BY DEF places, books
<1>2. /\ ReadySingle' /\ MsgSingle' /\ CarrySingle' /\ Slots' /\ InReady' = InReady
      /\ \A x \in Msgs : (InMsg(x)' <=> InMsg(x)) /\ (InCarry(x)' <=> InCarry(x))
  BY <1>1 DEF IInv, Ownership, ReadySingle, MsgSingle, CarrySingle, Slots, InMsg, InCarry, InReady
<1>3. Counted'
  BY <1>1, <1>2 DEF IInv, Ownership, Counted, Count, Queued, One
<1>4. DeadStays /\ PendingStays
  BY <1>1, DeadStaysWhen, PendingStaysWhen DEF Answering
<1> QED
  BY <1>1, <1>2, <1>3, <1>4, BooksStay DEF IInv, Ownership

LEMMA PcOnlyStep ==
  ASSUME IInv, NEW d \in Dispatchers, PcOnly(d), pc[d] \notin Answering,
         pc[d] \in CarryStates \cup {"removing"} => carry[d] = {}
  PROVE  Ownership' /\ Books'
<1>1. UNCHANGED <<sched, ready, msg, carry, moving, parked, stranded, answer, books, spool>>
  BY DEF PcOnly, places, books
<1>2. /\ ReadySingle' /\ MsgSingle' /\ CarrySingle' /\ InReady' = InReady
      /\ \A x \in Msgs : (InMsg(x)' <=> InMsg(x)) /\ (InCarry(x)' <=> InCarry(x))
  BY <1>1 DEF IInv, Ownership, ReadySingle, MsgSingle, CarrySingle, InMsg, InCarry, InReady
<1>3. Counted'
  BY <1>1, <1>2 DEF IInv, Ownership, Counted, Count, Queued, One
<1>4. carry[d] = {} /\ \A e \in Dispatchers : e # d => pc'[e] = pc[e]
  BY DEF IInv, Ownership, Slots, PcOnly, Ledger, RunTyped
<1>5. Slots'
  BY <1>1, <1>4 DEF IInv, Ownership, Slots
<1>6. DeadStays
  BY <1>1, <1>4 DEF DeadStays, Dead
<1>7. PendingStays
  BY <1>1, <1>4, PendingStaysWhen DEF Answering
<1> QED
  BY <1>1, <1>2, <1>3, <1>5, <1>6, <1>7, BooksStay DEF IInv, Ownership

\* Slots, when one session goes to a label without a load.
LEMMA SlotsGo ==
  ASSUME IInv, NEW d \in Dispatchers, NEW l \in Labels, Go(d, l),
         \A e \in Dispatchers : e # d => carry'[e] = carry[e],
         l \notin CarryStates \cup {"removing"} => carry'[d] = {},
         l \in {"giveup", "failed"} => \A x, y \in carry'[d] : x = y
  PROVE  Slots' /\ pc'[d] = l /\ \A e \in Dispatchers : e # d => pc'[e] = pc[e]
<1>1. pc'[d] = l /\ \A e \in Dispatchers : e # d => pc'[e] = pc[e]
  BY DEF Go, IInv, Ledger, RunTyped
<1> QED
  BY <1>1 DEF IInv, Ownership, Slots

LEMMA LeaveShutdownStep ==
  ASSUME IInv, NEW d \in Dispatchers, LeaveShutdown(d) PROVE Ownership' /\ Books'
<1>1. /\ pc[d] = "loop" /\ Go(d, "closing") /\ msg' = [msg EXCEPT ![d] = NoMsg] /\ parked' = parked \cup Held(d)
      /\ UNCHANGED <<sched, ready, carry, moving, stranded, answer, books, spool>>
  BY DEF LeaveShutdown, books
<1>2. /\ MsgSingle' /\ \A x \in Held(d) : InMsg(x)
      /\ \A x \in Msgs : InMsg(x)' <=> InMsg(x) /\ x \notin Held(d)
  BY <1>1, MsgClear DEF IInv, Ledger, Ownership
<1>3. carry[d] = {}
  BY <1>1 DEF IInv, Ownership, Slots, CarryStates
<1>4. Slots' /\ \A e \in Dispatchers : e # d => pc'[e] = pc[e]
  BY <1>1, <1>3, SlotsGo DEF Labels
<1>5. /\ ReadySingle' /\ CarrySingle' /\ InReady' = InReady /\ \A x \in Msgs : InCarry(x)' <=> InCarry(x)
  BY <1>1 DEF IInv, Ownership, ReadySingle, CarrySingle, InCarry, InReady
<1>6. Counted'
  <2> SUFFICES ASSUME NEW x \in Msgs PROVE Count(x)' = One(x \in spool')
    BY DEF Counted, One
  <2>1. Count(x) = One(x \in spool) /\ moving[x] \in Nat
    BY OnlyOwner DEF IInv, Ownership, Counted
  <2> QED
    BY <1>1, <1>2, <1>5, <2>1 DEF Count, Queued, One
<1>7. DeadStays
  BY <1>1, <1>4, DeadStaysWhen DEF Answering
<1>8. \A e \in Dispatchers : e # d => msg'[e] = msg[e]
  BY <1>1 DEF IInv, Ledger, PlacesTyped
<1>9. PendingStays
  BY <1>1, <1>4, <1>8, PendingStaysWhen DEF Answering
<1> QED
  BY <1>1, <1>2, <1>4, <1>5, <1>6, <1>7, <1>9, BooksStay DEF IInv, Ownership

LEMMA GiveBackStep ==
  ASSUME IInv, NEW d \in Dispatchers, NEW l \in {"loop", "closing"}, GiveBackAll(d), Go(d, l),
         pc[d] \in {"loop", "obtain", "connect", "deliver"},
         UNCHANGED <<active, shutting, answer, books>>
  PROVE  Ownership' /\ Books'
<1>1. /\ msg' = [msg EXCEPT ![d] = NoMsg] /\ ready' = <<>> /\ moving' = Spawned(InReady \cup Held(d))
      /\ UNCHANGED <<sched, carry, parked, stranded, spool>>
  BY DEF GiveBackAll, books
<1>2. /\ MsgSingle' /\ \A x \in Held(d) : InMsg(x)
      /\ \A x \in Msgs : InMsg(x)' <=> InMsg(x) /\ x \notin Held(d)
  BY <1>1, MsgClear DEF IInv, Ledger, Ownership
<1>3. carry[d] = {}
  BY DEF IInv, Ownership, Slots, CarryStates
<1>4. Slots' /\ \A e \in Dispatchers : e # d => pc'[e] = pc[e]
  BY <1>1, <1>3, SlotsGo DEF Labels
<1>5. /\ ReadySingle' /\ CarrySingle' /\ InReady' = {} /\ \A x \in Msgs : InCarry(x)' <=> InCarry(x)
  BY <1>1, ReadyEmpty DEF IInv, Ownership, CarrySingle, InCarry
<1>6. Counted'
  <2> SUFFICES ASSUME NEW x \in Msgs PROVE Count(x)' = One(x \in spool')
    BY DEF Counted, One
  <2>1. Count(x) = One(x \in spool) /\ moving[x] \in Nat
    BY OnlyOwner DEF IInv, Ownership, Counted
  <2>2. moving'[x] = moving[x] + One(x \in InReady \cup Held(d))
    BY <1>1, SpawnedTyped DEF IInv, Ledger
  <2> QED
    BY <1>1, <1>2, <1>5, <2>1, <2>2 DEF Count, Queued, One
<1>7. DeadStays
  BY <1>1, <1>4, DeadStaysWhen DEF Answering
<1>8. \A e \in Dispatchers : e # d => msg'[e] = msg[e]
  BY <1>1 DEF IInv, Ledger, PlacesTyped
<1>9. PendingStays
  BY <1>4, <1>8, PendingStaysWhen DEF Answering
<1> QED
  BY <1>2, <1>4, <1>5, <1>6, <1>7, <1>9, BooksStay DEF IInv, Ownership

\* The ownership side of CarryBatch; what its callers do to the books differs.
LEMMA CarryBatchOwner ==
  ASSUME IInv, NEW d \in Dispatchers, NEW l \in {"giveup", "failed", "removing"}, Go(d, l),
         pc[d] \in {"connect", "deliver"} \cup Answering,
         carry' = [carry EXCEPT ![d] = Held(d)], msg' = [msg EXCEPT ![d] = NoMsg],
         UNCHANGED <<sched, ready, moving, parked, stranded, spool>>
  PROVE  /\ Ownership' /\ DeadStays
         /\ \A e \in Dispatchers : e # d => pc'[e] = pc[e] /\ msg'[e] = msg[e]
<1>1. /\ MsgSingle' /\ \A x \in Held(d) : InMsg(x)
      /\ \A x \in Msgs : InMsg(x)' <=> InMsg(x) /\ x \notin Held(d)
  BY MsgClear DEF IInv, Ledger, Ownership
<1>2. carry[d] = {} /\ Held(d) \in SUBSET Msgs
  BY DEF IInv, Ownership, Slots, CarryStates, Answering, Held, Ledger, PlacesTyped
<1>3. \A x \in Held(d) : ~InCarry(x)
  BY <1>1, <1>2, OnlyOwner DEF IInv, Ownership
<1>4. CarrySingle' /\ \A x \in Msgs : InCarry(x)' <=> InCarry(x) \/ x \in Held(d)
  BY <1>2, <1>3, CarryTake DEF IInv, Ledger, Ownership
<1>5. carry'[d] = Held(d) /\ \A e \in Dispatchers : e # d => carry'[e] = carry[e] /\ msg'[e] = msg[e]
  BY DEF IInv, Ledger, PlacesTyped
<1>6. Slots' /\ \A e \in Dispatchers : e # d => pc'[e] = pc[e]
  BY <1>5, SlotsGo DEF Labels, CarryStates, Held
<1>7. ReadySingle' /\ InReady' = InReady
  BY DEF IInv, Ownership, ReadySingle, InReady
<1>8. Counted'
  <2> SUFFICES ASSUME NEW x \in Msgs PROVE Count(x)' = One(x \in spool')
    BY DEF Counted, One
  <2>1. Count(x) = One(x \in spool) /\ moving[x] \in Nat
    BY OnlyOwner DEF IInv, Ownership, Counted
  <2> QED
    BY <1>1, <1>3, <1>4, <1>7, <2>1 DEF Count, Queued, One
<1>9. DeadStays
  BY <1>5, <1>6, DeadStaysWhen DEF Answering
<1> QED
  BY <1>1, <1>4, <1>5, <1>6, <1>7, <1>8, <1>9 DEF IInv, Ownership

LEMMA FailStep ==
  ASSUME IInv, NEW d \in Dispatchers, ConnectFailed(d) \/ DeliverFailed(d) PROVE Ownership' /\ Books'
<1>1. /\ CarryBatch(d) /\ pc[d] \in {"connect", "deliver"} /\ UNCHANGED <<answer, books, spool>>
      /\ \E l \in {"giveup", "failed"} : Go(d, l)
  BY DEF ConnectFailed, DeliverFailed, books
<1>2. Ownership' /\ DeadStays /\ \A e \in Dispatchers : e # d => pc'[e] = pc[e] /\ msg'[e] = msg[e]
  BY <1>1, CarryBatchOwner DEF CarryBatch
<1>3. PendingStays
  BY <1>1, <1>2, PendingStaysWhen DEF Answering
<1> QED
  BY <1>1, <1>2, <1>3, BooksStay DEF IInv

LEMMA PopBatchStep ==
  ASSUME IInv, NEW d \in Dispatchers, PopBatch(d) PROVE Ownership' /\ Books'
<1> DEFINE m == Head(ready)
<1>1. /\ pc[d] = "obtain" /\ msg[d] = NoMsg /\ ready # <<>> /\ ready' = Tail(ready)
      /\ UNCHANGED <<sched, moving, parked, stranded, answer>>
  BY DEF PopBatch
<1>2. /\ m \in Msgs /\ m \in InReady /\ ReadySingle' /\ InReady' = InReady \ {m}
  BY <1>1, ReadyHead, ReadyTail DEF IInv, Ledger, Ownership
<1>3. PopBatch(d) => \/ Dispose(m) /\ UNCHANGED <<msg, carry, pc>>
                     \/ carry' = [carry EXCEPT ![d] = {m}] /\ Go(d, "obtaining") /\ UNCHANGED <<msg, books>>
                     \/ msg' = [msg EXCEPT ![d] = m] /\ Go(d, "connect") /\ UNCHANGED <<carry, books>>
  BY DEF PopBatch
<1> HIDE DEF m
<1>4. Queued(m) # 0
  BY <1>2, QueuedIn
<1>5. /\ moving[m] = 0 /\ Queued(m) = 1 /\ ~InMsg(m) /\ ~InCarry(m) /\ m \in spool
  BY <1>2, <1>4, OnlyOwner DEF IInv, Ownership
<1>6. carry[d] = {}
  BY <1>1 DEF IInv, Ownership, Slots, CarryStates
<1>7. CASE Dispose(m) /\ UNCHANGED <<msg, carry, pc>>
  <2>1. /\ MsgSingle' /\ CarrySingle' /\ Slots' /\ spool' = spool \ {m}
        /\ \A x \in Msgs : (InMsg(x)' <=> InMsg(x)) /\ (InCarry(x)' <=> InCarry(x))
    BY <1>7 DEF IInv, Ownership, MsgSingle, CarrySingle, Slots, InMsg, InCarry, Dispose
  <2>2. Counted'
    <3> SUFFICES ASSUME NEW x \in Msgs PROVE Count(x)' = One(x \in spool')
      BY DEF Counted, One
    <3>1. Count(x) = One(x \in spool) /\ moving[x] \in Nat
      BY OnlyOwner DEF IInv, Ownership, Counted
    <3> QED
      BY <1>1, <1>2, <1>5, <2>1, <3>1 DEF Count, Queued, One
  <2>3. DeadStays /\ PendingStays
    BY <1>1, <1>7, <2>1, DeadStaysWhen, PendingStaysWhen DEF Answering
  <2> QED
    BY <1>2, <1>7, <2>1, <2>2, <2>3, BooksDispose DEF IInv, Ownership
<1>8. CASE carry' = [carry EXCEPT ![d] = {m}] /\ Go(d, "obtaining") /\ UNCHANGED <<msg, books>>
  <2>1. CarrySingle' /\ \A x \in Msgs : InCarry(x)' <=> InCarry(x) \/ x \in {m}
    BY <1>2, <1>5, <1>6, <1>8, CarryTake DEF IInv, Ledger, Ownership
  <2>2. \A e \in Dispatchers : e # d => carry'[e] = carry[e]
    BY <1>8 DEF IInv, Ledger, PlacesTyped
  <2>3. Slots' /\ \A e \in Dispatchers : e # d => pc'[e] = pc[e]
    BY <1>8, <2>2, SlotsGo DEF Labels, CarryStates
  <2>4. MsgSingle' /\ spool' = spool /\ \A x \in Msgs : InMsg(x)' <=> InMsg(x)
    BY <1>8 DEF IInv, Ownership, MsgSingle, InMsg, books
  <2>5. Counted'
    <3> SUFFICES ASSUME NEW x \in Msgs PROVE Count(x)' = One(x \in spool')
      BY DEF Counted, One
    <3>1. Count(x) = One(x \in spool) /\ moving[x] \in Nat
      BY OnlyOwner DEF IInv, Ownership, Counted
    <3> QED
      BY <1>1, <1>2, <1>5, <2>1, <2>4, <3>1 DEF Count, Queued, One
  <2>6. DeadStays /\ PendingStays
    BY <1>1, <1>8, <2>2, <2>3, <2>4, DeadStaysWhen, PendingStaysWhen DEF Answering
  <2> QED
    BY <1>2, <1>8, <2>1, <2>3, <2>4, <2>5, <2>6, BooksStay DEF IInv, Ownership
<1>9. CASE msg' = [msg EXCEPT ![d] = m] /\ Go(d, "connect") /\ UNCHANGED <<carry, books>>
  <2>1. MsgSingle' /\ \A x \in Msgs : InMsg(x)' <=> InMsg(x) \/ x = m
    BY <1>1, <1>2, <1>5, <1>9, MsgTake DEF IInv, Ledger, Ownership
  <2>2. \A e \in Dispatchers : e # d => msg'[e] = msg[e]
    BY <1>9 DEF IInv, Ledger, PlacesTyped
  <2>3. Slots' /\ \A e \in Dispatchers : e # d => pc'[e] = pc[e]
    BY <1>6, <1>9, SlotsGo DEF Labels, CarryStates
  <2>4. CarrySingle' /\ spool' = spool /\ \A x \in Msgs : InCarry(x)' <=> InCarry(x)
    BY <1>9 DEF IInv, Ownership, CarrySingle, InCarry, books
  <2>5. Counted'
    <3> SUFFICES ASSUME NEW x \in Msgs PROVE Count(x)' = One(x \in spool')
      BY DEF Counted, One
    <3>1. Count(x) = One(x \in spool) /\ moving[x] \in Nat
      BY OnlyOwner DEF IInv, Ownership, Counted
    <3> QED
      BY <1>1, <1>2, <1>5, <2>1, <2>4, <3>1 DEF Count, Queued, One
  <2>6. DeadStays /\ PendingStays
    BY <1>1, <1>9, <2>2, <2>3, <2>4, DeadStaysWhen, PendingStaysWhen DEF Answering
  <2> QED
    BY <1>2, <1>9, <2>1, <2>3, <2>4, <2>5, <2>6, BooksStay DEF IInv, Ownership
<1> QED
  BY <1>3, <1>7, <1>8, <1>9

LEMMA DelayReadyQueueStep ==
  ASSUME IInv, NEW d \in Dispatchers, DelayReadyQueue(d) PROVE Ownership' /\ Books'
<1>1. /\ pc[d] = "giveup" /\ carry[d] = {} /\ carry' = [carry EXCEPT ![d] = InReady] /\ ready' = <<>> /\ Go(d, "bulk")
      /\ UNCHANGED <<sched, msg, moving, parked, stranded, answer, books, spool>>
  BY DEF DelayReadyQueue, books
<1>2. InReady \in SUBSET Msgs
  BY DEF InReady, IInv, Ledger, PlacesTyped
<1>3. \A x \in InReady : ~InCarry(x)
  BY <1>2, OnlyOwner, QueuedIn DEF IInv, Ownership
<1>4. CarrySingle' /\ \A x \in Msgs : InCarry(x)' <=> InCarry(x) \/ x \in InReady
  BY <1>1, <1>2, <1>3, CarryTake DEF IInv, Ledger, Ownership
<1>5. \A e \in Dispatchers : e # d => carry'[e] = carry[e]
  BY <1>1 DEF IInv, Ledger, PlacesTyped
<1>6. Slots' /\ \A e \in Dispatchers : e # d => pc'[e] = pc[e]
  BY <1>1, <1>5, SlotsGo DEF Labels, CarryStates
<1>7. ReadySingle' /\ InReady' = {} /\ MsgSingle' /\ \A x \in Msgs : InMsg(x)' <=> InMsg(x)
  BY <1>1, ReadyEmpty DEF IInv, Ownership, MsgSingle, InMsg
<1>8. Counted'
  <2> SUFFICES ASSUME NEW x \in Msgs PROVE Count(x)' = One(x \in spool')
    BY DEF Counted, One
  <2>1. Count(x) = One(x \in spool) /\ moving[x] \in Nat
    BY OnlyOwner DEF IInv, Ownership, Counted
  <2> QED
    BY <1>1, <1>3, <1>4, <1>7, <2>1 DEF Count, Queued, One
<1>9. DeadStays /\ PendingStays
  BY <1>1, <1>5, <1>6, DeadStaysWhen, PendingStaysWhen DEF Answering
<1> QED
  BY <1>1, <1>4, <1>6, <1>7, <1>8, <1>9, BooksStay DEF IInv, Ownership

LEMMA FinishCarryStep ==
  ASSUME IInv, NEW d \in Dispatchers, FinishCarry(d) PROVE Ownership' /\ Books'
<1>1. PICK m \in carry[d] :
        /\ carry' = [carry EXCEPT ![d] = @ \ {m}] /\ Insert(m)
        /\ UNCHANGED pc \/ (pc[d] \in {"giveup", "failed"} /\ Go(d, "closing"))
  BY DEF FinishCarry
<1>2. /\ pc[d] \in CarryStates /\ UNCHANGED <<msg, moving, answer>> /\ m \in Msgs
  BY DEF FinishCarry, IInv, Ledger, PlacesTyped
<1>3. carry'[d] = carry[d] \ {m} /\ \A e \in Dispatchers : e # d => carry'[e] = carry[e]
  BY <1>1 DEF IInv, Ledger, PlacesTyped
<1>4. carry' = [carry EXCEPT ![d] = carry[d] \ {m}] /\ carry[d] \ {m} \in SUBSET carry[d]
  BY <1>1
<1>5. /\ CarrySingle' /\ InCarry(m) /\ \A x \in Msgs : InCarry(x)' <=> InCarry(x) /\ x # m
  <2>1. PlacesTyped /\ CarrySingle
    BY DEF IInv, Ledger, Ownership
  <2>2. /\ CarrySingle' /\ \A x \in carry[d] : InCarry(x)
        /\ \A x \in Msgs : InCarry(x)' <=> InCarry(x) /\ x \notin carry[d] \ (carry[d] \ {m})
    BY <1>4, <2>1, CarryLess
  <2> QED
    BY <1>1, <2>2
<1>6. moving[m] = 0 /\ Queued(m) = 0 /\ ~InMsg(m) /\ m \in spool
  BY <1>2, <1>5, OnlyOwner DEF IInv, Ownership
<1>7. Slots' /\ \A e \in Dispatchers : e # d => pc'[e] = pc[e]
  <2>1. CASE UNCHANGED pc
    BY <1>3, <2>1 DEF IInv, Ownership, Slots
  <2>2. CASE pc[d] \in {"giveup", "failed"} /\ Go(d, "closing")
    <3>1. carry'[d] = {}
      BY <1>1, <1>3, <2>2 DEF IInv, Ownership, Slots
    <3> QED
      BY <1>3, <2>2, <3>1, SlotsGo DEF Labels, CarryStates
  <2> QED
    BY <1>1, <2>1, <2>2
<1>8. MsgSingle' /\ \A x \in Msgs : InMsg(x)' <=> InMsg(x)
  BY <1>2 DEF IInv, Ownership, MsgSingle, InMsg
<1>9. Counted'
  <2> SUFFICES ASSUME NEW x \in Msgs PROVE Count(x)' = One(x \in spool')
    BY DEF Counted, One
  <2>1. Count(x) = One(x \in spool)
    BY DEF IInv, Ownership, Counted
  <2>2. CASE x = m
    BY <1>1, <1>2, <1>5, <1>6, <1>8, <2>2, InsertOwner DEF Count, One
  <2>3. CASE x # m
    BY <1>1, <1>2, <1>5, <1>6, <1>8, <2>1, <2>3, InsertOwner DEF Count, One
  <2> QED
    BY <2>2, <2>3
<1>10. \A e \in Dispatchers : pc[e] = "removing" => pc'[e] = "removing" /\ carry'[e] = carry[e]
  BY <1>2, <1>3, <1>7 DEF CarryStates
<1>11. \A e \in Dispatchers : pc[e] \in Answering => pc'[e] \in Answering /\ msg'[e] = msg[e] /\ answer'[e] = answer[e]
  BY <1>2, <1>7 DEF CarryStates, Answering
<1>12. DeadStays /\ PendingStays
  BY <1>1, <1>2, <1>6, <1>10, <1>11, InsertOwner, DeadStaysWhen, PendingStaysWhen DEF Answering
<1> QED
  BY <1>1, <1>2, <1>5, <1>6, <1>7, <1>8, <1>9, <1>12, InsertOwner, InsertBooks DEF IInv, Ownership
-----------------------------------------------------------------------------
(* A transaction and its record.                                           *)

\* The message of a session is not given up, and no other session has it.
LEMMA HeldIsLive ==
  ASSUME IInv, NEW d \in Dispatchers, msg[d] \in Msgs
  PROVE  /\ ~Dead(msg[d]) /\ InMsg(msg[d]) /\ Held(d) = {msg[d]}
         /\ \A e \in Dispatchers : e # d => msg[e] # msg[d]
<1>1. InMsg(msg[d])
  BY DEF InMsg
<1>2. Queued(msg[d]) = 0 /\ ~InCarry(msg[d]) /\ msg[d] \in spool
  BY <1>1, OnlyOwner DEF IInv, Ownership
<1>3. msg[d] \notin parked /\ msg[d] \notin stranded
  BY <1>2, QueuedIn
<1>4. ~Dead(msg[d])
  BY <1>2, <1>3 DEF Dead, InCarry
<1> QED
  BY <1>1, <1>4, MsgAssumption DEF Held, IInv, Ownership, MsgSingle

\* A recipient is transmitted only while no acceptance of it stands, and with a
\* terminal record only after a transaction that was cut short.
LEMMA TransmitFresh ==
  ASSUME IInv, NEW d \in Dispatchers, Transmit(d)
  PROVE  /\ msg[d] \in Msgs
         /\ \E ok \in SUBSET rcpts[msg[d]] :
              /\ answer'[d].ok = ok
              /\ \A r \in ok : ~Spent(msg[d], r) /\ (r \notin final[msg[d]] \/ r \in cut[msg[d]])
              /\ \A x \in Msgs, r \in Rcpts : sent'[x][r] = sent[x][r] + One(x = msg[d] /\ r \in ok)
<1>1. PICK ok \in SUBSET rcpts[msg[d]] : \E bad \in SUBSET (rcpts[msg[d]] \ ok) :
        /\ answer' = [answer EXCEPT ![d] = [ok |-> ok, bad |-> bad]]
        /\ sent' = [sent EXCEPT ![msg[d]] = [r \in Rcpts |-> IF r \in ok THEN @[r] + 1 ELSE @[r]]]
  BY DEF Transmit
<1>2. msg[d] \in Msgs /\ pc[d] = "deliver"
  BY DEF Transmit, IInv, Ledger, PlacesTyped
<1>3. answer'[d].ok = ok
  BY <1>1 DEF IInv, Ledger, RunTyped
<1>4. \A r \in ok : ~Spent(msg[d], r)
  BY <1>2, HeldIsLive DEF Spent, Pending, Answering
<1>5. \A r \in ok : r \notin final[msg[d]] \/ r \in cut[msg[d]]
  <2>1. \A r \in ok : ~Settled(msg[d], r)
    BY <1>2, HeldIsLive DEF Settled, Answering
  <2> QED
    BY <1>2, <2>1, HeldIsLive DEF IInv, Books, Retriable
<1>6. \A x \in Msgs, r \in Rcpts : sent'[x][r] = sent[x][r] + One(x = msg[d] /\ r \in ok)
  <2>1. sent \in [Msgs -> [Rcpts -> 0..MaxSends]] /\ MaxSends \in Nat
    BY BoundsAssumption DEF IInv, Ledger, BooksTyped
  <2>2. sent'[msg[d]] = [r \in Rcpts |-> IF r \in ok THEN sent[msg[d]][r] + 1 ELSE sent[msg[d]][r]]
    BY <1>1, <1>2, <2>1
  <2>3. \A x \in Msgs : x # msg[d] => sent'[x] = sent[x]
    BY <1>1, <2>1
  <2> QED
    BY <2>1, <2>2, <2>3 DEF One
<1> QED
  BY <1>2, <1>3, <1>4, <1>5, <1>6

LEMMA TransmitStep ==
  ASSUME IInv, NEW d \in Dispatchers, Transmit(d) PROVE Ownership' /\ Books'
<1>1. /\ pc[d] = "deliver" /\ Go(d, "answered")
      /\ UNCHANGED <<sched, ready, msg, carry, moving, parked, stranded, rcpts, final, spool, unrecorded, cut>>
      /\ \A e \in Dispatchers : e # d => answer'[e] = answer[e]
  BY DEF Transmit, places, IInv, Ledger, RunTyped
<1>2. PICK ok \in SUBSET rcpts[msg[d]] :
        /\ answer'[d].ok = ok
        /\ \A r \in ok : ~Spent(msg[d], r)
        /\ \A x \in Msgs, r \in Rcpts : sent'[x][r] = sent[x][r] + One(x = msg[d] /\ r \in ok)
  BY TransmitFresh
<1>3. carry[d] = {}
  BY <1>1 DEF IInv, Ownership, Slots, CarryStates
<1>4. Slots' /\ pc'[d] = "answered" /\ \A e \in Dispatchers : e # d => pc'[e] = pc[e]
  BY <1>1, <1>3, SlotsGo DEF Labels
<1>5. /\ ReadySingle' /\ MsgSingle' /\ CarrySingle' /\ InReady' = InReady
      /\ \A x \in Msgs : (InMsg(x)' <=> InMsg(x)) /\ (InCarry(x)' <=> InCarry(x))
  BY <1>1 DEF IInv, Ownership, ReadySingle, MsgSingle, CarrySingle, InMsg, InCarry, InReady
<1>6. Counted'
  BY <1>1, <1>5 DEF IInv, Ownership, Counted, Count, Queued, One
<1>7. DeadStays /\ PendingStays
  BY <1>1, <1>4, DeadStaysWhen, PendingStaysWhen DEF Answering
<1>8. Retriable'
  BY <1>1, <1>7 DEF IInv, Books, Retriable, DeadStays, PendingStays, Ledger, BooksTyped
<1>9. \A r \in ok : Spent(msg[d], r)'
  BY <1>1, <1>2, <1>4 DEF Spent, Pending, Answering
<1>10. ASSUME NEW x \in Msgs, NEW r \in Rcpts
       PROVE  sent'[x][r] <= unrecorded'[x][r] + One(Spent(x, r)')
  <2>1. sent[x][r] \in Nat /\ unrecorded[x][r] \in Nat /\ unrecorded'[x][r] = unrecorded[x][r]
    BY <1>1, BoundsAssumption DEF IInv, Ledger, BooksTyped
  <2>2. sent[x][r] <= unrecorded[x][r] + One(Spent(x, r))
    BY DEF IInv, Books, Sends
  <2>3. sent'[x][r] = sent[x][r] + One(x = msg[d] /\ r \in ok)
    BY <1>2
  <2>4. CASE x = msg[d] /\ r \in ok
    <3>1. ~Spent(x, r) /\ Spent(x, r)'
      BY <1>1, <1>2, <1>9, <2>4
    <3> QED
      BY <2>1, <2>2, <2>3, <2>4, <3>1 DEF One
  <2>5. CASE ~(x = msg[d] /\ r \in ok)
    <3>1. Spent(x, r) => Spent(x, r)'
      BY <1>1, <1>7 DEF Spent, DeadStays, PendingStays
    <3> QED
      BY <2>1, <2>2, <2>3, <2>5, <3>1 DEF One
  <2> QED
    BY <2>4, <2>5
<1>11. Books'
  BY <1>8, <1>10 DEF Books, Sends, One
<1> QED
  BY <1>4, <1>5, <1>6, <1>11 DEF IInv, Ownership

\* What a step of the recording session d may take away from the pending and
\* settled recipients: its own.
LEMMA PendingOf ==
  ASSUME IInv, NEW d \in Dispatchers,
         \A e \in Dispatchers : e # d => pc'[e] = pc[e] /\ msg'[e] = msg[e] /\ answer'[e] = answer[e],
         NEW x \in Msgs, NEW r \in Rcpts
  PROVE  /\ Pending(x, r) => Pending(x, r)' \/ (x = msg[d] /\ r \in answer[d].ok)
         /\ Settled(x, r) => Settled(x, r)' \/ (x = msg[d] /\ r \in answer[d].ok \cup answer[d].bad)
BY DEF Pending, Settled

\* One group of outcomes is logged: its recipients are settled by this session.
LEMMA LogOutcomeStep ==
  ASSUME IInv, NEW d \in Dispatchers, LogOutcome(d) PROVE Ownership' /\ Books'
<1>1. PICK rs \in SUBSET ((answer[d].ok \cup answer[d].bad) \ final[msg[d]]) :
        final' = [final EXCEPT ![msg[d]] = @ \cup rs]
  BY DEF LogOutcome
<1>2. /\ pc[d] \in Answering /\ Go(d, "logging")
      /\ UNCHANGED <<sched, ready, msg, carry, moving, parked, stranded, answer, rcpts, spool, sent, unrecorded, cut>>
  BY DEF LogOutcome, Answering, places
<1>3. msg[d] \in Msgs
  BY <1>2, RecordLedger DEF IInv
<1>4. carry[d] = {}
  BY <1>2 DEF IInv, Ownership, Slots, CarryStates, Answering
<1>5. Slots' /\ pc'[d] = "logging" /\ \A e \in Dispatchers : e # d => pc'[e] = pc[e]
  BY <1>2, <1>4, SlotsGo DEF Labels
<1>6. /\ ReadySingle' /\ MsgSingle' /\ CarrySingle' /\ InReady' = InReady
      /\ \A x \in Msgs : (InMsg(x)' <=> InMsg(x)) /\ (InCarry(x)' <=> InCarry(x))
  BY <1>2 DEF IInv, Ownership, ReadySingle, MsgSingle, CarrySingle, InMsg, InCarry, InReady
<1>7. Counted'
  BY <1>2, <1>6 DEF IInv, Ownership, Counted, Count, Queued, One
<1>8. DeadStays /\ PendingStays
  BY <1>2, <1>5, DeadStaysWhen, PendingStaysWhen DEF Answering
<1>9. \A r \in rs : Settled(msg[d], r)'
  BY <1>2, <1>5 DEF Settled, Answering
<1>10. \A x \in Msgs : final'[x] = IF x = msg[d] THEN final[x] \cup rs ELSE final[x]
  BY <1>1, <1>3 DEF IInv, Ledger, BooksTyped
<1>11. Retriable'
  BY <1>2, <1>8, <1>9, <1>10 DEF IInv, Books, Retriable, DeadStays, PendingStays, Ledger, BooksTyped
<1>12. \A x \in Msgs, r \in Rcpts : Spent(x, r) => Spent(x, r)'
  BY <1>2, <1>8 DEF Spent, DeadStays, PendingStays
<1> QED
  BY <1>2, <1>5, <1>6, <1>7, <1>11, <1>12, SendsStay DEF IInv, Ownership, Books

LEMMA PopDoneStep ==
  ASSUME IInv, NEW d \in Dispatchers, PopDone(d) PROVE Ownership' /\ Books'
<1>1. /\ pc[d] \in Answering /\ carry' = [carry EXCEPT ![d] = Held(d)] /\ msg' = [msg EXCEPT ![d] = NoMsg]
      /\ answer' = [answer EXCEPT ![d] = NoAnswer] /\ Go(d, "removing")
      /\ UNCHANGED <<sched, ready, moving, parked, stranded, rcpts, final, spool, sent, unrecorded, cut>>
  BY DEF PopDone, AllLogged, Answering, books
<1>2. Ownership' /\ DeadStays /\ \A e \in Dispatchers : e # d => pc'[e] = pc[e] /\ msg'[e] = msg[e]
  BY <1>1, CarryBatchOwner
<1>3. msg[d] \in Msgs /\ Held(d) = {msg[d]}
  BY <1>1, RecordLedger DEF IInv
<1>4. pc'[d] = "removing" /\ carry'[d] = {msg[d]} /\ \A e \in Dispatchers : e # d => answer'[e] = answer[e]
  BY <1>1, <1>3 DEF Go, IInv, Ledger, RunTyped, PlacesTyped
<1>5. \A x \in Msgs : x = msg[d] => Dead(x)'
  BY <1>4 DEF Dead
<1>6. \A x \in Msgs, r \in Rcpts : x # msg[d] => (Pending(x, r) => Pending(x, r)') /\ (Settled(x, r) => Settled(x, r)')
  BY <1>2, <1>4, PendingOf
<1>7. Retriable'
  BY <1>1, <1>2, <1>5, <1>6 DEF IInv, Books, Retriable, DeadStays, Ledger, BooksTyped
<1>8. \A x \in Msgs, r \in Rcpts : Spent(x, r) => Spent(x, r)'
  BY <1>1, <1>2, <1>5, <1>6 DEF Spent, DeadStays
<1> QED
  BY <1>1, <1>2, <1>7, <1>8, SendsStay DEF IInv, Books

LEMMA RemoveSentStep ==
  ASSUME IInv, NEW d \in Dispatchers, RemoveSent(d) PROVE Ownership' /\ Books'
<1>1. /\ pc[d] = "removing" /\ spool' = spool \ carry[d] /\ carry' = [carry EXCEPT ![d] = {}] /\ Go(d, "loop")
      /\ UNCHANGED <<sched, ready, msg, moving, parked, stranded, answer, rcpts, final, sent, unrecorded, cut>>
  BY DEF RemoveSent
<1>2. /\ CarrySingle' /\ \A x \in carry[d] : InCarry(x)
      /\ \A x \in Msgs : InCarry(x)' <=> InCarry(x) /\ x \notin carry[d]
  BY <1>1, CarryLess DEF IInv, Ledger, Ownership
<1>3. carry'[d] = {} /\ \A e \in Dispatchers : e # d => carry'[e] = carry[e]
  BY <1>1 DEF IInv, Ledger, PlacesTyped
<1>4. Slots' /\ \A e \in Dispatchers : e # d => pc'[e] = pc[e]
  BY <1>1, <1>3, SlotsGo DEF Labels
<1>5. ReadySingle' /\ MsgSingle' /\ InReady' = InReady /\ \A x \in Msgs : InMsg(x)' <=> InMsg(x)
  BY <1>1 DEF IInv, Ownership, ReadySingle, MsgSingle, InMsg, InReady
<1>6. Counted'
  <2> SUFFICES ASSUME NEW x \in Msgs PROVE Count(x)' = One(x \in spool')
    BY DEF Counted, One
  <2>1. Count(x) = One(x \in spool) /\ moving[x] \in Nat
    BY OnlyOwner DEF IInv, Ownership, Counted
  <2> QED
    BY <1>1, <1>2, <1>5, <2>1 DEF Count, Queued, One
<1>7. DeadStays
  BY <1>1, <1>3, <1>4 DEF DeadStays, Dead
<1>8. PendingStays
  BY <1>1, <1>4, PendingStaysWhen DEF Answering
<1>9. Retriable'
  BY <1>1, <1>7, <1>8 DEF IInv, Books, Retriable, DeadStays, PendingStays, Ledger, BooksTyped
<1>10. \A x \in Msgs, r \in Rcpts : Spent(x, r) => Spent(x, r)'
  BY <1>1, <1>7, <1>8 DEF Spent, DeadStays, PendingStays
<1>11. Books'
  BY <1>1, <1>9, <1>10, SendsStay DEF IInv, Books
<1> QED
  BY <1>2, <1>4, <1>5, <1>6, <1>11 DEF IInv, Ownership

LEMMA TrimRecipientsStep ==
  ASSUME IInv, NEW d \in Dispatchers, TrimRecipients(d) PROVE Ownership' /\ Books'
<1>1. /\ pc[d] \in Answering
      /\ rcpts' = [rcpts EXCEPT ![msg[d]] = Remaining(d)]
      /\ UNCHANGED <<msg, moving>> \/ (moving' = Spawned(Held(d)) /\ msg' = [msg EXCEPT ![d] = NoMsg])
      /\ answer' = [answer EXCEPT ![d] = NoAnswer] /\ Go(d, "loop")
      /\ UNCHANGED <<sched, ready, carry, parked, stranded, final, spool, sent, unrecorded, cut>>
  BY DEF TrimRecipients, AllLogged, Answering
<1>2. msg[d] \in Msgs /\ Held(d) = {msg[d]}
  BY <1>1, RecordLedger DEF IInv
<1>3. /\ rcpts'[msg[d]] = rcpts[msg[d]] \ (answer[d].ok \cup answer[d].bad)
      /\ \A x \in Msgs : x # msg[d] => rcpts'[x] = rcpts[x]
  BY <1>1, <1>2 DEF IInv, Ledger, BooksTyped, Remaining
<1>4. carry[d] = {}
  BY <1>1 DEF IInv, Ownership, Slots, CarryStates, Answering
<1>5. Slots' /\ \A e \in Dispatchers : e # d => pc'[e] = pc[e]
  BY <1>1, <1>4, SlotsGo DEF Labels
<1>6. \A e \in Dispatchers : e # d => msg'[e] = msg[e] /\ answer'[e] = answer[e]
  BY <1>1 DEF IInv, Ledger, PlacesTyped, RunTyped
<1>7. ReadySingle' /\ CarrySingle' /\ InReady' = InReady /\ \A x \in Msgs : InCarry(x)' <=> InCarry(x)
  BY <1>1 DEF IInv, Ownership, ReadySingle, CarrySingle, InCarry, InReady
<1>8. MsgSingle' /\ Counted'
  <2>1. CASE UNCHANGED <<msg, moving>>
    <3>1. MsgSingle' /\ \A x \in Msgs : InMsg(x)' <=> InMsg(x)
      BY <2>1 DEF IInv, Ownership, MsgSingle, InMsg
    <3> QED
      BY <1>1, <1>7, <2>1, <3>1 DEF IInv, Ownership, Counted, Count, Queued, One
  <2>2. CASE moving' = Spawned(Held(d)) /\ msg' = [msg EXCEPT ![d] = NoMsg]
    <3>1. /\ MsgSingle' /\ \A x \in Held(d) : InMsg(x)
          /\ \A x \in Msgs : InMsg(x)' <=> InMsg(x) /\ x \notin Held(d)
      BY <2>2, MsgClear DEF IInv, Ledger, Ownership
    <3>2. ASSUME NEW x \in Msgs PROVE Count(x)' = One(x \in spool')
      <4>1. Count(x) = One(x \in spool) /\ moving[x] \in Nat
        BY OnlyOwner DEF IInv, Ownership, Counted
      <4>2. moving'[x] = moving[x] + One(x \in Held(d))
        BY <2>2, SpawnedTyped DEF IInv, Ledger
      <4> QED
        BY <1>1, <1>7, <3>1, <4>1, <4>2 DEF Count, Queued, One
    <3> QED
      BY <3>1, <3>2 DEF Counted, One
  <2> QED
    BY <1>1, <2>1, <2>2
<1>9. DeadStays
  BY <1>1, <1>5, DeadStaysWhen DEF Answering
<1>10. Retriable'
  BY <1>1, <1>3, <1>5, <1>6, <1>9, PendingOf DEF IInv, Books, Retriable, DeadStays, Ledger, BooksTyped
<1>11. \A x \in Msgs, r \in Rcpts : Spent(x, r) => Spent(x, r)'
  BY <1>3, <1>5, <1>6, <1>9, PendingOf DEF Spent, DeadStays
<1>12. Books'
  BY <1>1, <1>10, <1>11, SendsStay DEF IInv, Books
<1> QED
  BY <1>5, <1>7, <1>8, <1>12 DEF IInv, Ownership

\* The recording of a transaction is cut short: its acceptances and its logged
\* recipients are counted as such.
LEMMA BooksLost ==
  ASSUME IInv, NEW d \in Dispatchers, pc[d] \in Answering, DeadStays,
         \A e \in Dispatchers : e # d => pc'[e] = pc[e] /\ msg'[e] = msg[e] /\ answer'[e] = answer[e],
         unrecorded' = Lost(d), cut' = CutShort(d), UNCHANGED <<rcpts, final, sent>>
  PROVE  Books'
<1>1. msg[d] \in Msgs
  BY RecordLedger DEF IInv
<1>2. Retriable'
  <2>1. /\ \A x \in Msgs : cut[x] \subseteq cut'[x]
        /\ (answer[d].ok \cup answer[d].bad) \cap final[msg[d]] \subseteq cut'[msg[d]]
    BY <1>1, CutTyped DEF IInv
  <2> QED
    BY <2>1, PendingOf DEF IInv, Books, Retriable, DeadStays, Ledger, BooksTyped
<1>3. ASSUME NEW x \in Msgs, NEW r \in Rcpts
      PROVE  sent'[x][r] <= unrecorded'[x][r] + One(Spent(x, r)')
  <2>1. sent[x][r] \in Nat /\ unrecorded[x][r] \in Nat /\ sent' = sent
    BY BoundsAssumption DEF IInv, Ledger, BooksTyped
  <2>2. sent[x][r] <= unrecorded[x][r] + One(Spent(x, r))
    BY DEF IInv, Books, Sends
  <2>3. unrecorded'[x][r] = unrecorded[x][r] + One(x = msg[d] /\ r \in answer[d].ok)
    BY <1>1, LostTyped DEF IInv
  <2>4. Spent(x, r) => Spent(x, r)' \/ (x = msg[d] /\ r \in answer[d].ok)
    BY PendingOf DEF Spent, DeadStays
  <2> QED
    BY <2>1, <2>2, <2>3, <2>4 DEF One
<1> QED
  BY <1>2, <1>3 DEF Books, Sends, One

LEMMA RecordFailedStep ==
  ASSUME IInv, NEW d \in Dispatchers, RecordFailed(d) PROVE Ownership' /\ Books'
<1>1. /\ pc[d] \in Answering /\ unrecorded' = Lost(d) /\ cut' = CutShort(d)
      /\ answer' = [answer EXCEPT ![d] = NoAnswer]
      /\ CarryBatch(d) /\ Go(d, "failed") /\ UNCHANGED <<rcpts, final, spool, sent>>
  BY DEF RecordFailed, AllLogged, Answering
<1>2. Ownership' /\ DeadStays /\ \A e \in Dispatchers : e # d => pc'[e] = pc[e] /\ msg'[e] = msg[e]
  BY <1>1, CarryBatchOwner DEF CarryBatch
<1>3. \A e \in Dispatchers : e # d => answer'[e] = answer[e]
  BY <1>1 DEF IInv, Ledger, RunTyped
<1> QED
  BY <1>1, <1>2, <1>3, BooksLost

\* A session ends: what it holds is returned, what it carries is dropped.
LEMMA DropOwner ==
  ASSUME IInv, NEW d \in Dispatchers, DropDispatcher(d), carry' = [carry EXCEPT ![d] = {}],
         stranded' = stranded \cup carry[d], UNCHANGED <<sched, ready, parked, spool>>
  PROVE  /\ Ownership' /\ DeadStays
         /\ \A e \in Dispatchers : e # d => pc'[e] = pc[e] /\ msg'[e] = msg[e]
<1>1. Go(d, "off") /\ msg' = [msg EXCEPT ![d] = NoMsg] /\ moving' = Spawned(Held(d))
  BY DEF DropDispatcher, Dropped
<1>2. /\ MsgSingle' /\ \A x \in Held(d) : InMsg(x)
      /\ \A x \in Msgs : InMsg(x)' <=> InMsg(x) /\ x \notin Held(d)
  BY <1>1, MsgClear DEF IInv, Ledger, Ownership
<1>3. /\ CarrySingle' /\ \A x \in carry[d] : InCarry(x)
      /\ \A x \in Msgs : InCarry(x)' <=> InCarry(x) /\ x \notin carry[d]
  BY CarryLess DEF IInv, Ledger, Ownership
<1>4. carry'[d] = {} /\ \A e \in Dispatchers : e # d => carry'[e] = carry[e] /\ msg'[e] = msg[e]
  BY <1>1 DEF IInv, Ledger, PlacesTyped
<1>5. Slots' /\ pc'[d] = "off" /\ \A e \in Dispatchers : e # d => pc'[e] = pc[e]
  BY <1>1, <1>4, SlotsGo DEF Labels
<1>6. ReadySingle' /\ InReady' = InReady
  BY DEF IInv, Ownership, ReadySingle, InReady
<1>7. Counted'
  <2> SUFFICES ASSUME NEW x \in Msgs PROVE Count(x)' = One(x \in spool')
    BY DEF Counted, One
  <2>1. Count(x) = One(x \in spool) /\ moving[x] \in Nat
    BY OnlyOwner DEF IInv, Ownership, Counted
  <2>2. moving'[x] = moving[x] + One(x \in Held(d))
    BY <1>1, SpawnedTyped DEF IInv, Ledger
  <2> QED
    BY <1>2, <1>3, <1>6, <2>1, <2>2 DEF Count, Queued, One
<1>8. DeadStays
  BY <1>4, <1>5 DEF DeadStays, Dead
<1> QED
  BY <1>2, <1>3, <1>4, <1>5, <1>6, <1>7, <1>8 DEF IInv, Ownership

LEMMA CloseStep == ASSUME IInv, NEW d \in Dispatchers, Close(d) PROVE Ownership' /\ Books'
<1>1. /\ pc[d] = "closing" /\ DropDispatcher(d)
      /\ UNCHANGED <<sched, ready, carry, parked, stranded, answer, books, spool>>
  BY DEF Close, books
<1>2. carry[d] = {}
  BY <1>1 DEF IInv, Ownership, Slots, CarryStates
<1>3. carry' = [carry EXCEPT ![d] = {}] /\ stranded' = stranded \cup carry[d]
  BY <1>1, <1>2 DEF IInv, Ledger, PlacesTyped
<1>4. Ownership' /\ DeadStays /\ \A e \in Dispatchers : e # d => pc'[e] = pc[e] /\ msg'[e] = msg[e]
  BY <1>1, <1>3, DropOwner
<1>5. PendingStays
  BY <1>1, <1>4, PendingStaysWhen DEF Answering
<1> QED
  BY <1>1, <1>4, <1>5, BooksStay DEF IInv

LEMMA AbortStep == ASSUME IInv, NEW d \in Dispatchers, Abort(d) PROVE Ownership' /\ Books'
<1>1. /\ DropDispatcher(d) /\ stranded' = stranded \cup carry[d] /\ carry' = [carry EXCEPT ![d] = {}]
      /\ IF pc[d] \in Answering THEN unrecorded' = Lost(d) /\ cut' = CutShort(d)
         ELSE UNCHANGED <<unrecorded, cut>>
      /\ answer' = [answer EXCEPT ![d] = NoAnswer]
      /\ UNCHANGED <<sched, ready, parked, rcpts, final, spool, sent>>
  BY DEF Abort, Answering
<1>2. Ownership' /\ DeadStays /\ \A e \in Dispatchers : e # d => pc'[e] = pc[e] /\ msg'[e] = msg[e]
  BY <1>1, DropOwner
<1>3. \A e \in Dispatchers : e # d => answer'[e] = answer[e]
  BY <1>1 DEF IInv, Ledger, RunTyped
<1>4. CASE pc[d] \in Answering
  BY <1>1, <1>2, <1>3, <1>4, BooksLost
<1>5. CASE pc[d] \notin Answering
  <2>1. PendingStays
    BY <1>2, <1>3, <1>5, PendingStaysWhen DEF Answering
  <2> QED
    BY <1>1, <1>2, <1>5, <2>1, BooksStay DEF IInv, books
<1> QED
  BY <1>2, <1>4, <1>5
-----------------------------------------------------------------------------
(* The invariant of a node whose spool stays healthy.                      *)

\* Every message has just been received: one task owns it, nothing was sent.
LEMMA InitIInv == Init /\ "unhealthy" \notin Conditions => IInv
<1> SUFFICES ASSUME Init, "unhealthy" \notin Conditions PROVE IInv
  OBVIOUS
<1>1. ReadySingle /\ MsgSingle /\ CarrySingle /\ Slots
  BY DEF Init, ReadySingle, MsgSingle, CarrySingle, Slots
<1>2. Counted
  <2> SUFFICES ASSUME NEW m \in Msgs PROVE Count(m) = One(m \in spool)
    BY DEF Counted, One
  <2>1. ~InMsg(m) /\ ~InCarry(m) /\ InReady = {} /\ moving[m] = 1 /\ m \in spool
    BY MsgAssumption DEF Init, InMsg, InCarry, InReady
  <2>2. sched = {} /\ parked = {} /\ stranded = {}
    BY DEF Init
  <2> QED
    BY <2>1, <2>2 DEF Count, Queued, One
<1>3. Books
  <2>1. \A m \in Msgs : rcpts[m] \cap final[m] = {}
    BY DEF Init
  <2>2. \A m \in Msgs, r \in Rcpts : sent[m][r] = 0 /\ unrecorded[m][r] = 0
    BY DEF Init
  <2> QED
    BY <2>1, <2>2 DEF Books, Retriable, Sends, One
<1> QED
  BY <1>1, <1>2, <1>3, InitLedger DEF IInv, Ownership

\* Every step keeps the second layer; the step that would not, the race
\* protection of deliver_message, needs a spool that became unhealthy.
LEMMA NextIInv == ASSUME IInv, [Next]_vars PROVE IInv'
<1>1. ASSUME NEW d \in Dispatchers, Work(d) PROVE Ownership' /\ Books'
  <2>1. CASE \/ LeaveLoop(d) \/ LoopToObtain(d) \/ HaveBatch(d) \/ WaitTimeout(d) \/ WaitShutdown(d)
             \/ Connected(d) \/ ConnectShutdown(d) \/ CarryDone(d) \/ DeliverNothing(d)
    BY <2>1, PcOnlyActions, PcOnlyStep
  <2>2. CASE LeaveSuspended(d) \/ WaitSuspended(d) \/ PeerClosed(d) \/ DeliverThrottled(d)
    BY <2>2, GiveBackStep DEF LeaveSuspended, WaitSuspended, PeerClosed, DeliverThrottled
  <2>3. ~DeliverUnhealthy(d)
    BY DEF DeliverUnhealthy, IInv, Ownership, Ledger, RunTyped
  <2> QED
    BY <1>1, <2>1, <2>2, <2>3, FailStep, LeaveShutdownStep, PopBatchStep, DelayReadyQueueStep, FinishCarryStep,
       TransmitStep, LogOutcomeStep, PopDoneStep, RemoveSentStep, TrimRecipientsStep, RecordFailedStep, CloseStep
    DEF Work
<1>2. ASSUME NEW d \in Dispatchers, Open(d) \/ Abort(d) PROVE Ownership' /\ Books'
  BY <1>2, PcOnlyActions, PcOnlyStep, AbortStep
<1>3. ASSUME NEW m \in Msgs, FinishMove(m) \/ FallDue(m) PROVE Ownership' /\ Books'
  BY <1>3, FinishMoveStep, FallDueStep
<1>4. ASSUME Drain \/ SaveReady PROVE Ownership' /\ Books'
  BY <1>4, MaintainStep
<1>5. ASSUME NEW c \in Conditions, Toggle(c) PROVE Ownership' /\ Books'
  BY <1>5, QuietStep DEF Toggle
<1>6. ASSUME Shutdown \/ UNCHANGED vars PROVE Ownership' /\ Books'
  BY <1>6, QuietStep DEF Shutdown, vars
<1>7. Ownership' /\ Books'
  BY <1>1, <1>2, <1>3, <1>4, <1>5, <1>6 DEF Next
<1> QED
  BY <1>7, NextLedger DEF IInv
-----------------------------------------------------------------------------
(* From the kinds of places to the owners: a kind that holds a message     *)
(* holds it once.                                                          *)

\* The cardinality of a set with at most one element.
LEMMA AtMostOne ==
  ASSUME NEW S, \A x, y \in S : x = y
  PROVE  Cardinality(S) = One(S # {})
<1>1. CASE S = {}
  BY <1>1, FS_EmptySet DEF One
<1>2. CASE S # {}
  <2>1. PICK x : S = {x}
    BY <1>2
  <2> QED
    BY <1>2, <2>1, FS_Singleton DEF One
<1> QED
  BY <1>1, <1>2

\* The number of owners is the number of kinds of places that hold a message.
LEMMA OwnersCounted ==
  ASSUME IInv, NEW m \in Msgs
  PROVE  Owners(m) = Count(m)
<1> DEFINE Q == {s \in {1, 2, 3} : m \in <<sched, parked, stranded>>[s]}
           R == {i \in DOMAIN ready : ready[i] = m}
           D == {d \in Dispatchers : msg[d] = m}
           C == {d \in Dispatchers : m \in carry[d]}
<1>1. Queued(m) \in {0, 1} /\ moving[m] \in Nat
  <2>1. Queued(m) = 0 \/ Queued(m) = 1
    BY OnlyOwner DEF IInv, Ownership
  <2> QED
    BY <2>1, OnlyOwner DEF IInv, Ownership
<1>2. Q = (IF m \in sched THEN {1} ELSE {}) \cup (IF m \in parked THEN {2} ELSE {})
          \cup (IF m \in stranded THEN {3} ELSE {})
  OBVIOUS
<1>3. \A x, y \in Q : x = y
  BY <1>1, <1>2 DEF Queued, One
<1>4. Cardinality(Q) = One(m \in sched) + One(m \in parked) + One(m \in stranded)
  <2>1. Cardinality(Q) = One(Q # {})
    BY <1>3, AtMostOne
  <2>2. Q # {} <=> m \in sched \/ m \in parked \/ m \in stranded
    BY <1>2
  <2> QED
    BY <1>1, <2>1, <2>2 DEF Queued, One
<1>5. Cardinality(R) = One(m \in InReady)
  <2>1. \A x, y \in R : x = y
    BY DEF IInv, Ownership, ReadySingle
  <2>2. R # {} <=> m \in InReady
    BY DEF InReady
  <2> QED
    BY <2>1, <2>2, AtMostOne DEF One
<1>6. Cardinality(D) = One(InMsg(m))
  <2>1. \A x, y \in D : x = y
    BY MsgAssumption DEF IInv, Ownership, MsgSingle
  <2>2. D # {} <=> InMsg(m)
    BY DEF InMsg
  <2> QED
    BY <2>1, <2>2, AtMostOne DEF One
<1>7. Cardinality(C) = One(InCarry(m))
  <2>1. \A x, y \in C : x = y
    BY DEF IInv, Ownership, CarrySingle
  <2>2. C # {} <=> InCarry(m)
    BY DEF InCarry
  <2> QED
    BY <2>1, <2>2, AtMostOne DEF One
<1>8. Owners(m) = Cardinality(Q) + Cardinality(R) + Cardinality(D) + Cardinality(C) + moving[m]
  BY DEF Owners
<1> HIDE DEF Q, R, D, C
<1> QED
  BY <1>1, <1>4, <1>5, <1>6, <1>7, <1>8 DEF Count, Queued, One

\* What the invariant says about the owners and the transmissions.
LEMMA IInvOwners == IInv => OneOwner
<1> SUFFICES ASSUME IInv, NEW m \in Msgs PROVE Owners(m) = IF m \in spool THEN 1 ELSE 0
  BY DEF OneOwner
<1> QED
  BY OwnersCounted DEF IInv, Ownership, Counted, One

LEMMA IInvSends == IInv => NoNeedlessDuplicate
<1> SUFFICES ASSUME IInv, NEW m \in Msgs, NEW r \in Rcpts PROVE sent[m][r] <= 1 + unrecorded[m][r]
  BY DEF NoNeedlessDuplicate
<1>1. sent[m][r] \in Nat /\ unrecorded[m][r] \in Nat
  BY BoundsAssumption DEF IInv, Ledger, BooksTyped
<1>2. sent[m][r] <= unrecorded[m][r] + One(Spent(m, r))
  BY DEF IInv, Books, Sends
<1> QED
  BY <1>1, <1>2 DEF One

\* Only a transaction transmits.
LEMMA SentOnlyByTransmit ==
  ASSUME [Next]_vars, ~\E d \in Dispatchers : Transmit(d)
  PROVE  sent' = sent
<1>1. ASSUME NEW d \in Dispatchers, Work(d) PROVE sent' = sent
  <2>1. CASE \/ LeaveLoop(d) \/ LoopToObtain(d) \/ HaveBatch(d) \/ WaitTimeout(d) \/ WaitShutdown(d)
             \/ Connected(d) \/ ConnectShutdown(d) \/ CarryDone(d) \/ DeliverNothing(d)
    BY <2>1, PcOnlyActions DEF PcOnly, books
  <2>2. CASE LeaveSuspended(d) \/ WaitSuspended(d) \/ PeerClosed(d) \/ DeliverThrottled(d)
    BY <2>2 DEF LeaveSuspended, WaitSuspended, PeerClosed, DeliverThrottled, books
  <2>3. CASE ConnectFailed(d) \/ DeliverFailed(d) \/ DeliverUnhealthy(d) \/ DelayReadyQueue(d) \/ LeaveShutdown(d)
    BY <2>3 DEF ConnectFailed, DeliverFailed, DeliverUnhealthy, DelayReadyQueue, LeaveShutdown, books
  <2>4. CASE PopBatch(d)
    BY <2>4 DEF PopBatch, Dispose, books
  <2>5. CASE FinishCarry(d)
    BY <2>5 DEF FinishCarry, Insert, InsertDelayed, InsertReady, Expire, Dispose, books
  <2>6. CASE \/ LogOutcome(d) \/ PopDone(d) \/ RemoveSent(d) \/ TrimRecipients(d)
             \/ RecordFailed(d) \/ Close(d)
    BY <2>6 DEF LogOutcome, PopDone, RemoveSent, TrimRecipients, RecordFailed, Close, books
  <2> QED
    BY <1>1, <2>1, <2>2, <2>3, <2>4, <2>5, <2>6 DEF Work
<1>2. ASSUME NEW d \in Dispatchers, Open(d) \/ Abort(d) PROVE sent' = sent
  BY <1>2 DEF Open, Abort, books
<1>3. ASSUME NEW m \in Msgs, FinishMove(m) \/ FallDue(m) PROVE sent' = sent
  BY <1>3 DEF FinishMove, FallDue, Insert, InsertDelayed, InsertReady, Expire, Dispose, books
<1>4. CASE Drain \/ SaveReady \/ Shutdown \/ UNCHANGED vars
  BY <1>4 DEF Drain, SaveReady, Shutdown, vars, books
<1>5. ASSUME NEW c \in Conditions, Toggle(c) PROVE sent' = sent
  BY <1>5 DEF Toggle, books
<1> QED
  BY <1>1, <1>2, <1>3, <1>4, <1>5 DEF Next

\* A recipient that is transmitted has no terminal record, or one of a
\* transaction that was cut short.
LEMMA RetryStep ==
  ASSUME IInv, [Next]_vars, NEW m \in Msgs, NEW r \in Rcpts, sent'[m][r] > sent[m][r]
  PROVE  r \notin final[m] \/ r \in cut[m]
<1>1. sent[m][r] \in Nat
  BY BoundsAssumption DEF IInv, Ledger, BooksTyped
<1>2. PICK d \in Dispatchers : Transmit(d)
  BY <1>1, SentOnlyByTransmit
<1>3. PICK ok \in SUBSET rcpts[msg[d]] :
        /\ \A x \in ok : x \notin final[msg[d]] \/ x \in cut[msg[d]]
        /\ \A x \in Msgs, y \in Rcpts : sent'[x][y] = sent[x][y] + One(x = msg[d] /\ y \in ok)
  BY <1>2, TransmitFresh
<1> QED
  BY <1>1, <1>3 DEF One
-----------------------------------------------------------------------------
\* The specification never leaves its types: in particular the ready queue
\* never exceeds max_ready, whichever sessions, tasks and maintainers run.
THEOREM TypesHold == Spec => []TypeOK
<1>1. Ledger => TypeOK
  BY DEF Ledger, RunTyped, PlacesTyped, BooksTyped, TypeOK, Labels
<1> QED
  BY <1>1, InitLedger, NextLedger, PTL DEF Spec

\* remove_from_spool is reached only with a terminal record for every
\* recipient of the message, with any number of sessions, in any order of
\* transactions, bounces, expirations, aborts, errors and shutdowns, and with
\* a spool that turns unhealthy and recovers at any time.
THEOREM RemovalsAreFinal == Spec => []RemovedOnlyWhenDone
<1>1. Ledger => RemovedOnlyWhenDone
  BY DEF Ledger, Recorded, RemovedOnlyWhenDone
<1> QED
  BY <1>1, InitLedger, NextLedger, PTL DEF Spec

\* While the spool stays healthy, the invariant holds in every state.
THEOREM SpecIInv == ASSUME "unhealthy" \notin Conditions PROVE Spec => []IInv
<1>1. Init => IInv
  BY InitIInv
<1> QED
  BY <1>1, NextIInv, PTL DEF Spec

\* While the spool stays healthy, a message in the spool has exactly one owner
\* (a queue, a session, a requeueing session or a spawned task) and a removed
\* one has none: no path of the dispatcher hands a message to two of them, and
\* none forgets to hand it on.
THEOREM MessagesHaveOneOwner == ASSUME "unhealthy" \notin Conditions PROVE Spec => []OneOwner
BY SpecIInv, IInvOwners, PTL

\* While the spool stays healthy, a recipient is accepted by the peer once,
\* and once more for each transaction that an aborted session or an error cut
\* short after the peer's answer and before the recipient list was trimmed.
THEOREM AcceptancesAreRecorded == ASSUME "unhealthy" \notin Conditions PROVE Spec => []NoNeedlessDuplicate
BY SpecIInv, IInvSends, PTL

\* While the spool stays healthy, a recipient whose terminal disposition has
\* been logged is not transmitted again, by this session or by any other,
\* unless the session was aborted or failed between the record and the
\* trimming of the recipient list.
THEOREM FinalIsFinal == ASSUME "unhealthy" \notin Conditions PROVE Spec => NoRetryAfterFinal
<1>1. IInv /\ [Next]_vars
      => [\A m \in Msgs, r \in Rcpts : sent'[m][r] > sent[m][r] => r \notin final[m] \/ r \in cut[m]]_vars
  BY RetryStep
<1> QED
  BY <1>1, SpecIInv, PTL DEF Spec, NoRetryAfterFinal
=============================================================================
