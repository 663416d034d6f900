-------------------------------- MODULE Fifo --------------------------------
(***************************************************************************)
(* The Fifo of a ready queue (crates/kumod/src/ready_queue.rs): a bounded  *)
(* list of messages behind a mutex, with reservations that let a caller    *)
(* claim a place first and fill it later, and a gauge (count) that is      *)
(* adjusted outside the mutex by most operations.                          *)
(*                                                                         *)
(* A task is one tokio task that holds a reference to the Fifo.  Each      *)
(* action is one critical section of the list mutex, or one atomic access  *)
(* made without it; pc says where in an operation a task stands.  The only *)
(* unlocked access to num_reserved is the decrement of a dropped           *)
(* reservation, which commutes with the critical sections.                 *)
(***************************************************************************)
EXTENDS Integers, Sequences, FiniteSets, Functions, FiniteSetsExt

CONSTANTS
  Tasks,        \* tasks that share the Fifo
  Msgs,         \* messages
  Capacities,   \* values max_ready takes over the life of the queue
  NoCapacity    \* "no update in progress", not a capacity

ASSUME TasksAssumption == IsFiniteSet(Tasks)
ASSUME CapacitiesAssumption == /\ Capacities \subseteq Nat
                               /\ NoCapacity \notin Nat

VARIABLES
  list,          \* list: FairMutex<MessageList>
  num_reserved,  \* num_reserved: AtomicUsize
  capacity,      \* capacity: AtomicUsize
  count,         \* count: the ready_count gauge, before reduction modulo 2^64
  pc,            \* where each task stands in an operation
  owed,          \* what a task has still to add to the gauge
  newcap,        \* the argument of a task's update_capacity call
  held           \* the messages each task owns outside the Fifo

vars == <<list, num_reserved, capacity, count, pc, owed, newcap, held>>

InList == {list[i] : i \in DOMAIN list}

\* The load that reserve and push compare with the capacity, and len() reports.
Load == num_reserved + Len(list)

Init ==
  /\ list = <<>>
  /\ num_reserved = 0
  /\ capacity \in Capacities
  /\ count = 0
  /\ pc = [t \in Tasks |-> "idle"]
  /\ owed = [t \in Tasks |-> 0]
  /\ newcap = [t \in Tasks |-> NoCapacity]
  /\ held \in [Tasks -> SUBSET Msgs]
  /\ \A t, u \in Tasks : t # u => held[t] \cap held[u] = {}
  /\ UNION {held[t] : t \in Tasks} = Msgs
-----------------------------------------------------------------------------
\* The test that admits one more message or reservation.
RoomInList == Len(list) + 1 <= capacity
Room == Load + 1 <= capacity

\* Fifo::reserve, the successful case; a refusal changes nothing.
Reserve(t) ==
  /\ pc[t] = "idle"
  /\ Room
  /\ num_reserved' = num_reserved + 1
  /\ count' = count + 1
  /\ pc' = [pc EXCEPT ![t] = "reserved"]
  /\ UNCHANGED <<list, capacity, owed, newcap, held>>

\* redeem sets the redeemed flag, which turns the drop that follows into a no-op.
ForgottenFlag == "reserved"
Redeemed == "idle"

\* FifoReservation::redeem: no capacity check, the place is already counted.
Redeem(t) ==
  /\ pc[t] = "reserved"
  /\ \E m \in held[t] :
       /\ list' = Append(list, m)
       /\ held' = [held EXCEPT ![t] = @ \ {m}]
  /\ num_reserved' = num_reserved - 1
  /\ pc' = [pc EXCEPT ![t] = Redeemed]
  /\ UNCHANGED <<capacity, count, owed, newcap>>

\* Drop for FifoReservation: the place is released, then the gauge.
DropReservation(t) ==
  /\ pc[t] = "reserved"
  /\ num_reserved' = num_reserved - 1
  /\ owed' = [owed EXCEPT ![t] = -1]
  /\ pc' = [pc EXCEPT ![t] = "gauge"]
  /\ UNCHANGED <<list, capacity, count, newcap, held>>

\* Fifo::push, up to the end of the critical section.
Push(t) ==
  /\ pc[t] = "idle"
  /\ Room
  /\ \E m \in held[t] :
       /\ list' = Append(list, m)
       /\ held' = [held EXCEPT ![t] = @ \ {m}]
  /\ owed' = [owed EXCEPT ![t] = 1]
  /\ pc' = [pc EXCEPT ![t] = "gauge"]
  /\ UNCHANGED <<num_reserved, capacity, count, newcap>>

\* The gauge adjustment of pop: count.dec().
OweNothing == 0
OwePop == -1

\* Fifo::pop, up to the end of the critical section.
Pop(t) ==
  /\ pc[t] = "idle"
  /\ list # <<>>
  /\ list' = Tail(list)
  /\ held' = [held EXCEPT ![t] = @ \cup {Head(list)}]
  /\ owed' = [owed EXCEPT ![t] = OwePop]
  /\ pc' = [pc EXCEPT ![t] = "gauge"]
  /\ UNCHANGED <<num_reserved, capacity, count, newcap>>

\* Fifo::take_list, up to the end of the critical section.
TakeList(t) ==
  /\ pc[t] = "idle"
  /\ list' = <<>>
  /\ held' = [held EXCEPT ![t] = @ \cup InList]
  /\ owed' = [owed EXCEPT ![t] = -Len(list)]
  /\ pc' = [pc EXCEPT ![t] = "gauge"]
  /\ UNCHANGED <<num_reserved, capacity, count, newcap>>

\* The gauge adjustment that ends push, pop, take_list and a dropped
\* reservation; it happens after the mutex is released.
AdjustGauge(t) ==
  /\ pc[t] = "gauge"
  /\ count' = count + owed[t]
  /\ owed' = [owed EXCEPT ![t] = 0]
  /\ pc' = [pc EXCEPT ![t] = "idle"]
  /\ UNCHANGED <<list, num_reserved, capacity, newcap, held>>

\* Fifo::update_capacity reads the capacity before it takes the mutex.
UpdateCapacityCheck(t, c) ==
  /\ pc[t] = "idle"
  /\ capacity # c
  /\ newcap' = [newcap EXCEPT ![t] = c]
  /\ pc' = [pc EXCEPT ![t] = "updating"]
  /\ UNCHANGED <<list, num_reserved, capacity, count, owed, held>>

\* What stays of the list: the longest prefix that fits beside the
\* reservations, the empty one when they alone exceed the new capacity.
Kept(c) ==
  IF num_reserved + Len(list) <= c THEN Len(list)
  ELSE IF num_reserved <= c THEN c - num_reserved ELSE 0

\* The messages pop_back removes until k are left.
ExcessButOne(k) == {list[i] : i \in (k + 2)..Len(list)}
Excess(k) == {list[i] : i \in (k + 1)..Len(list)}

\* The critical section of update_capacity: the excess leaves at the back
\* and the gauge is adjusted while the mutex is still held.
UpdateCapacity(t) ==
  /\ pc[t] = "updating"
  /\ LET k == Kept(newcap[t])
     IN  /\ list' = SubSeq(list, 1, k)
         /\ held' = [held EXCEPT ![t] = @ \cup Excess(k)]
         /\ count' = count - (Len(list) - k)
  /\ capacity' = newcap[t]
  /\ newcap' = [newcap EXCEPT ![t] = NoCapacity]
  /\ pc' = [pc EXCEPT ![t] = "idle"]
  /\ UNCHANGED <<num_reserved, owed>>

Next ==
  \E t \in Tasks :
    \/ Reserve(t) \/ Redeem(t) \/ DropReservation(t)
    \/ Push(t) \/ Pop(t) \/ TakeList(t) \/ AdjustGauge(t)
    \/ \E c \in Capacities : UpdateCapacityCheck(t, c)
    \/ UpdateCapacity(t)

Spec == Init /\ [][Next]_vars
-----------------------------------------------------------------------------
TypeOK ==
  /\ list \in Seq(Msgs)
  /\ num_reserved \in Nat
  /\ capacity \in Capacities
  /\ count \in Int
  /\ pc \in [Tasks -> {"idle", "reserved", "gauge", "updating"}]
  /\ owed \in [Tasks -> Int]
  /\ newcap \in [Tasks -> Capacities \cup {NoCapacity}]
  /\ \A t \in Tasks : pc[t] = "updating" => newcap[t] \in Capacities
  /\ held \in [Tasks -> SUBSET Msgs]

\* Every message is in exactly one place: once in the list, or with one task.
\* No interleaving of pushes, pops, bulk takes and capacity changes loses a
\* message or hands it to two owners.
OneOwner ==
  /\ InList \cup UNION {held[t] : t \in Tasks} = Msgs
  /\ \A i, j \in DOMAIN list : i # j => list[i] # list[j]
  /\ \A t \in Tasks : held[t] \cap InList = {}
  /\ \A t, u \in Tasks : t # u => held[t] \cap held[u] = {}

\* num_reserved is the number of reservations that are outstanding, although
\* it is changed by redeem, by drop without the mutex, and by reserve.
ReservedIsExact == num_reserved = Cardinality({t \in Tasks : pc[t] = "reserved"})

\* The gauge differs from the load only by the adjustments that tasks between
\* their critical section and their gauge update still owe: it never drifts.
GaugeBalance == count + MapThenSumSet(LAMBDA t : owed[t], Tasks) = Load

\* Only a capacity reduction under outstanding reservations can leave the
\* load above the capacity, and the excess is never more than reservations.
\* In every other step the load only grows when it ends within the capacity,
\* so an overcommitted Fifo drains and is never filled further.
Overcommit == [][Load' > capacity' => /\ Load' <= Load
                                      /\ capacity' # capacity => list' = <<>>]_vars
=============================================================================
