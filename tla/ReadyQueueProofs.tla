-------------------------- MODULE ReadyQueueProofs --------------------------
(***************************************************************************)
(* What TLAPS proves about ReadyQueue, for any number of queues, producers *)
(* and messages: the queue in the manager's map is always served, and no   *)
(* queue that holds messages loses its maintainer, but for the two races   *)
(* Sheltered names.                                                        *)
(***************************************************************************)
EXTENDS ReadyQueue, FiniteSetTheorems, SequenceTheorems, TLAPS

Running == {"wait", "check", "reap"}
Active == Running \cup {"sweep"}

\* The queues created so far are those with a maintainer; a maintainer past
\* its start has a queue unless it has ended.
Spawned ==
  /\ \A i \in Queues : pc[i] = "none" <=> i > made
  /\ \A t \in Queues : pc[t] \in Active => queue[t] \in 1..made
  /\ \A t \in Queues : queue[t] <= made

\* The queue in the map is served by the maintainer spawned for it.
Own == map # NoQueue =>
         \/ pc[map] = "starting"
         \/ pc[map] \in Running /\ queue[map] = map

\* A maintainer that sweeps, or has, has seen its queue out of the map.
Swept == \A t \in Queues : pc[t] \in {"sweep", "done"} /\ queue[t] # NoQueue => queue[t] # map

\* Nothing is in, or on its way into, queue i.
Vacant(i) == fifo[i] = <<>> /\ Reservations(i) = {}

\* A queue given up by a maintainer is vacant, unless a place was reserved in
\* it since.
Vacated == \A t \in Queues : pc[t] \in {"reap", "sweep", "done"} /\ queue[t] # NoQueue =>
                               Vacant(queue[t]) \/ queue[t] \in late

\* A busy producer has a message, and a queue once it has resolved it; only queues in use hold messages.
InUse ==
  /\ \A p \in Producers : /\ prod[p].pc # "idle" => prod[p].msg \in Msgs
                          /\ prod[p].pc \in {"resolved", "reserved"} => prod[p].queue \in 1..made
  /\ \A i \in Queues : i > made => fifo[i] = <<>>

\* TypeOK without the bound on a queue's places.
Shape ==
  /\ shutting \in BOOLEAN /\ map \in Queues \cup {NoQueue} /\ made \in 0..MaxQueues
  /\ map <= made /\ changed \subseteq 1..made /\ late \subseteq 1..made
  /\ fifo \in [Queues -> Seq(Msgs)]
  /\ session \subseteq 1..made
  /\ pc \in [Queues -> {"none", "starting", "wait", "check", "reap", "sweep", "done"}]
  /\ queue \in [Queues -> Queues \cup {NoQueue}]
  /\ stopping \in [Queues -> BOOLEAN]
  /\ prod \in [Producers -> [pc : {"idle", "promoting", "resolved", "reserved"},
                             queue : Queues \cup {NoQueue}, msg : Msgs \cup {NoMsg}]]
  /\ away \subseteq Msgs
Bounded == \A i \in Queues : Count(i) <= Capacity

IInv == Shape /\ Bounded /\ Spawned /\ Own /\ Swept /\ Vacated /\ InUse
-----------------------------------------------------------------------------
\* The messages and reservations of a queue are counted by natural numbers, and
\* the count is zero exactly when the queue is vacant.
LEMMA Counting ==
  ASSUME Shape, NEW i \in Queues
  PROVE  /\ IsFiniteSet(Reservations(i)) /\ Cardinality(Reservations(i)) \in Nat
         /\ Len(fifo[i]) \in Nat /\ Count(i) \in Nat
         /\ Count(i) = 0 <=> Vacant(i)
<1>1. IsFiniteSet(Reservations(i)) /\ Cardinality(Reservations(i)) \in Nat
  BY FS_Subset, FS_CardinalityType, ReadyQueueAssumption DEF Reservations
<1>2. fifo[i] \in Seq(Msgs) /\ Len(fifo[i]) \in Nat
  BY DEF Shape
<1>3. Len(fifo[i]) = 0 <=> fifo[i] = <<>>
  BY <1>2
<1>4. Cardinality(Reservations(i)) = 0 <=> Reservations(i) = {}
  BY <1>1, FS_EmptySet
<1> QED
  BY <1>1, <1>2, <1>3, <1>4 DEF Count, Vacant

\* A step that adds neither a message nor a reservation to a queue does not
\* raise its count, and leaves it vacant if it was.
LEMMA Fewer ==
  ASSUME Shape, Shape', NEW i \in Queues, Count(i) <= Capacity,
         Reservations(i)' \subseteq Reservations(i), Len(fifo'[i]) <= Len(fifo[i])
  PROVE  Count(i)' <= Capacity /\ (Vacant(i) => Vacant(i)')
<1>1. Cardinality(Reservations(i)') <= Cardinality(Reservations(i))
  BY Counting, FS_Subset
<1>2. Cardinality(Reservations(i)') \in Nat /\ Len(fifo'[i]) \in Nat
  <2>1. IsFiniteSet(Reservations(i)')
    BY Counting, FS_Subset
  <2> QED BY <2>1, FS_CardinalityType DEF Shape
<1>3. Count(i)' <= Capacity
  BY <1>1, <1>2, Counting, ReadyQueueAssumption DEF Count
<1>4. fifo[i] = <<>> => fifo'[i] = <<>>
  BY DEF Shape
<1> QED
  BY <1>3, <1>4 DEF Vacant

\* A step that touches neither the messages nor the producers leaves the count
\* of every queue alone.
LEMMA Quiet ==
  ASSUME Bounded, UNCHANGED <<fifo, prod>>
  PROVE  Bounded' /\ (\A i \in Queues : Vacant(i)' <=> Vacant(i))
BY DEF Bounded, Count, Vacant, Reservations

\* What a new queue changes: it is the next one, in the map, with a maintainer
\* about to start.
Fresh ==
  /\ made + 1 \in Queues /\ made' = made + 1 /\ map' = made + 1
  /\ pc' = [pc EXCEPT ![made + 1] = "starting"]
  /\ UNCHANGED <<shutting, changed, session, queue, stopping, fifo, late>>

\* resolve_by_queue_name's insertion in terms of the state before it.
LEMMA Creation ==
  ASSUME Shape, NewQueue
  PROVE  Fresh
BY ReadyQueueAssumption DEF Shape, NewQueue, Fresh, Queues

\* A new queue disturbs neither the other maintainers nor their queues.
LEMMA FreshKeeps ==
  ASSUME Shape, Spawned, Own, Swept, Fresh
  PROVE  Spawned' /\ Own' /\ Swept'
<1> USE ReadyQueueAssumption DEF Queues, NoQueue, Running, Active
<1>1. made \in Nat /\ made' = made + 1
  BY DEF Shape, Fresh
<1>2. Spawned'
  <2>1. ASSUME NEW i \in Queues PROVE pc'[i] = "none" <=> i > made'
    BY <1>1 DEF Shape, Spawned, Fresh
  <2>2. ASSUME NEW u \in Queues
        PROVE  (pc'[u] \in Active => queue'[u] \in 1..made') /\ queue'[u] <= made'
    <3>1. queue[u] \in Nat /\ queue'[u] = queue[u] /\ (pc'[u] = pc[u] \/ pc'[u] = "starting")
      BY DEF Shape, Fresh
    <3> QED BY <1>1, <3>1 DEF Spawned
  <2> QED BY <2>1, <2>2 DEF Spawned
<1>3. Own'
  BY DEF Shape, Own, Fresh
<1>4. Swept'
  BY DEF Shape, Spawned, Swept, Fresh
<1> QED
  BY <1>2, <1>3, <1>4

\* The steps of the maintainers and of the environment that move no message
\* keep the invariant.
LEMMA QuietSteps ==
  ASSUME IInv, NEW t \in Queues, NEW b \in BOOLEAN,
         \/ Start(t) \/ MaintainOpen(t) \/ MaintainNothing(t)
         \/ CheckReapable(t, b) \/ CheckAbort(t) \/ CheckRetire(t) \/ CheckNothing(t)
         \/ ReapRemove(t) \/ ReapGone(t) \/ ReapNot(t)
         \/ End(t) \/ Reconfigure(t) \/ Refresh(t) \/ CreateElsewhere \/ Shutdown
  PROVE  IInv'
<1> USE ReadyQueueAssumption DEF Queues, NoQueue, Running, Active
<1>1. UNCHANGED <<fifo, prod>>
  BY DEF Start, MaintainOpen, MaintainNothing, Maintained, CheckReapable, CheckAbort,
     CheckRetire,
         CheckNothing, ReapRemove, ReapGone, ReapNot, End, Reconfigure, Refresh,
         CreateElsewhere, NewQueue, Shutdown, messages, Keep
<1>2. Bounded' /\ (\A i \in Queues : Vacant(i)' <=> Vacant(i))
  BY <1>1, Quiet DEF IInv
<1>3. Shape /\ Spawned /\ Own /\ Swept /\ Vacated /\ InUse
  BY DEF IInv
<1>4. CASE Start(t)
  <2>1. Shape'
    BY <1>3, <1>4 DEF Shape, Start, To, maint, messages
  <2>2. Spawned' /\ Own' /\ Swept'
    BY <1>3, <1>4 DEF Shape, Spawned, Own, Swept, Start, To, maint, messages
  <2>3. Vacated' /\ InUse'
    BY <1>1, <1>2, <1>3, <1>4 DEF Shape, Spawned, Vacated, InUse, Start, To, maint,
       messages
  <2> QED BY <1>2, <2>1, <2>2, <2>3 DEF IInv
<1>5. CASE MaintainOpen(t)
  <2>1. Shape'
    BY <1>3, <1>5 DEF Shape, Spawned, MaintainOpen, Maintained, To, maint, messages
  <2>2. Spawned' /\ Own' /\ Swept'
    BY <1>3, <1>5 DEF Shape, Spawned, Own, Swept, MaintainOpen, Maintained, To, maint,
       messages
  <2>3. Vacated' /\ InUse'
    BY <1>1, <1>2, <1>3, <1>5 DEF Shape, Spawned, Vacated, InUse, MaintainOpen,
       Maintained, To, maint, messages
  <2> QED BY <1>2, <2>1, <2>2, <2>3 DEF IInv
<1>6. CASE MaintainNothing(t)
  <2>1. Shape'
    BY <1>3, <1>6 DEF Shape, MaintainNothing, Maintained, To, maint, messages
  <2>2. Spawned' /\ Own' /\ Swept'
    BY <1>3, <1>6 DEF Shape, Spawned, Own, Swept, MaintainNothing, Maintained, To, maint,
       messages
  <2>3. Vacated' /\ InUse'
    BY <1>1, <1>2, <1>3, <1>6 DEF Shape, Spawned, Vacated, InUse, MaintainNothing,
       Maintained, To, maint, messages
  <2> QED BY <1>2, <2>1, <2>2, <2>3 DEF IInv
<1>7. CASE CheckReapable(t, b)
  <2>1. Shape'
    BY <1>3, <1>7 DEF Shape, CheckReapable, To, Keep, maint, messages
  <2>2. Spawned' /\ Own' /\ Swept'
    BY <1>3, <1>7 DEF Shape, Spawned, Own, Swept, CheckReapable, To, Keep, maint, messages
  <2>3. Vacant(queue[t])
    <3>1. queue[t] \in Queues /\ Count(queue[t]) = 0
      BY <1>3, <1>7 DEF Spawned, Shape, CheckReapable, Reapable, Empty
    <3> QED BY <1>3, <3>1, Counting
  <2>4. Vacated' /\ InUse'
    BY <1>1, <1>2, <1>3, <1>7, <2>3 DEF Shape, Spawned, Vacated, InUse, CheckReapable,
       To, Keep, maint, messages
  <2> QED BY <1>2, <2>1, <2>2, <2>4 DEF IInv
<1>8. CASE CheckAbort(t)
  <2>1. Shape'
    BY <1>3, <1>8 DEF Shape, CheckAbort, To, maint, messages
  <2>2. Spawned' /\ Own' /\ Swept'
    BY <1>3, <1>8 DEF Shape, Spawned, Own, Swept, CheckAbort, To, maint, messages
  <2>3. Vacated' /\ InUse'
    BY <1>1, <1>2, <1>3, <1>8 DEF Shape, Spawned, Vacated, InUse, CheckAbort, To, maint,
       messages
  <2> QED BY <1>2, <2>1, <2>2, <2>3 DEF IInv
<1>9. CASE CheckRetire(t)
  <2>1. Shape'
    BY <1>3, <1>9 DEF Shape, CheckRetire, To, maint, messages
  <2>2. Spawned' /\ Own' /\ Swept'
    BY <1>3, <1>9 DEF Shape, Spawned, Own, Swept, CheckRetire, To, maint, messages
  <2>3. Vacated' /\ InUse'
    BY <1>1, <1>2, <1>3, <1>9 DEF Shape, Spawned, Vacated, InUse, CheckRetire, To, maint,
       messages
  <2> QED BY <1>2, <2>1, <2>2, <2>3 DEF IInv
<1>10. CASE CheckNothing(t)
  <2>1. Shape'
    BY <1>3, <1>10 DEF Shape, CheckNothing, To, Keep, maint, messages
  <2>2. Spawned' /\ Own' /\ Swept'
    BY <1>3, <1>10 DEF Shape, Spawned, Own, Swept, CheckNothing, To, Keep, maint, messages
  <2>3. Vacated' /\ InUse'
    BY <1>1, <1>2, <1>3, <1>10 DEF Shape, Spawned, Vacated, InUse, CheckNothing, To,
       Keep, maint, messages
  <2> QED BY <1>2, <2>1, <2>2, <2>3 DEF IInv
<1>11. CASE ReapRemove(t)
  <2>1. Shape'
    BY <1>3, <1>11 DEF Shape, ReapRemove, LeavesMap, To, maint, messages
  <2>2. Spawned' /\ Own' /\ Swept'
    BY <1>3, <1>11 DEF Shape, Spawned, Own, Swept, ReapRemove, LeavesMap, To, maint,
       messages
  <2>3. Vacated' /\ InUse'
    BY <1>1, <1>2, <1>3, <1>11 DEF Shape, Spawned, Vacated, InUse, ReapRemove, LeavesMap,
       To, maint, messages
  <2> QED BY <1>2, <2>1, <2>2, <2>3 DEF IInv
<1>12. CASE ReapGone(t)
  <2>1. Shape'
    BY <1>3, <1>12 DEF Shape, ReapGone, NameIsFree, To, Keep, maint, messages
  <2>2. Spawned' /\ Own' /\ Swept'
    BY <1>3, <1>12 DEF Shape, Spawned, Own, Swept, ReapGone, NameIsFree, To, Keep, maint,
       messages
  <2>3. Vacated' /\ InUse'
    BY <1>1, <1>2, <1>3, <1>12 DEF Shape, Spawned, Vacated, InUse, ReapGone, NameIsFree,
       To, Keep, maint, messages
  <2> QED BY <1>2, <2>1, <2>2, <2>3 DEF IInv
<1>13. CASE ReapNot(t)
  <2>1. Shape'
    BY <1>3, <1>13 DEF Shape, ReapNot, To, Keep, maint, messages
  <2>2. Spawned' /\ Own' /\ Swept'
    BY <1>3, <1>13 DEF Shape, Spawned, Own, Swept, ReapNot, To, Keep, maint, messages
  <2>3. Vacated' /\ InUse'
    BY <1>1, <1>2, <1>3, <1>13 DEF Shape, Spawned, Vacated, InUse, ReapNot, To, Keep,
       maint, messages
  <2> QED BY <1>2, <2>1, <2>2, <2>3 DEF IInv
<1>14. CASE End(t)
  <2>1. Shape'
    BY <1>3, <1>14 DEF Shape, End, maint, messages
  <2>2. Spawned' /\ Own' /\ Swept'
    BY <1>3, <1>14 DEF Shape, Spawned, Own, Swept, End, maint, messages
  <2>3. Vacated' /\ InUse'
    BY <1>1, <1>2, <1>3, <1>14 DEF Shape, Spawned, Vacated, InUse, End, maint, messages
  <2> QED BY <1>2, <2>1, <2>2, <2>3 DEF IInv
<1>15. CASE Reconfigure(t)
  <2>1. Shape'
    BY <1>3, <1>15 DEF Shape, Reconfigure, maint, messages
  <2>2. Spawned' /\ Own' /\ Swept'
    BY <1>3, <1>15 DEF Shape, Spawned, Own, Swept, Reconfigure, maint, messages
  <2>3. Vacated' /\ InUse'
    BY <1>1, <1>2, <1>3, <1>15 DEF Shape, Spawned, Vacated, InUse, Reconfigure, maint,
       messages
  <2> QED BY <1>2, <2>1, <2>2, <2>3 DEF IInv
<1>16. CASE Refresh(t)
  <2>1. Shape'
    BY <1>3, <1>16 DEF Shape, Refresh, maint, messages
  <2>2. Spawned' /\ Own' /\ Swept'
    BY <1>3, <1>16 DEF Shape, Spawned, Own, Swept, Refresh, maint, messages
  <2>3. Vacated' /\ InUse'
    BY <1>1, <1>2, <1>3, <1>16 DEF Shape, Spawned, Vacated, InUse, Refresh, maint,
       messages
  <2> QED BY <1>2, <2>1, <2>2, <2>3 DEF IInv
<1>17. CASE CreateElsewhere
  <2>1. Fresh
    BY <1>3, <1>17, Creation DEF CreateElsewhere
  <2>2. Shape'
    BY <1>1, <1>3, <1>17, <2>1 DEF Shape, Fresh, CreateElsewhere
  <2>3. Spawned' /\ Own' /\ Swept'
    BY <1>3, <2>1, FreshKeeps
  <2>4. Vacated'
    BY <1>2, <1>3, <2>1 DEF Shape, Vacated, Fresh
  <2>5. InUse'
    <3>1. made \in Nat /\ made' = made + 1
      BY <1>3, <2>1 DEF Shape, Fresh
    <3>2. ASSUME NEW p \in Producers
          PROVE  /\ prod[p].pc # "idle" => prod[p].msg \in Msgs
                 /\ prod[p].pc \in {"resolved", "reserved"} => prod[p].queue \in 1..made'
      BY <1>3, <3>1, <3>2 DEF InUse
    <3> QED BY <1>1, <1>3, <3>1, <3>2 DEF InUse
  <2> QED BY <1>2, <2>2, <2>3, <2>4, <2>5 DEF IInv
<1>18. CASE Shutdown
  <2>1. Shape'
    BY <1>3, <1>18 DEF Shape, Shutdown, maint, messages
  <2>2. Spawned' /\ Own' /\ Swept'
    BY <1>3, <1>18 DEF Shape, Spawned, Own, Swept, Shutdown, maint, messages
  <2>3. Vacated' /\ InUse'
    BY <1>1, <1>2, <1>3, <1>18 DEF Shape, Spawned, Vacated, InUse, Shutdown, maint,
       messages
  <2> QED BY <1>2, <2>1, <2>2, <2>3 DEF IInv
<1> QED
  BY <1>4, <1>5, <1>6, <1>7, <1>8, <1>9, <1>10, <1>11, <1>12, <1>13, <1>14, <1>15, <1>16,
     <1>17, <1>18

\* The steps that take messages out of a queue keep the invariant.
LEMMA RemovingSteps ==
  ASSUME IInv, NEW t \in Queues, NEW b \in BOOLEAN,
         MaintainSave(t) \/ MaintainReturn(t, b) \/ Sweep(t) \/ Take(t) \/ Drop(t)
  PROVE  IInv'
<1> USE ReadyQueueAssumption DEF Queues, NoQueue, Running, Active
<1>1. Shape /\ Bounded /\ Spawned /\ Own /\ Swept /\ Vacated /\ InUse
  BY DEF IInv
<1>2. PICK q \in Queues :
        /\ \/ fifo' = [fifo EXCEPT ![q] = <<>>]
           \/ fifo[q] # <<>> /\ fifo' = [fifo EXCEPT ![q] = Tail(@)]
        /\ away' \subseteq Msgs
        /\ UNCHANGED <<prod, map, made, late, changed, session, queue>>
        /\ fifo[q] \in Seq(Msgs)
  <2>1. pc[t] \in Active => queue[t] \in Queues
    BY <1>1 DEF Spawned, Shape
  <2>2. ASSUME NEW q \in Queues PROVE fifo[q] \in Seq(Msgs) /\ ToSet(fifo[q]) \subseteq Msgs
                                     /\ (fifo[q] # <<>> => Head(fifo[q]) \in Msgs)
    <3>1. fifo[q] \in Seq(Msgs)
      BY <1>1 DEF Shape
    <3> QED BY <3>1 DEF ToSet
  <2>3. away \subseteq Msgs
    BY <1>1 DEF Shape
  <2>4. CASE MaintainSave(t) \/ MaintainReturn(t, b) \/ Sweep(t)
    BY <2>1, <2>2, <2>3, <2>4 DEF MaintainSave, MaintainReturn, Sweep, Maintained, Return
  <2>5. CASE Take(t) \/ Drop(t)
    BY <2>2, <2>3, <2>5 DEF Take, Drop, maint
  <2> QED BY <2>4, <2>5
<1>3. /\ shutting' \in BOOLEAN /\ stopping' \in [Queues -> BOOLEAN]
      /\ pc' = pc \/ \/ pc[t] = "wait" /\ pc' = [pc EXCEPT ![t] = "check"]
                     \/ pc[t] = "sweep" /\ pc' = [pc EXCEPT ![t] = "done"]
  <2>1. CASE MaintainSave(t) \/ MaintainReturn(t, b)
    <3>1. pc[t] = "wait" /\ pc' = [pc EXCEPT ![t] = "check"] /\ shutting' = shutting
      BY <2>1 DEF MaintainSave, MaintainReturn, Maintained, To
    <3>2. stopping' = [stopping EXCEPT ![t] = stopping[t] \/ shutting]
      BY <2>1 DEF MaintainSave, MaintainReturn, Maintained
    <3> QED BY <1>1, <3>1, <3>2 DEF Shape
  <2>2. CASE Sweep(t)
    BY <1>1, <2>2 DEF Shape, Sweep, To
  <2>3. CASE Take(t) \/ Drop(t)
    BY <1>1, <2>3 DEF Shape, Take, Drop, maint
  <2> QED BY <2>1, <2>2, <2>3
<1>4. Shape'
  <2>1. fifo' \in [Queues -> Seq(Msgs)]
    <3>1. <<>> \in Seq(Msgs) /\ (fifo[q] # <<>> => Tail(fifo[q]) \in Seq(Msgs))
      BY <1>2
    <3>2. CASE fifo' = [fifo EXCEPT ![q] = <<>>]
      BY <1>1, <3>1, <3>2 DEF Shape
    <3>3. CASE fifo[q] # <<>> /\ fifo' = [fifo EXCEPT ![q] = Tail(@)]
      BY <1>1, <3>1, <3>3 DEF Shape
    <3> QED BY <1>2, <3>2, <3>3
  <2> QED BY <1>1, <1>2, <1>3, <2>1 DEF Shape
<1>5. ASSUME NEW i \in Queues PROVE Count(i)' <= Capacity /\ (Vacant(i) => Vacant(i)')
  <2>1. Len(fifo'[i]) <= Len(fifo[i])
    <3>1. fifo[i] \in Seq(Msgs) /\ Len(fifo[i]) \in Nat
      BY <1>1 DEF Shape
    <3>2. \/ fifo'[i] = fifo[i] \/ fifo'[i] = <<>>
          \/ fifo[i] # <<>> /\ fifo'[i] = Tail(fifo[i])
      BY <1>1, <1>2 DEF Shape
    <3>3. CASE fifo[i] # <<>> /\ fifo'[i] = Tail(fifo[i])
      BY <3>1, <3>3
    <3> QED BY <3>1, <3>2, <3>3
  <2>2. Reservations(i)' = Reservations(i)
    BY <1>2 DEF Reservations
  <2> QED BY <1>1, <1>4, <2>1, <2>2, Fewer DEF Bounded
<1>6. Spawned' /\ Own' /\ Swept'
  <2>1. Spawned'
    BY <1>1, <1>2, <1>3 DEF Shape, Spawned
  <2>2. Own'
    BY <1>1, <1>2, <1>3 DEF Shape, Own
  <2>3. Swept'
    BY <1>1, <1>2, <1>3 DEF Shape, Swept
  <2> QED BY <2>1, <2>2, <2>3
<1>7. Vacated'
  BY <1>1, <1>2, <1>3, <1>5 DEF Shape, Vacated
<1>8. InUse'
  BY <1>1, <1>2 DEF Shape, InUse
<1> QED
  BY <1>4, <1>5, <1>6, <1>7, <1>8 DEF IInv, Bounded

\* The steps of the producers that give up or have only found the queue keep
\* the invariant.
LEMMA IdleSteps ==
  ASSUME IInv, NEW p \in Producers, NEW m \in Msgs,
         Promote(p, m) \/ Find(p) \/ Create(p) \/ NoActivity(p) \/ Full(p) \/ Throttled(p)
  PROVE  IInv'
<1> USE ReadyQueueAssumption DEF Queues, NoQueue, Running, Active
<1>1. Shape /\ Bounded /\ Spawned /\ Own /\ Swept /\ Vacated /\ InUse
  BY DEF IInv
<1>2. PICK s : /\ prod' = [prod EXCEPT ![p] = s]
               /\ s \in [pc : {"idle", "promoting", "resolved"}, queue : Queues \cup {NoQueue},
                         msg : Msgs \cup {NoMsg}]
               /\ s.pc # "idle" => s.msg \in Msgs
               /\ s.pc = "resolved" => s.queue \in 1..made'
  <2>1. CASE Find(p)
    <3> DEFINE s == [pc |-> "resolved", queue |-> map, msg |-> prod[p].msg]
    <3>1. prod' = [prod EXCEPT ![p] = s] /\ map \in 1..made /\ made' = made /\ prod[p].msg \in Msgs
      BY <1>1, <2>1 DEF Find, Set, Shape, InUse
    <3>2. s.pc = "resolved" /\ s.queue = map /\ s.msg = prod[p].msg
      OBVIOUS
    <3>3. s \in [pc : {"idle", "promoting", "resolved"}, queue : Queues \cup {NoQueue},
                 msg : Msgs \cup {NoMsg}]
      BY <1>1, <3>1 DEF Shape
    <3> HIDE DEF s
    <3> QED BY <3>1, <3>2, <3>3
  <2>2. CASE Create(p)
    <3> DEFINE s == [pc |-> "resolved", queue |-> made + 1, msg |-> prod[p].msg]
    <3>1. Fresh /\ made \in Nat /\ prod[p].msg \in Msgs
      BY <1>1, <2>2, Creation DEF Create, Shape, InUse
    <3>2. prod' = [prod EXCEPT ![p] = s] /\ made + 1 \in 1..made'
      BY <2>2, <3>1 DEF Create, Set, Fresh
    <3>3. s.pc = "resolved" /\ s.queue = made + 1 /\ s.msg = prod[p].msg
      OBVIOUS
    <3>4. s \in [pc : {"idle", "promoting", "resolved"}, queue : Queues \cup {NoQueue},
                 msg : Msgs \cup {NoMsg}]
      BY <3>1 DEF Fresh
    <3> HIDE DEF s
    <3> QED BY <3>1, <3>2, <3>3, <3>4
  <2>3. CASE NoActivity(p) \/ Full(p) \/ Throttled(p)
    BY <2>3 DEF NoActivity, Full, Throttled, GiveUp, Set, Idle
  <2>4. CASE Promote(p, m)
    <3> DEFINE s == [pc |-> "promoting", queue |-> NoQueue, msg |-> m]
    <3>1. prod' = [prod EXCEPT ![p] = s]
      BY <2>4 DEF Promote, Set
    <3>2. /\ s.pc = "promoting" /\ s.msg = m
          /\ s \in [pc : {"idle", "promoting", "resolved"}, queue : Queues \cup {NoQueue},
                    msg : Msgs \cup {NoMsg}]
      OBVIOUS
    <3> HIDE DEF s
    <3> QED BY <3>1, <3>2
  <2> QED BY <2>1, <2>2, <2>3, <2>4
<1>3. /\ fifo' = fifo /\ late' = late /\ queue' = queue
      /\ made \in Nat /\ made' \in Nat /\ made <= made'
  BY <1>1, Creation DEF Promote, Find, Create, NoActivity, Full, Throttled, Fresh, Shape, maint, messages
<1>4. away' \subseteq Msgs
  BY <1>1 DEF Promote, Find, Create, NoActivity, Full, Throttled, GiveUp, Shape, InUse, messages
<1>5. /\ UNCHANGED <<shutting, changed, session, stopping>>
      /\ (UNCHANGED <<map, made, pc>>) \/ Fresh
  BY <1>1, Creation DEF Promote, Find, Create, NoActivity, Full, Throttled, NewQueue, maint
<1>6. Shape'
  <2>1. prod' \in [Producers -> [pc : {"idle", "promoting", "resolved", "reserved"},
                                queue : Queues \cup {NoQueue}, msg : Msgs \cup {NoMsg}]]
    BY <1>1, <1>2 DEF Shape
  <2>2. CASE UNCHANGED <<map, made, pc>>
    BY <1>1, <1>3, <1>4, <1>5, <2>1, <2>2 DEF Shape
  <2>3. CASE Fresh
    BY <1>1, <1>3, <1>4, <1>5, <2>1, <2>3 DEF Shape, Fresh
  <2> QED BY <1>5, <2>2, <2>3
<1>7. ASSUME NEW i \in Queues PROVE Count(i)' <= Capacity /\ (Vacant(i) => Vacant(i)')
  <2>1. Reservations(i)' \subseteq Reservations(i)
    <3>1. s.pc # "reserved"
      BY <1>2
    <3> QED BY <1>1, <1>2, <3>1 DEF Reservations, Shape
  <2>2. Len(fifo'[i]) <= Len(fifo[i])
    BY <1>1, <1>3, Counting
  <2> QED BY <1>1, <1>6, <2>1, <2>2, Fewer DEF Bounded
<1>8. Spawned' /\ Own' /\ Swept'
  <2>1. CASE UNCHANGED <<map, made, pc>>
    BY <1>1, <1>3, <2>1 DEF Spawned, Own, Swept
  <2> QED BY <1>1, <1>5, <2>1, FreshKeeps
<1>9. Vacated'
  BY <1>1, <1>3, <1>5, <1>7 DEF Shape, Vacated, Fresh
<1>10. InUse'
  <2>1. ASSUME NEW x \in Producers
        PROVE  /\ prod'[x].pc # "idle" => prod'[x].msg \in Msgs
               /\ prod'[x].pc \in {"resolved", "reserved"} => prod'[x].queue \in 1..made'
    BY <1>1, <1>2, <1>3, <2>1 DEF InUse, Shape
  <2> QED BY <1>1, <1>3, <2>1 DEF InUse
<1> QED
  BY <1>6, <1>7, <1>8, <1>9, <1>10 DEF IInv, Bounded

\* A reservation and its redemption keep the invariant: a place reserved in a
\* queue that a maintainer has given up is recorded as late.
LEMMA ReservingSteps ==
  ASSUME IInv, NEW p \in Producers, Reserve(p) \/ Redeem(p)
  PROVE  IInv'
<1> USE ReadyQueueAssumption DEF Queues, NoQueue, Running, Active
<1>1. Shape /\ Bounded /\ Spawned /\ Own /\ Swept /\ Vacated /\ InUse
  BY DEF IInv
<1>2. PICK q \in 1..made : q = prod[p].queue /\ prod[p].msg \in Msgs /\ q \in Queues
  BY <1>1 DEF Reserve, Redeem, InUse, Shape
<1>3. UNCHANGED <<shutting, map, made, changed, session, pc, queue, stopping, away>>
  BY DEF Reserve, Redeem, maint, messages
<1>4. CASE Reserve(p)
  <2>1. /\ prod' = [prod EXCEPT ![p] = [prod[p] EXCEPT !.pc = "reserved"]]
        /\ fifo' = fifo /\ p \notin Reservations(q) /\ Count(q) < Capacity
        /\ late' = late \cup {i \in {q} : GivenUp(i)}
    BY <1>2, <1>4 DEF Reserve, Set, HasRoom, messages, Reservations
  <2>2. Shape'
    <3>1. late' \subseteq 1..made
      BY <1>1, <1>2, <2>1 DEF Shape
    <3>2. [prod[p] EXCEPT !.pc = "reserved"] \in
            [pc : {"idle", "promoting", "resolved", "reserved"}, queue : Queues \cup {NoQueue},
             msg : Msgs \cup {NoMsg}]
      <4>1. prod[p] \in [pc : {"idle", "promoting", "resolved", "reserved"}, queue : Queues \cup {NoQueue},
                        msg : Msgs \cup {NoMsg}]
        BY <1>1 DEF Shape
      <4> QED BY <4>1
    <3>3. prod' \in [Producers -> [pc : {"idle", "promoting", "resolved", "reserved"},
                                  queue : Queues \cup {NoQueue}, msg : Msgs \cup {NoMsg}]]
      BY <1>1, <2>1, <3>2 DEF Shape
    <3> QED BY <1>1, <1>3, <2>1, <3>1, <3>3 DEF Shape
  <2>3. ASSUME NEW i \in Queues, i # q PROVE Count(i)' = Count(i) /\ (Vacant(i)' <=> Vacant(i))
    <3>1. Reservations(i)' = Reservations(i)
      BY <1>1, <1>2, <2>1, <2>3 DEF Reservations, Shape
    <3> QED BY <2>1, <3>1 DEF Count, Vacant
  <2>4. Count(q)' <= Capacity
    <3>1. Reservations(q)' = Reservations(q) \cup {p}
      BY <1>1, <1>2, <2>1 DEF Reservations, Shape
    <3>2. Cardinality(Reservations(q)') = Cardinality(Reservations(q)) + 1
      <4>1. IsFiniteSet(Reservations(q))
        BY <1>1, <1>2, Counting
      <4> QED BY <2>1, <3>1, <4>1, FS_AddElement
    <3>3. Cardinality(Reservations(q)) \in Nat /\ Len(fifo[q]) \in Nat
      BY <1>1, <1>2, Counting
    <3> QED BY <2>1, <3>2, <3>3 DEF Count
  <2>5. Vacated'
    <3>1. ASSUME NEW t \in Queues, pc[t] \in {"reap", "sweep", "done"}, queue[t] = q
          PROVE  GivenUp(q)
      BY <1>1, <1>2, <3>1 DEF Swept, GivenUp
    <3> QED BY <1>1, <1>2, <1>3, <2>1, <2>3, <3>1 DEF Vacated, Shape
  <2>6. Spawned' /\ Own' /\ Swept' /\ InUse'
    BY <1>1, <1>2, <1>3, <2>1 DEF Spawned, Own, Swept, InUse, Shape
  <2> QED BY <1>1, <2>2, <2>3, <2>4, <2>5, <2>6 DEF IInv, Bounded
<1>5. CASE Redeem(p)
  <2>1. /\ prod' = [prod EXCEPT ![p] = Idle] /\ late' = late /\ p \in Reservations(q)
        /\ fifo' = [fifo EXCEPT ![q] = Append(fifo[q], prod[p].msg)]
    BY <1>2, <1>5 DEF Redeem, Set, Reservations
  <2>2. Shape'
    <3>1. fifo' \in [Queues -> Seq(Msgs)]
      BY <1>1, <1>2, <2>1 DEF Shape
    <3> QED BY <1>1, <1>3, <2>1, <3>1 DEF Shape, Idle
  <2>3. ASSUME NEW i \in Queues, i # q PROVE Count(i)' = Count(i) /\ (Vacant(i)' <=> Vacant(i))
    <3>1. Reservations(i)' = Reservations(i)
      BY <1>1, <1>2, <2>1, <2>3 DEF Reservations, Shape, Idle
    <3>2. fifo'[i] = fifo[i]
      BY <1>1, <2>1, <2>3 DEF Shape
    <3> QED BY <3>1, <3>2 DEF Count, Vacant
  <2>4. Count(q)' <= Capacity
    <3>1. Reservations(q)' = Reservations(q) \ {p}
      BY <1>1, <1>2, <2>1 DEF Reservations, Shape, Idle
    <3>2. Cardinality(Reservations(q)') = Cardinality(Reservations(q)) - 1
      <4>1. IsFiniteSet(Reservations(q))
        BY <1>1, <1>2, Counting
      <4> QED BY <2>1, <3>1, <4>1, FS_RemoveElement
    <3>3. Len(fifo'[q]) = Len(fifo[q]) + 1
      BY <1>1, <1>2, <2>1 DEF Shape
    <3>4. Cardinality(Reservations(q)) \in Nat /\ Len(fifo[q]) \in Nat
      BY <1>1, <1>2, Counting
    <3>5. Count(q)' = Count(q)
      BY <3>2, <3>3, <3>4 DEF Count
    <3> QED BY <1>1, <1>2, <3>5 DEF Bounded
  <2>5. Vacated'
    <3>1. ~Vacant(q)
      BY <2>1 DEF Vacant
    <3> QED BY <1>1, <1>2, <1>3, <2>1, <2>3, <3>1 DEF Vacated, Shape
  <2>6. Spawned' /\ Own' /\ Swept'
    BY <1>1, <1>3 DEF Spawned, Own, Swept
  <2>7. InUse'
    <3>1. ASSUME NEW x \in Producers
          PROVE  /\ prod'[x].pc # "idle" => prod'[x].msg \in Msgs
                 /\ prod'[x].pc \in {"resolved", "reserved"} => prod'[x].queue \in 1..made
      BY <1>1, <2>1, <3>1 DEF InUse, Shape, Idle
    <3>2. ASSUME NEW i \in Queues, i > made PROVE fifo'[i] = <<>>
      <4>1. i # q
        BY <1>1, <1>2, <3>2 DEF Shape
      <4> QED BY <1>1, <2>1, <3>2, <4>1 DEF InUse, Shape
    <3> QED BY <1>3, <3>1, <3>2 DEF InUse
  <2> QED BY <1>1, <2>2, <2>3, <2>4, <2>5, <2>6, <2>7 DEF IInv, Bounded
<1> QED
  BY <1>4, <1>5

-----------------------------------------------------------------------------
\* The manager starts with no queue.
LEMMA Initially == Init => IInv
<1> SUFFICES ASSUME Init PROVE IInv
  OBVIOUS
<1> USE ReadyQueueAssumption DEF Init, Queues, NoQueue, Running, Active
<1>1. Shape
  <2>1. fifo \in [Queues -> Seq(Msgs)]
    <3>1. <<>> \in Seq(Msgs)
      OBVIOUS
    <3> QED BY <3>1
  <2>2. Idle \in [pc : {"idle", "promoting", "resolved", "reserved"}, queue : Queues \cup {NoQueue},
                 msg : Msgs \cup {NoMsg}]
    BY DEF Idle
  <2>3. /\ map \in Queues \cup {NoQueue} /\ made \in 0..MaxQueues
        /\ map <= made /\ changed \subseteq 1..made /\ late \subseteq 1..made
        /\ session \subseteq 1..made /\ away \subseteq Msgs
    OBVIOUS
  <2>4. /\ pc \in [Queues -> {"none", "starting", "wait", "check", "reap", "sweep", "done"}]
        /\ queue \in [Queues -> Queues \cup {NoQueue}]
        /\ stopping \in [Queues -> BOOLEAN]
    OBVIOUS
  <2>5. prod \in [Producers -> [pc : {"idle", "promoting", "resolved", "reserved"},
                               queue : Queues \cup {NoQueue}, msg : Msgs \cup {NoMsg}]]
    BY <2>2
  <2>6. shutting \in BOOLEAN
    OBVIOUS
  <2> QED BY <2>1, <2>3, <2>4, <2>5, <2>6 DEF Shape
<1>2. \A i \in Queues : fifo[i] = <<>> /\ Reservations(i) = {}
  BY DEF Reservations, Idle
<1>3. Bounded
  <2>1. ASSUME NEW i \in Queues PROVE Count(i) = 0
    BY <1>1, <1>2, Counting DEF Vacant
  <2> QED BY <2>1 DEF Bounded
<1>4. Spawned /\ Own /\ Swept /\ Vacated /\ InUse
  BY DEF Spawned, Own, Swept, Vacated, InUse, Idle
<1> QED
  BY <1>1, <1>3, <1>4 DEF IInv

\* IInv is inductive.
LEMMA Inductive == IInv /\ [Next]_vars => IInv'
<1> SUFFICES ASSUME IInv, [Next]_vars PROVE IInv'
  OBVIOUS
<1>1. ASSUME NEW p \in Producers, Produce(p) PROVE IInv'
  <2>1. CASE Reserve(p) \/ Redeem(p)
    BY <2>1, ReservingSteps
  <2>2. CASE Find(p) \/ Create(p) \/ NoActivity(p) \/ Full(p) \/ Throttled(p)
    <3>1. prod[p].msg \in Msgs
      BY <2>2 DEF IInv, InUse, Find, Create, NoActivity, Full, Throttled
    <3> QED BY <2>2, <3>1, IdleSteps
  <2> QED BY <1>1, <2>1, <2>2 DEF Produce
<1>2. ASSUME NEW p \in Producers, NEW m \in Msgs, Promote(p, m) PROVE IInv'
  BY <1>2, IdleSteps
<1>3. ASSUME NEW t \in Queues, Maintainer(t) PROVE IInv'
  <2>1. PICK b \in BOOLEAN :
          \/ MaintainSave(t) \/ MaintainReturn(t, b) \/ Sweep(t)
          \/ Start(t) \/ MaintainOpen(t) \/ MaintainNothing(t) \/ CheckReapable(t, b)
          \/ CheckAbort(t) \/ CheckRetire(t) \/ CheckNothing(t)
          \/ ReapRemove(t) \/ ReapGone(t) \/ ReapNot(t)
    BY <1>3, Zenon DEF Maintainer
  <2>2. CASE MaintainSave(t) \/ MaintainReturn(t, b) \/ Sweep(t)
    BY <2>2, RemovingSteps
  <2> QED BY <2>1, <2>2, QuietSteps
<1>4. ASSUME NEW i \in Queues, Take(i) \/ Drop(i) PROVE IInv'
  BY <1>4, RemovingSteps
<1>5. ASSUME NEW i \in Queues, End(i) \/ Reconfigure(i) \/ Refresh(i) PROVE IInv'
  BY <1>5, QuietSteps
<1>6. CASE CreateElsewhere \/ Shutdown
  <2>1. CASE Queues # {}
    BY <1>6, <2>1, QuietSteps
  <2>2. CASE Queues = {} /\ CreateElsewhere
    BY <2>2, Creation DEF IInv, CreateElsewhere, Fresh
  <2>3. CASE Queues = {} /\ Shutdown
    BY <2>3 DEF IInv, Shape, Bounded, Spawned, Own, Swept, Vacated, InUse, Shutdown,
       maint, messages
  <2> QED BY <1>6, <2>1, <2>2, <2>3
<1>7. CASE UNCHANGED vars
  <2>1. UNCHANGED <<fifo, prod>>
    BY <1>7 DEF vars, messages
  <2>2. Bounded' /\ (\A i \in Queues : Vacant(i)' <=> Vacant(i))
    BY <2>1, Quiet DEF IInv
  <2>3. Shape' /\ Spawned' /\ Own' /\ Swept' /\ InUse'
    BY <1>7 DEF IInv, vars, maint, messages, Shape, Spawned, Own, Swept, InUse
  <2>4. Vacated'
    BY <1>7, <2>2 DEF IInv, Shape, Vacated, vars, maint
  <2> QED BY <2>2, <2>3, <2>4 DEF IInv
<1> QED
  BY <1>1, <1>2, <1>3, <1>4, <1>5, <1>6, <1>7 DEF Next

\* IInv holds in every state of every behaviour.
LEMMA Invariance == Spec => []IInv
BY Initially, Inductive, PTL DEF Spec

\* No sequence of creations, reservations, reaping and replacement takes the
\* state out of its types, and no queue ever has more than max_ready messages
\* and reservations.
THEOREM ReadyQueueTypes == Spec => []TypeOK
<1>1. IInv => TypeOK
  BY DEF IInv, Shape, Bounded, TypeOK
<1> QED
  BY <1>1, Invariance, PTL

\* The queue that insertions find by name always has a maintainer.
THEOREM TheCanonicalQueueIsServed == Spec => []CanonicalIsServed
<1>1. IInv => CanonicalIsServed
  BY DEF IInv, Shape, Own, Running, CanonicalIsServed, Served, Serves
<1> QED
  BY <1>1, Invariance, PTL

\* Reaping strands no message whose place was reserved in time.
THEOREM NoQueueIsAbandoned == Spec => []Sheltered
<1>1. IInv => Sheltered
  <2> SUFFICES ASSUME IInv, NEW i \in Queues, fifo[i] # <<>>, pc[i] # "starting",
                      i \notin late, ~Misled(i)
               PROVE  Served(i)
    BY DEF Sheltered
  <2>1. i <= made
    BY ReadyQueueAssumption DEF IInv, InUse, Shape, Queues
  <2>2. pc[i] # "none"
    BY <2>1, ReadyQueueAssumption DEF IInv, Spawned, Shape, Queues
  <2>3. queue[i] = i
    BY <2>2 DEF Misled
  <2>4. pc[i] # "done"
    BY <2>3, ReadyQueueAssumption DEF IInv, Vacated, Vacant, Queues, NoQueue
  <2> QED BY <2>2, <2>3, <2>4 DEF Served, Serves
<1> QED
  BY <1>1, Invariance, PTL
=============================================================================
