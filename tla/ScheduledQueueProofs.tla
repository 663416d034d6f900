------------------------ MODULE ScheduledQueueProofs ------------------------
(***************************************************************************)
(* Theorems about ScheduledQueue for every set of messages, queues and     *)
(* batches, and every bound on the clock and the timers.                   *)
(***************************************************************************)
EXTENDS ScheduledQueue, TLAPS

\* insert_ready works for the one owner of its message.
Calls ==
  \A c \in calling : /\ out[c.msg] = 1
                     /\ \A d \in calling : d.msg = c.msg => d = c

\* With a strategy of its own timer, the maintainer owns what it has popped.
Held ==
  ~Singleton =>
    \A b \in Batches : \A i \in batch[b].items :
      /\ out[i.msg] = 1
      /\ \A c \in calling : c.msg # i.msg
      /\ \A d \in Batches : \A j \in batch[d].items : j.msg = i.msg => d = b /\ j = i

\* With version 2, what the wheel has returned stays in its queue, out of
\* reach of a drain and without a second entry, until its batch gets to it.
InFlight ==
  strategy = V2 =>
    \A b \in Batches : \A i \in batch[b].items :
      /\ i.msg \in q[i.queue]
      /\ \A e \in wheel : e.msg # i.msg
      /\ \A d \in Batches : \A j \in batch[d].items : j.msg = i.msg => d = b /\ j = i

\* A batch sleeps until the last of its messages is due.
Waits ==
  strategy # V1 =>
    \A b \in Batches : batch[b].phase = "asleep" =>
      \A i \in batch[b].items : due[i.msg] <= batch[b].wake

\* The inductive invariant.
IInv == TypeOK /\ OneOwner /\ Calls /\ Held /\ InFlight

----------------------------------------------------------------------------
\* What the initial state and the steps below need of the types.
LEMMA InitIInv == Init => IInv
<1> SUFFICES ASSUME Init PROVE IInv
  OBVIOUS
<1>1. TypeOK
  <2>1. 0 \in 0..MaxTime /\ FALSE \in BOOLEAN
    BY SQBoundsAssumption
  <2>2. NoBatch \in [phase : {"free", "spawned", "asleep"}, items : SUBSET Items,
                     wake : 0..MaxTime]
    BY <2>1 DEF NoBatch
  <2>. QED
    BY <2>1, <2>2 DEF Init, TypeOK
<1>2. OneOwner
  BY DEF Init, OneOwner
<1>3. Calls /\ Held /\ InFlight
  BY DEF Init, Calls, Held, InFlight, NoBatch
<1>. QED
  BY <1>1, <1>2, <1>3 DEF IInv

\* A message that its owner puts into a queue has an entry and no owner from
\* then on.
LEMMA StoredStep ==
  ASSUME IInv,
         NEW m \in Msgs, NEW s \in Queues, NEW d \in 1..MaxTime, Stored(m, s, d),
         out[m] > 0,
         calling' \subseteq calling, \A c \in calling' : c.msg # m,
         ~Singleton => \A b \in Batches : \A i \in batch[b].items : i.msg # m,
         UNCHANGED <<strategy, now, batch, failed, ended, shutting>>
  PROVE  IInv'
<1>0. TypeOK /\ OneOwner /\ Calls /\ Held /\ InFlight
  BY DEF IInv
<1>1. /\ out[m] = 1
      /\ \A u \in Queues : m \notin q[u]
      /\ d \in 0..MaxTime
  BY <1>0, SQBoundsAssumption DEF TypeOK, OneOwner
<1>2. \A n \in Msgs : out'[n] = IF n = m THEN 0 ELSE out[n]
  BY <1>0, <1>1 DEF Stored, TypeOK
<1>3. \A u \in Queues, n \in Msgs :
        n \in q'[u] <=> IF u = s THEN n = m \/ (n \in q[s] /\ n \notin Displaced(s, d)) ELSE n \in q[u]
  BY <1>0 DEF Stored, TypeOK
<1>4. \A n \in Msgs : due'[n] = IF n = m THEN d ELSE due[n]
  BY <1>0 DEF Stored, TypeOK
<1>5. \A e \in wheel' : \/ e = [msg |-> m, queue |-> s, at |-> d]
                        \/ e \in wheel /\ ~(e.queue = s /\ e.msg \in Displaced(s, d))
  BY DEF Stored
<1>6. strategy # V1 => \A e \in wheel : e.msg # m
  BY <1>0, <1>1 DEF TypeOK, Entries
<1>7. TypeOK'
  <2>1. /\ strategy' \in Strategies /\ now' \in 0..MaxTime /\ failed' \subseteq Msgs
        /\ shutting' \in BOOLEAN /\ calling' \subseteq Items /\ ended' \subseteq Queues
    BY <1>0 DEF TypeOK
  <2>2. batch' \in [Batches -> [phase : {"free", "spawned", "asleep"}, items : SUBSET Items,
                                wake : 0..MaxTime]]
    BY <1>0 DEF TypeOK
  <2>3. due' \in [Msgs -> 0..MaxTime] /\ q' \in [Queues -> SUBSET Msgs]
    BY <1>0, <1>1 DEF TypeOK, Stored
  <2>4. wheel' \subseteq Entries
    BY <1>0, <1>1, <1>5 DEF TypeOK, Entries
  <2>5. out' \in [Msgs -> Nat]
    BY <1>0, <1>1 DEF TypeOK, Stored
  <2>6. strategy # V1 => \A e \in wheel' : e.msg \in q'[e.queue] /\ e.at = due'[e.msg]
    BY <1>0, <1>3, <1>4, <1>5, <1>6 DEF TypeOK, Entries
  <2>7. strategy # V1 => \A e, f \in wheel' : e.msg = f.msg => e = f
    BY <1>0, <1>5, <1>6 DEF TypeOK
  <2>. QED
    BY <2>1, <2>2, <2>3, <2>4, <2>5, <2>6, <2>7 DEF TypeOK
<1>8. OneOwner'
  BY <1>0, <1>1, <1>2, <1>3 DEF OneOwner
<1>9. Calls'
  BY <1>0, <1>2 DEF Calls, TypeOK, Items
<1>10. Held'
  BY <1>0, <1>2 DEF Held, Singleton, TypeOK, Items
<1>11. InFlight'
  <2> SUFFICES ASSUME strategy = V2 PROVE InFlight'
    BY DEF InFlight
  <2>1. Displaced(s, d) = {}
    BY DEF Displaced, V2
  <2>. QED
    BY <1>0, <1>1, <1>3, <1>5, <2>1 DEF InFlight, TypeOK, Items, V1, V2
<1>. QED
  BY <1>7, <1>8, <1>9, <1>10, <1>11 DEF IInv

----------------------------------------------------------------------------
(* The steps *)

LEMMA InsertStep ==
  ASSUME IInv, NEW m \in Msgs, NEW s \in Queues, NEW d \in 1..MaxTime, Insert(m, s, d)
  PROVE  IInv'
BY StoredStep DEF Insert, Elsewhere

LEMMA ForceIntoDelayedStep ==
  ASSUME IInv, NEW c \in calling, NEW d \in 1..MaxTime, ForceIntoDelayed(c, d)
  PROVE  IInv'
<1>1. c.msg \in Msgs /\ c.queue \in Queues /\ out[c.msg] = 1
  BY DEF IInv, TypeOK, Calls, Items
<1>2. /\ calling' \subseteq calling
      /\ \A k \in calling' : k.msg # c.msg
  BY DEF IInv, Calls, ForceIntoDelayed
<1>3. ~Singleton => \A b \in Batches : \A i \in batch[b].items : i.msg # c.msg
  BY DEF IInv, Held
<1>. QED
  BY <1>1, <1>2, <1>3, StoredStep DEF ForceIntoDelayed

\* The owner lets go of its message, and nothing else names it as owned.
LEMMA DisposeStep ==
  ASSUME IInv, NEW m \in Msgs, Dispose(m)
  PROVE  IInv'
<1>0. TypeOK /\ OneOwner /\ Calls /\ Held /\ InFlight
  BY DEF IInv
<1>1. out[m] = 1 /\ out' \in [Msgs -> Nat]
  BY <1>0 DEF TypeOK, OneOwner, Dispose, Elsewhere
<1>2. \A n \in Msgs : out'[n] = IF n = m THEN 0 ELSE out[n]
  BY <1>0, <1>1 DEF Dispose, TypeOK
<1>3. TypeOK'
  BY <1>0, <1>1 DEF TypeOK, Dispose, Entries, Items
<1>4. OneOwner'
  BY <1>0, <1>2 DEF OneOwner, Dispose
<1>5. Calls'
  BY <1>0, <1>2 DEF Calls, Dispose, Elsewhere, TypeOK, Items
<1>6. Held'
  BY <1>0, <1>2 DEF Held, Singleton, Dispose, Elsewhere, TypeOK, Items
<1>7. InFlight'
  BY <1>0 DEF InFlight, Dispose
<1>. QED
  BY <1>3, <1>4, <1>5, <1>6, <1>7 DEF IInv

LEMMA InsertReadyEndsStep ==
  ASSUME IInv, NEW c \in calling, InsertReadyEnds(c)
  PROVE  IInv'
<1>0. TypeOK /\ OneOwner /\ Calls /\ Held /\ InFlight
  BY DEF IInv
<1>1. TypeOK'
  BY <1>0 DEF TypeOK, InsertReadyEnds, Entries, Items
<1>2. OneOwner' /\ InFlight'
  BY <1>0 DEF OneOwner, InFlight, InsertReadyEnds
<1>3. Calls' /\ Held'
  BY <1>0 DEF Calls, Held, Singleton, InsertReadyEnds
<1>. QED
  BY <1>1, <1>2, <1>3 DEF IInv

\* What the failed call had, and with it its maintainer, has no owner from then
\* on; the other batches keep theirs.
LEMMA InsertReadyFailsStep ==
  ASSUME IInv, NEW c \in calling, InsertReadyFails(c)
  PROVE  IInv'
<1>0. TypeOK /\ OneOwner /\ Calls /\ Held /\ InFlight
  BY DEF IInv
<1> DEFINE dropped == {c} \cup (IF Singleton THEN {} ELSE Rest(c.queue))
           msgs == {i.msg : i \in dropped}
<1>1. /\ calling' = calling \ {c}
      /\ out' = [m \in Msgs |-> IF m \in msgs THEN out[m] - 1 ELSE out[m]]
      /\ UNCHANGED <<strategy, now, due, q, wheel, failed, shutting>>
  BY DEF InsertReadyFails
<1>2. /\ c \in Items /\ c.msg \in Msgs /\ c.queue \in Queues /\ out[c.msg] = 1
      /\ \A k \in calling' : k \in Items /\ k.msg # c.msg
  BY <1>0, <1>1 DEF TypeOK, Calls, Items
<1>3. ASSUME NEW i \in dropped
      PROVE  i = c \/ (~Singleton /\ \E b \in Batches : i \in batch[b].items)
  BY DEF Rest
<1>4. \A n \in msgs : n \in Msgs => out[n] = 1
  BY <1>0, <1>2, <1>3 DEF Held
<1>5. \A k \in calling' : k.msg \notin msgs
  BY <1>0, <1>1, <1>2, <1>3 DEF Held
<1>6. /\ batch' \in [Batches -> [phase : {"free", "spawned", "asleep"}, items : SUBSET Items,
                                 wake : 0..MaxTime]]
      /\ \A b \in Batches : batch'[b].items = {} \/ batch'[b].items = batch[b].items
      /\ ended' \subseteq Queues
  <2>1. NoBatch \in [phase : {"free", "spawned", "asleep"}, items : SUBSET Items, wake : 0..MaxTime]
        /\ NoBatch.items = {}
    BY SQBoundsAssumption DEF NoBatch
  <2>2. CASE Singleton
    BY <1>0, <2>2 DEF InsertReadyFails, TypeOK
  <2>3. CASE ~Singleton
    <3>1. /\ batch' = [b \in Batches |-> IF batch[b].items \cap dropped # {} THEN NoBatch ELSE batch[b]]
          /\ ended' = ended \cup {c.queue}
      BY <2>3 DEF InsertReadyFails
    <3> HIDE DEF dropped
    <3>. QED
      BY <1>0, <1>2, <2>1, <3>1 DEF TypeOK
  <2>. QED
    BY <2>2, <2>3
<1>7. ~Singleton => \A b \in Batches : \A i \in batch'[b].items : i.msg \notin msgs
  <2> SUFFICES ASSUME ~Singleton, NEW b \in Batches, NEW i \in batch'[b].items, NEW j \in dropped,
                      i.msg = j.msg
               PROVE  FALSE
    OBVIOUS
  <2>1. i \in batch[b].items /\ i \notin dropped
    <3>1. batch' = [d \in Batches |-> IF batch[d].items \cap dropped # {} THEN NoBatch ELSE batch[d]]
      BY DEF InsertReadyFails
    <3>2. NoBatch.items = {}
      BY DEF NoBatch
    <3> HIDE DEF dropped
    <3>. QED
      BY <3>1, <3>2
  <2>2. j # c
    BY <1>0, <2>1 DEF Held
  <2>3. PICK d \in Batches : j \in batch[d].items
    BY <1>3, <2>2
  <2>. QED
    BY <1>0, <2>1, <2>3 DEF Held
<1> HIDE DEF dropped, msgs
<1>8. /\ out' \in [Msgs -> Nat]
      /\ \A n \in Msgs : out'[n] = IF n \in msgs THEN 0 ELSE out[n]
  BY <1>0, <1>1, <1>4 DEF TypeOK
<1>9. TypeOK'
  BY <1>0, <1>1, <1>6, <1>8 DEF TypeOK
<1>10. OneOwner'
  BY <1>0, <1>1, <1>8 DEF OneOwner
<1>11. Calls'
  BY <1>0, <1>1, <1>2, <1>5, <1>8 DEF Calls, Items
<1>12. Held'
  <2> SUFFICES ASSUME ~Singleton PROVE Held'
    BY <1>1 DEF Held, Singleton
  <2>1. \A b \in Batches : \A i \in batch'[b].items : i \in batch[b].items /\ i.msg \in Msgs
    BY <1>0, <1>6 DEF TypeOK, Items
  <2>. QED
    BY <1>0, <1>1, <1>7, <1>8, <2>1 DEF Held
<1>13. InFlight'
  BY <1>0, <1>1, <1>6 DEF InFlight
<1>. QED
  BY <1>9, <1>10, <1>11, <1>12, <1>13 DEF IInv

\* What a drain takes out of a queue has no entry left, unless the strategy is
\* version 1; with version 2 what is in flight stays.
LEMMA DrainStep ==
  ASSUME IInv, NEW s \in Queues, Drain(s) \/ DrainAndSave(s)
  PROVE  IInv'
<1>0. TypeOK /\ OneOwner /\ Calls /\ Held /\ InFlight
  BY DEF IInv
<1>1. /\ q' = [q EXCEPT ![s] = @ \ Drained(s)]
      /\ wheel' = Uncancelled(s)
      /\ UNCHANGED <<strategy, now, due, batch, calling, failed, ended, shutting>>
  BY DEF Drain, DrainAndSave
<1>2. /\ Drained(s) \subseteq q[s]
      /\ Drained(s) \subseteq Msgs
      /\ strategy # V1 => \A e \in wheel : e.queue = s => e.msg \in Drained(s)
  BY <1>0 DEF Drained, TypeOK, Entries
<1>3. /\ wheel' \subseteq wheel
      /\ strategy # V1 => \A e \in wheel' : e.queue # s
  BY <1>1, <1>2 DEF Uncancelled
<1>4. /\ out' \in [Msgs -> Nat]
      /\ \A n \in Msgs : out'[n] = out[n] \/ (n \in Drained(s) /\ out[n] = 0 /\ out'[n] = 1)
  BY <1>0, <1>2 DEF Drain, DrainAndSave, TypeOK, OneOwner
<1>5. \A u \in Queues : q'[u] = IF u = s THEN q[s] \ Drained(s) ELSE q[u]
  BY <1>0, <1>1 DEF TypeOK
<1>6. TypeOK'
  <2>1. q' \in [Queues -> SUBSET Msgs]
    BY <1>0, <1>1 DEF TypeOK
  <2>2. strategy # V1 => /\ \A e \in wheel' : e.msg \in q'[e.queue] /\ e.at = due[e.msg]
                         /\ \A e, f \in wheel' : e.msg = f.msg => e = f
    BY <1>0, <1>3, <1>5 DEF TypeOK, Entries
  <2>. QED
    BY <1>0, <1>1, <1>3, <1>4, <2>1, <2>2 DEF TypeOK
<1>7. OneOwner'
  BY <1>0, <1>2, <1>4, <1>5 DEF OneOwner
<1>8. Calls'
  BY <1>0, <1>1, <1>4 DEF Calls, TypeOK, Items
<1>9. Held'
  BY <1>0, <1>1, <1>4 DEF Held, Singleton, TypeOK, Items
<1>10. InFlight'
  <2> SUFFICES ASSUME strategy = V2 PROVE InFlight'
    BY <1>1 DEF InFlight
  <2>1. \A b \in Batches : \A i \in batch[b].items : i.msg \notin Drained(s)
    BY <1>0 DEF InFlight, Drained
  <2>. QED
    BY <1>0, <1>1, <1>3, <1>5, <2>1 DEF InFlight, TypeOK, Items
<1>. QED
  BY <1>6, <1>7, <1>8, <1>9, <1>10 DEF IInv

\* The entries leave the wheel; version 2 has their messages in flight then.
LEMMA PopWheelStep ==
  ASSUME IInv, NEW b \in Batches, NEW popped \in SUBSET Ripe, Pop(b, popped), PopWheel(b, popped)
  PROVE  IInv'
<1>0. TypeOK /\ OneOwner /\ Calls /\ Held /\ InFlight
  BY DEF IInv
<1> DEFINE items == {[msg |-> e.msg, queue |-> e.queue] : e \in {x \in popped : Upgradable(x.msg)}}
<1>1. /\ Singleton
      /\ wheel' = wheel \ popped
      /\ UNCHANGED <<strategy, now, due, q, out, calling, failed, ended, shutting>>
  BY DEF Pop, PopWheel
<1>2. popped \subseteq wheel
  BY DEF Ripe
<1>3. items \subseteq Items
  BY <1>0, <1>2 DEF TypeOK, Entries, Items
<1>4. /\ batch' \in [Batches -> [phase : {"free", "spawned", "asleep"}, items : SUBSET Items,
                                 wake : 0..MaxTime]]
      /\ \A d \in Batches : batch'[d].items = IF d = b THEN items ELSE batch[d].items
  <2> DEFINE new == IF items = {} THEN NoBatch ELSE [phase |-> "spawned", items |-> items, wake |-> 0]
  <2>1. batch' = [batch EXCEPT ![b] = new]
    BY DEF PopWheel
  <2>2. new \in [phase : {"free", "spawned", "asleep"}, items : SUBSET Items, wake : 0..MaxTime]
    BY <1>3, SQBoundsAssumption DEF NoBatch
  <2>3. new.items = items
    BY DEF NoBatch
  <2> HIDE DEF new, items
  <2>. QED
    BY <1>0, <2>1, <2>2, <2>3 DEF TypeOK
<1>5. \A i \in items : \E e \in popped : i = [msg |-> e.msg, queue |-> e.queue]
  OBVIOUS
<1> HIDE DEF items
<1>6. TypeOK'
  BY <1>0, <1>1, <1>4 DEF TypeOK
<1>7. OneOwner' /\ Calls'
  BY <1>0, <1>1 DEF OneOwner, Calls
<1>8. Held'
  BY <1>1 DEF Held, Singleton
<1>9. InFlight'
  <2> SUFFICES ASSUME strategy = V2 PROVE InFlight'
    BY <1>1 DEF InFlight
  <2>1. /\ \A e \in wheel : e.msg \in q[e.queue]
        /\ \A e, f \in wheel : e.msg = f.msg => e = f
    BY <1>0 DEF TypeOK, V1, V2
  <2>2. ASSUME NEW i \in items
        PROVE  /\ i.msg \in q[i.queue]
               /\ \A e \in wheel' : e.msg # i.msg
               /\ \A j \in items : j.msg = i.msg => j = i
               /\ \A d \in Batches : \A j \in batch[d].items : j.msg # i.msg
    <3>1. PICK e \in popped : i = [msg |-> e.msg, queue |-> e.queue]
      BY <1>5
    <3>2. \A j \in items : j.msg = i.msg => j = i
      BY <1>2, <1>5, <2>1, <3>1
    <3>3. \A d \in Batches : \A j \in batch[d].items : j.msg # i.msg
      BY <1>0, <1>2, <3>1 DEF InFlight
    <3>. QED
      BY <1>1, <1>2, <2>1, <3>1, <3>2, <3>3
  <2>. QED
    BY <1>0, <1>1, <1>4, <2>2 DEF InFlight
<1>. QED
  BY <1>6, <1>7, <1>8, <1>9 DEF IInv

\* The maintainer of a queue becomes the owner of what it pops.
LEMMA PopQueueStep ==
  ASSUME IInv, NEW b \in Batches, NEW popped \in SUBSET Ripe, Pop(b, popped), PopQueue(b, popped)
  PROVE  IInv'
<1>0. TypeOK /\ OneOwner /\ Calls /\ Held /\ InFlight
  BY DEF IInv
<1> DEFINE items == {[msg |-> e.msg, queue |-> e.queue] : e \in popped}
           msgs == {e.msg : e \in popped}
<1>1. /\ ~Singleton
      /\ wheel' = wheel \ popped
      /\ UNCHANGED <<strategy, now, due, calling, failed, ended, shutting>>
  BY DEF Pop, PopQueue
<1>2. PICK s \in Queues : /\ \A e \in popped : e.queue = s
                          /\ q' = [q EXCEPT ![s] = @ \ msgs]
  BY DEF PopQueue
<1>3. popped \subseteq wheel /\ popped \subseteq Entries /\ strategy # V1
  BY <1>0, <1>1 DEF Ripe, Singleton, TypeOK
<1>4. /\ items \subseteq Items
      /\ \A i \in items : i.msg \in msgs /\ i.queue = s
      /\ msgs \subseteq q[s] /\ msgs \subseteq Msgs
      /\ \A e \in wheel : e.msg \in msgs => e \in popped
  BY <1>0, <1>2, <1>3 DEF TypeOK, Entries, Items
<1>5. /\ out' \in [Msgs -> Nat]
      /\ \A n \in Msgs : out'[n] = IF n \in msgs THEN 1 ELSE out[n]
  <2>1. \A n \in msgs : out[n] = 0
    BY <1>0, <1>4 DEF OneOwner
  <2>2. out' = [n \in Msgs |-> IF n \in msgs THEN out[n] + 1 ELSE out[n]]
    BY DEF PopQueue
  <2> HIDE DEF msgs
  <2>. QED
    BY <1>0, <2>1, <2>2 DEF TypeOK
<1>6. /\ batch' \in [Batches -> [phase : {"free", "spawned", "asleep"}, items : SUBSET Items,
                                 wake : 0..MaxTime]]
      /\ \A d \in Batches : batch'[d].items = IF d = b THEN items ELSE batch[d].items
  <2> DEFINE new == [phase |-> "spawned", wake |-> 0, items |-> items]
  <2>1. batch' = [batch EXCEPT ![b] = new]
    BY DEF PopQueue
  <2>2. new \in [phase : {"free", "spawned", "asleep"}, items : SUBSET Items, wake : 0..MaxTime]
    BY <1>4, SQBoundsAssumption
  <2>3. new.items = items
    OBVIOUS
  <2> HIDE DEF new, items
  <2>. QED
    BY <1>0, <2>1, <2>2, <2>3 DEF TypeOK
<1>7. \A i, j \in items : i.msg = j.msg => i = j
  BY <1>4 DEF Items
<1> HIDE DEF items, msgs
<1>8. \A u \in Queues : q'[u] = IF u = s THEN q[s] \ msgs ELSE q[u]
  BY <1>0, <1>2 DEF TypeOK
<1>9. TypeOK'
  <2>1. q' \in [Queues -> SUBSET Msgs]
    BY <1>0, <1>2 DEF TypeOK
  <2>2. /\ \A e \in wheel' : e.msg \in q'[e.queue] /\ e.at = due[e.msg]
        /\ \A e, f \in wheel' : e.msg = f.msg => e = f
    BY <1>0, <1>1, <1>3, <1>4, <1>8 DEF TypeOK, Entries
  <2>. QED
    BY <1>0, <1>1, <1>5, <1>6, <2>1, <2>2 DEF TypeOK
<1>10. OneOwner'
  BY <1>0, <1>4, <1>5, <1>8 DEF OneOwner
<1>11. Calls'
  BY <1>0, <1>1, <1>5 DEF Calls, TypeOK, Items
<1>12. Held'
  <2>1. /\ \A c \in calling : c.msg \notin msgs
        /\ \A d \in Batches : \A i \in batch[d].items : i.msg \notin msgs
    BY <1>0, <1>1, <1>4 DEF Calls, Held, OneOwner
  <2>2. ASSUME NEW i \in items
        PROVE  /\ out'[i.msg] = 1
               /\ \A c \in calling : c.msg # i.msg
               /\ \A d \in Batches : \A j \in batch[d].items : j.msg # i.msg
    BY <1>4, <1>5, <2>1 DEF Items
  <2>3. ASSUME NEW d \in Batches, NEW i \in batch[d].items
        PROVE  out'[i.msg] = 1
    BY <1>0, <1>1, <1>5 DEF Held, TypeOK, Items
  <2>. QED
    BY <1>0, <1>1, <1>6, <1>7, <2>2, <2>3 DEF Held
<1>13. InFlight'
  BY <1>1 DEF InFlight, Singleton
<1>. QED
  BY <1>9, <1>10, <1>11, <1>12, <1>13 DEF IInv

\* A batch falls asleep with the items it has.
LEMMA StartWaitStep ==
  ASSUME IInv, NEW b \in Batches, StartWait(b)
  PROVE  IInv'
<1>0. TypeOK /\ OneOwner /\ Calls /\ Held /\ InFlight
  BY DEF IInv
<1>1. PICK w \in now..MaxTime :
        batch' = [batch EXCEPT ![b] = [phase |-> "asleep", items |-> batch[b].items, wake |-> w]]
  BY DEF StartWait, Awaited
<1>2. UNCHANGED <<strategy, now, due, q, wheel, calling, out, failed, ended, shutting>>
  BY DEF StartWait
<1>3. /\ batch' \in [Batches -> [phase : {"free", "spawned", "asleep"}, items : SUBSET Items,
                                 wake : 0..MaxTime]]
      /\ \A d \in Batches : batch'[d].items = batch[d].items
  <2>1. w \in 0..MaxTime
    BY <1>0, SQBoundsAssumption DEF TypeOK
  <2>. QED
    BY <1>0, <1>1, <2>1 DEF TypeOK
<1>4. TypeOK'
  BY <1>0, <1>2, <1>3 DEF TypeOK
<1>5. OneOwner' /\ Calls'
  BY <1>0, <1>2 DEF OneOwner, Calls
<1>6. Held' /\ InFlight'
  BY <1>0, <1>2, <1>3 DEF Held, InFlight, Singleton
<1>. QED
  BY <1>4, <1>5, <1>6 DEF IInv

\* An item leaves its batch; the other batches stay as they are.
LEMMA WithoutFacts ==
  ASSUME TypeOK, NEW b \in Batches, NEW i \in batch[b].items,
         batch' = [batch EXCEPT ![b] = Without(b, i)]
  PROVE  /\ batch' \in [Batches -> [phase : {"free", "spawned", "asleep"}, items : SUBSET Items,
                                    wake : 0..MaxTime]]
         /\ \A d \in Batches :
              batch'[d].items = IF d = b THEN batch[b].items \ {i} ELSE batch[d].items
         /\ \A d \in Batches : batch'[d].phase = "asleep" => /\ batch[d].phase = "asleep"
                                                             /\ batch'[d].wake = batch[d].wake
         /\ i \in Items
<1>1. /\ batch[b] \in [phase : {"free", "spawned", "asleep"}, items : SUBSET Items, wake : 0..MaxTime]
      /\ i \in Items
  BY DEF TypeOK
<1>2. /\ Without(b, i) \in [phase : {"free", "spawned", "asleep"}, items : SUBSET Items,
                            wake : 0..MaxTime]
      /\ Without(b, i).items = batch[b].items \ {i}
      /\ Without(b, i).phase = "asleep" => /\ batch[b].phase = "asleep"
                                           /\ Without(b, i).wake = batch[b].wake
  BY <1>1, SQBoundsAssumption DEF Without, NoBatch
<1>. QED
  BY <1>1, <1>2 DEF TypeOK

\* Whoever removes the message from the queue is its owner; with version 2 no
\* entry and no other batch names it.
LEMMA ReinsertStep ==
  ASSUME IInv, NEW b \in Batches, NEW i \in batch[b].items, Reinsert(b, i)
  PROVE  IInv'
<1>0. TypeOK /\ OneOwner /\ Calls /\ Held /\ InFlight
  BY DEF IInv
<1>1. /\ Singleton
      /\ Claim(b, i)
      /\ UNCHANGED <<strategy, now, due, wheel, failed, ended, shutting>>
  BY DEF Reinsert
<1>2. /\ batch' \in [Batches -> [phase : {"free", "spawned", "asleep"}, items : SUBSET Items,
                                 wake : 0..MaxTime]]
      /\ \A d \in Batches :
           batch'[d].items = IF d = b THEN batch[b].items \ {i} ELSE batch[d].items
      /\ i.msg \in Msgs /\ i.queue \in Queues /\ i \in Items
  BY <1>0, WithoutFacts DEF Reinsert, Items
<1>3. Held'
  BY <1>1 DEF Held, Singleton
<1>4. CASE i.msg \notin q[i.queue]
  <2>1. UNCHANGED <<q, out, calling>>
    BY <1>1, <1>4 DEF Claim
  <2>2. TypeOK'
    BY <1>0, <1>1, <1>2, <2>1 DEF TypeOK
  <2>3. OneOwner' /\ Calls'
    BY <1>0, <1>1, <2>1 DEF OneOwner, Calls
  <2>4. InFlight'
    BY <1>0, <1>1, <1>2, <2>1 DEF InFlight
  <2>. QED
    BY <1>3, <2>2, <2>3, <2>4 DEF IInv
<1>5. CASE i.msg \in q[i.queue]
  <2>1. /\ q' = [q EXCEPT ![i.queue] = @ \ {i.msg}]
        /\ out' = [out EXCEPT ![i.msg] = @ + 1]
        /\ calling' = calling \cup {i}
    BY <1>1, <1>5 DEF Claim
  <2>2. out[i.msg] = 0 /\ \A u \in Queues \ {i.queue} : i.msg \notin q[u]
    BY <1>0, <1>2, <1>5 DEF OneOwner
  <2>3. /\ out' \in [Msgs -> Nat] /\ q' \in [Queues -> SUBSET Msgs]
        /\ \A n \in Msgs : out'[n] = IF n = i.msg THEN 1 ELSE out[n]
        /\ \A u \in Queues, n \in Msgs : n \in q'[u] <=> n # i.msg /\ n \in q[u]
    BY <1>0, <1>2, <2>1, <2>2 DEF TypeOK
  <2>4. strategy # V1 => \A e \in wheel : e.msg # i.msg
    BY <1>0, <1>1 DEF InFlight, Singleton
  <2>5. TypeOK'
    <3>1. strategy # V1 => \A e \in wheel' : e.msg \in q'[e.queue]
      BY <1>0, <1>1, <2>3, <2>4 DEF TypeOK, Entries
    <3>. QED
      BY <1>0, <1>1, <1>2, <2>1, <2>3, <3>1 DEF TypeOK
  <2>6. OneOwner'
    BY <1>0, <2>2, <2>3 DEF OneOwner
  <2>7. Calls'
    BY <1>0, <1>2, <2>1, <2>2, <2>3 DEF Calls, TypeOK, Items
  <2>8. InFlight'
    <3> SUFFICES ASSUME strategy = V2 PROVE InFlight'
      BY <1>1 DEF InFlight
    <3>1. ASSUME NEW d \in Batches, NEW j \in batch'[d].items
          PROVE  j \in batch[d].items /\ j.msg # i.msg /\ j \in Items
      BY <1>0, <1>2 DEF InFlight, TypeOK
    <3>2. ASSUME NEW d \in Batches, NEW j \in batch'[d].items
          PROVE  j.msg \in q'[j.queue] /\ \A e \in wheel' : e.msg # j.msg
      BY <1>0, <1>1, <2>3, <3>1 DEF InFlight, Items
    <3>. QED
      BY <1>0, <3>1, <3>2 DEF InFlight
  <2>. QED
    BY <1>3, <2>5, <2>6, <2>7, <2>8 DEF IInv
<1>. QED
  BY <1>4, <1>5

\* The item is gone and the message stays where it is.
LEMMA ReinsertFailsStep ==
  ASSUME IInv, NEW b \in Batches, NEW i \in batch[b].items, ReinsertFails(b, i)
  PROVE  IInv'
<1>0. TypeOK /\ OneOwner /\ Calls /\ Held /\ InFlight
  BY DEF IInv
<1>1. /\ strategy = V2
      /\ failed' = failed \cup {i.msg}
      /\ UNCHANGED <<strategy, now, due, q, wheel, calling, out, ended, shutting>>
  BY DEF ReinsertFails
<1>2. /\ batch' \in [Batches -> [phase : {"free", "spawned", "asleep"}, items : SUBSET Items,
                                 wake : 0..MaxTime]]
      /\ \A d \in Batches :
           batch'[d].items = IF d = b THEN batch[b].items \ {i} ELSE batch[d].items
      /\ i.msg \in Msgs
  BY <1>0, WithoutFacts DEF ReinsertFails, Items
<1>3. TypeOK'
  BY <1>0, <1>1, <1>2 DEF TypeOK
<1>4. OneOwner' /\ Calls'
  BY <1>0, <1>1 DEF OneOwner, Calls
<1>5. Held'
  BY <1>1 DEF Held, Singleton
<1>6. InFlight'
  BY <1>0, <1>1, <1>2 DEF InFlight
<1>. QED
  BY <1>3, <1>4, <1>5, <1>6 DEF IInv

\* The maintainer's ownership becomes that of insert_ready.
LEMMA PassOnStep ==
  ASSUME IInv, NEW b \in Batches, NEW i \in batch[b].items, PassOn(b, i)
  PROVE  IInv'
<1>0. TypeOK /\ OneOwner /\ Calls /\ Held /\ InFlight
  BY DEF IInv
<1>1. /\ ~Singleton
      /\ calling' = calling \cup {i}
      /\ UNCHANGED <<strategy, now, due, q, wheel, out, failed, ended, shutting>>
  BY DEF PassOn
<1>2. /\ batch' \in [Batches -> [phase : {"free", "spawned", "asleep"}, items : SUBSET Items,
                                 wake : 0..MaxTime]]
      /\ \A d \in Batches :
           batch'[d].items = IF d = b THEN batch[b].items \ {i} ELSE batch[d].items
      /\ i \in Items
  BY <1>0, WithoutFacts DEF PassOn
<1>3. TypeOK'
  BY <1>0, <1>1, <1>2 DEF TypeOK
<1>4. OneOwner'
  BY <1>0, <1>1 DEF OneOwner
<1>5. Calls'
  BY <1>0, <1>1 DEF Calls, Held
<1>6. Held'
  BY <1>0, <1>1, <1>2 DEF Held
<1>7. InFlight'
  BY <1>1 DEF InFlight, Singleton
<1>. QED
  BY <1>3, <1>4, <1>5, <1>6, <1>7 DEF IInv

\* Time and the shutdown flag.
LEMMA ClockStep ==
  ASSUME IInv, Advance \/ Shutdown \/ UNCHANGED vars
  PROVE  IInv'
<1>1. /\ UNCHANGED <<strategy, due, q, wheel, batch, calling, out, failed, ended>>
      /\ now' \in 0..MaxTime /\ shutting' \in BOOLEAN
  <2>1. now \in 0..MaxTime /\ shutting \in BOOLEAN
    BY DEF IInv, TypeOK
  <2>2. CASE Advance
    BY <2>1, <2>2, SQBoundsAssumption DEF Advance
  <2>3. CASE Shutdown
    BY <2>1, <2>3 DEF Shutdown
  <2>4. CASE UNCHANGED vars
    BY <2>1, <2>4 DEF vars
  <2>. QED
    BY <2>2, <2>3, <2>4
<1>2. TypeOK'
  BY <1>1 DEF IInv, TypeOK
<1>3. OneOwner' /\ Calls' /\ Held' /\ InFlight'
  BY <1>1 DEF IInv, OneOwner, Calls, Held, InFlight, Singleton
<1>. QED
  BY <1>2, <1>3 DEF IInv

LEMMA NextIInv == IInv /\ [Next]_vars => IInv'
<1> SUFFICES ASSUME IInv, [Next]_vars PROVE IInv'
  OBVIOUS
<1>1. CASE \E m \in Msgs, s \in Queues, d \in 1..MaxTime : Insert(m, s, d)
  BY <1>1, InsertStep
<1>2. CASE \E m \in Msgs : Dispose(m)
  BY <1>2, DisposeStep
<1>3. CASE \E c \in calling : InsertReadyEnds(c) \/ InsertReadyFails(c)
  BY <1>3, InsertReadyEndsStep, InsertReadyFailsStep
<1>4. CASE \E c \in calling, d \in 1..MaxTime : ForceIntoDelayed(c, d)
  BY <1>4, ForceIntoDelayedStep
<1>5. CASE \E s \in Queues : Drain(s) \/ DrainAndSave(s)
  BY <1>5, DrainStep
<1>6. ASSUME NEW b \in Batches, NEW popped \in SUBSET Ripe, Pop(b, popped) PROVE IInv'
  BY <1>6, PopWheelStep, PopQueueStep DEF Pop
<1>7. ASSUME NEW b \in Batches, BatchStep(b) PROVE IInv'
  BY <1>7, StartWaitStep, ReinsertStep, ReinsertFailsStep, PassOnStep DEF BatchStep
<1>8. CASE Advance \/ Shutdown \/ UNCHANGED vars
  BY <1>8, ClockStep
<1>. QED
  BY <1>1, <1>2, <1>3, <1>4, <1>5, <1>6, <1>7, <1>8 DEF Next

\* The inductive invariant holds in every state.
LEMMA IInvAlways == Spec => []IInv
BY InitIInv, NextIInv, PTL DEF Spec

\* strategy.rs, maintainer.rs: a message is in one queue or with one task,
\* however many batches, drains and stale wheel entries name it.
THEOREM OwnershipTheorem == Spec => [](TypeOK /\ OneOwner)
<1>1. IInv => TypeOK /\ OneOwner
  BY DEF IInv
<1>. QED
  BY <1>1, IInvAlways, PTL

----------------------------------------------------------------------------
(* The timer finds every message *)

LEMMA InitNotStranded == Init => NotStranded
BY DEF Init, NotStranded

\* A message whose entry or item a step removes leaves its queue in that step,
\* turns from an entry into an item, or has failed.
LEMMA NextNotStranded ==
  ASSUME IInv, IInv', NotStranded, [Next]_vars
  PROVE  NotStranded'
<1>0. TypeOK /\ OneOwner /\ Held /\ TypeOK'
  BY DEF IInv
<1> USE DEF NotStranded, Pending
<1>1. ASSUME NEW m \in Msgs, NEW s \in Queues, NEW d \in 1..MaxTime, Stored(m, s, d),
             UNCHANGED <<batch, failed>>
      PROVE  NotStranded'
  <2>1. \A u \in Queues, n \in Msgs :
          n \in q'[u] => \/ u = s /\ n = m
                         \/ n \in q[u] /\ ~(u = s /\ n \in Displaced(s, d))
    BY <1>0, <1>1 DEF Stored, TypeOK
  <2>2. /\ [msg |-> m, queue |-> s, at |-> d] \in wheel'
        /\ \A e \in wheel : ~(e.queue = s /\ e.msg \in Displaced(s, d)) => e \in wheel'
    BY <1>1 DEF Stored
  <2>. QED
    BY <1>0, <1>1, <2>1, <2>2 DEF TypeOK
<1>2. CASE \E m \in Msgs, s \in Queues, d \in 1..MaxTime : Insert(m, s, d)
  BY <1>1, <1>2 DEF Insert
<1>3. CASE \E m \in Msgs : Dispose(m)
  BY <1>3 DEF Dispose
<1>4. ASSUME NEW c \in calling, InsertReadyEnds(c) \/ InsertReadyFails(c) PROVE NotStranded'
  <2>1. UNCHANGED <<q, wheel, failed>>
    BY <1>4 DEF InsertReadyEnds, InsertReadyFails
  <2>2. ASSUME NEW b \in Batches, NEW i \in batch[b].items, i \notin batch'[b].items
        PROVE  i.msg \in Msgs /\ \A s \in Queues : i.msg \notin q[s]
    <3>1. ~Singleton
      BY <1>4, <2>2 DEF InsertReadyEnds, InsertReadyFails
    <3>2. i.msg \in Msgs /\ out[i.msg] = 1
      BY <1>0, <3>1 DEF Held, TypeOK, Items
    <3>. QED
      BY <1>0, <3>2 DEF OneOwner
  <2>. QED
    BY <2>1, <2>2
<1>5. CASE \E c \in calling, d \in 1..MaxTime : ForceIntoDelayed(c, d)
  BY <1>0, <1>1, <1>5 DEF ForceIntoDelayed, TypeOK, Items
<1>6. ASSUME NEW s \in Queues, Drain(s) \/ DrainAndSave(s) PROVE NotStranded'
  <2>1. \A u \in Queues, n \in Msgs :
          n \in q'[u] => n \in q[u] /\ ~(u = s /\ n \in Drained(s))
    BY <1>0, <1>6 DEF Drain, DrainAndSave, TypeOK
  <2>2. \A e \in wheel : ~(e.queue = s /\ e.msg \in Drained(s)) => e \in wheel'
    BY <1>6 DEF Drain, DrainAndSave, Uncancelled
  <2>. QED
    BY <1>0, <1>6, <2>1, <2>2 DEF Drain, DrainAndSave, TypeOK
<1>7. ASSUME NEW b \in Batches, NEW popped \in SUBSET Ripe, Pop(b, popped), PopWheel(b, popped)
      PROVE  NotStranded'
  <2> SUFFICES ASSUME NEW s \in Queues, NEW m \in q'[s], m \notin failed' PROVE Pending(m, s)'
    OBVIOUS
  <2>1. m \in Msgs /\ m \in q[s] /\ Pending(m, s) /\ Upgradable(m)
    BY <1>0, <1>7 DEF Pop, PopWheel, TypeOK, Upgradable
  <2>2. CASE \E e \in wheel : e.msg = m /\ e.queue = s /\ e \notin popped
    BY <1>7, <2>2 DEF PopWheel
  <2>3. CASE \E e \in popped : e.msg = m /\ e.queue = s
    <3> DEFINE items == {[msg |-> e.msg, queue |-> e.queue] : e \in {x \in popped : Upgradable(x.msg)}}
    <3>1. [msg |-> m, queue |-> s] \in items
      BY <2>1, <2>3
    <3>2. batch'[b].items = items
      <4>1. batch' = [batch EXCEPT ![b] = [phase |-> "spawned", items |-> items, wake |-> 0]]
        BY <1>7, <3>1 DEF PopWheel
      <4> HIDE DEF items
      <4>. QED
        BY <1>0, <4>1 DEF TypeOK
    <3>. QED
      BY <3>1, <3>2
  <2>4. CASE \E d \in Batches : [msg |-> m, queue |-> s] \in batch[d].items
    <3>1. PICK d \in Batches : [msg |-> m, queue |-> s] \in batch[d].items
      BY <2>4
    <3>2. d # b
      BY <1>7, <3>1 DEF Pop, NoBatch
    <3>3. batch'[d] = batch[d]
      BY <1>0, <1>7, <3>2 DEF PopWheel, TypeOK
    <3>. QED
      BY <3>1, <3>3
  <2>. QED
    BY <2>1, <2>2, <2>3, <2>4
<1>8. ASSUME NEW b \in Batches, NEW popped \in SUBSET Ripe, Pop(b, popped), PopQueue(b, popped)
      PROVE  NotStranded'
  <2> SUFFICES ASSUME NEW s \in Queues, NEW m \in q'[s], m \notin failed' PROVE Pending(m, s)'
    OBVIOUS
  <2>1. PICK u \in Queues : /\ \A e \in popped : e.queue = u
                            /\ q' = [q EXCEPT ![u] = @ \ {e.msg : e \in popped}]
    BY <1>8 DEF PopQueue
  <2>2. /\ m \in Msgs /\ m \in q[s] /\ Pending(m, s)
        /\ ~\E e \in popped : e.msg = m /\ e.queue = s
    BY <1>0, <1>8, <2>1 DEF Pop, TypeOK
  <2>3. CASE \E e \in wheel : e.msg = m /\ e.queue = s
    BY <1>8, <2>2, <2>3 DEF PopQueue
  <2>4. CASE \E d \in Batches : [msg |-> m, queue |-> s] \in batch[d].items
    <3>1. PICK d \in Batches : [msg |-> m, queue |-> s] \in batch[d].items
      BY <2>4
    <3>2. d # b
      BY <1>8, <3>1 DEF Pop, NoBatch
    <3>3. batch'[d] = batch[d]
      BY <1>0, <1>8, <3>2 DEF PopQueue, TypeOK
    <3>. QED
      BY <3>1, <3>3
  <2>. QED
    BY <2>2, <2>3, <2>4
<1>9. ASSUME NEW b \in Batches, StartWait(b) PROVE NotStranded'
  <2>1. \A d \in Batches : batch'[d].items = batch[d].items
    BY <1>0, <1>9 DEF StartWait, Awaited, TypeOK
  <2>. QED
    BY <1>9, <2>1 DEF StartWait
<1>10. ASSUME NEW b \in Batches, NEW i \in batch[b].items,
              Reinsert(b, i) \/ ReinsertFails(b, i) \/ PassOn(b, i)
       PROVE  NotStranded'
  <2>1. /\ \A d \in Batches :
             batch'[d].items = IF d = b THEN batch[b].items \ {i} ELSE batch[d].items
        /\ i \in Items
    BY <1>0, <1>10, WithoutFacts DEF Reinsert, ReinsertFails, PassOn
  <2>2. /\ wheel' = wheel /\ failed \subseteq failed'
        /\ \A u \in Queues : q'[u] \subseteq q[u]
    BY <1>0, <1>10 DEF Reinsert, Claim, ReinsertFails, PassOn, TypeOK
  <2>3. i.msg \notin q'[i.queue] \/ i.msg \in failed'
    <3>1. CASE Reinsert(b, i)
      BY <1>0, <2>1, <3>1 DEF Reinsert, Claim, TypeOK, Items
    <3>2. CASE ReinsertFails(b, i)
      BY <3>2 DEF ReinsertFails
    <3>3. CASE PassOn(b, i)
      <4>1. i.msg \in Msgs /\ i.queue \in Queues /\ out[i.msg] = 1
        BY <1>0, <2>1, <3>3 DEF PassOn, Held, Items
      <4>. QED
        BY <1>0, <3>3, <4>1 DEF PassOn, OneOwner
    <3>. QED
      BY <1>10, <3>1, <3>2, <3>3
  <2> SUFFICES ASSUME NEW s \in Queues, NEW m \in q'[s], m \notin failed' PROVE Pending(m, s)'
    OBVIOUS
  <2>4. m \in q[s] /\ Pending(m, s) /\ [msg |-> m, queue |-> s] # i
    BY <2>2, <2>3
  <2>. QED
    BY <2>1, <2>2, <2>4
<1>11. CASE Advance \/ Shutdown \/ UNCHANGED vars
  BY <1>11 DEF Advance, Shutdown, vars
<1>12. ASSUME NEW b \in Batches, NEW popped \in SUBSET Ripe, Pop(b, popped) PROVE NotStranded'
  BY <1>7, <1>8, <1>12 DEF Pop
<1>13. ASSUME NEW b \in Batches, BatchStep(b) PROVE NotStranded'
  BY <1>9, <1>10, <1>13 DEF BatchStep
<1>. QED
  BY <1>2, <1>3, <1>4, <1>5, <1>6, <1>11, <1>12, <1>13 DEF Next

\* strategy.rs, maintainer.rs: whatever drains and batches do, a message that
\* sits in a queue is found by the timer again, or reinsert_ready_v2 failed
\* for it.
THEOREM NotStrandedTheorem == Spec => []NotStranded
<1>1. IInv /\ IInv' /\ NotStranded /\ [Next]_vars => NotStranded'
  BY NextNotStranded
<1>. QED
  BY <1>1, InitNotStranded, IInvAlways, PTL DEF Spec

----------------------------------------------------------------------------
(* No message is promoted early *)

LEMMA InitNotEarly == Init => Waits /\ NotEarly
BY DEF Init, Waits, NotEarly, NoBatch

\* The due time of a message stays as it is while a batch that waits for it, or
\* insert_ready, has it: only its owner puts it into a queue.
LEMMA NextNotEarly ==
  ASSUME IInv, IInv', Waits, NotEarly, [Next]_vars
  PROVE  Waits' /\ NotEarly'
<1> SUFFICES ASSUME strategy # V1, strategy' = strategy PROVE Waits' /\ NotEarly'
  <2>1. strategy' = strategy
    BY DEF Next, Insert, Dispose, InsertReadyEnds, InsertReadyFails, ForceIntoDelayed, Drain, DrainAndSave, Pop,
           BatchStep, StartWait, Reinsert, ReinsertFails, PassOn, Advance, Shutdown, vars
  <2>. QED
    BY <2>1 DEF Waits, NotEarly
<1>0. TypeOK /\ OneOwner /\ Calls /\ Held /\ InFlight
  BY DEF IInv
<1> USE DEF Waits, NotEarly
<1>1. ASSUME NEW m \in Msgs, NEW s \in Queues, NEW d \in 1..MaxTime, Stored(m, s, d), out[m] > 0,
             calling' \subseteq calling, \A c \in calling' : c.msg # m,
             ~Singleton => \A b \in Batches : \A i \in batch[b].items : i.msg # m,
             UNCHANGED <<now, batch>>
      PROVE  Waits' /\ NotEarly'
  <2>1. \A n \in Msgs : n # m => due'[n] = due[n]
    BY <1>0, <1>1 DEF Stored, TypeOK
  <2>2. \A b \in Batches : \A i \in batch[b].items : i \in Items /\ i.msg # m
    <3>1. \A b \in Batches : \A i \in batch[b].items : i \in Items
      BY <1>0 DEF TypeOK
    <3>2. CASE Singleton
      <4>1. strategy = V2
        BY <3>2 DEF Singleton
      <4>2. \A u \in Queues : m \notin q[u]
        BY <1>0, <1>1 DEF OneOwner, TypeOK
      <4>. QED
        BY <1>0, <3>1, <4>1, <4>2 DEF InFlight, Items
    <3>. QED
      BY <1>1, <3>1, <3>2
  <2>. QED
    BY <1>0, <1>1, <2>1, <2>2 DEF TypeOK, Items
<1>2. CASE \E m \in Msgs, s \in Queues, d \in 1..MaxTime : Insert(m, s, d)
  BY <1>1, <1>2 DEF Insert, Elsewhere
<1>3. CASE \E m \in Msgs : Dispose(m)
  BY <1>3 DEF Dispose
<1>4. ASSUME NEW c \in calling, InsertReadyEnds(c) \/ InsertReadyFails(c)
      PROVE  Waits' /\ NotEarly'
  <2>1. UNCHANGED <<due, now>> /\ calling' \subseteq calling
    BY <1>4 DEF InsertReadyEnds, InsertReadyFails
  <2>2. \A b \in Batches : batch'[b] = batch[b] \/ batch'[b] = NoBatch
    BY <1>4 DEF InsertReadyEnds, InsertReadyFails
  <2>. QED
    BY <2>1, <2>2 DEF NoBatch
<1>5. ASSUME NEW c \in calling, NEW d \in 1..MaxTime, ForceIntoDelayed(c, d)
      PROVE  Waits' /\ NotEarly'
  <2>1. c.msg \in Msgs /\ c.queue \in Queues /\ out[c.msg] = 1
    BY <1>0 DEF TypeOK, Calls, Items
  <2>2. calling' \subseteq calling /\ \A k \in calling' : k.msg # c.msg
    BY <1>0, <1>5 DEF Calls, ForceIntoDelayed
  <2>3. ~Singleton => \A b \in Batches : \A i \in batch[b].items : i.msg # c.msg
    BY <1>0 DEF Held
  <2>. QED
    BY <1>1, <1>5, <2>1, <2>2, <2>3 DEF ForceIntoDelayed
<1>6. CASE \E s \in Queues : Drain(s) \/ DrainAndSave(s)
  BY <1>6 DEF Drain, DrainAndSave
<1>7. ASSUME NEW b \in Batches, NEW popped \in SUBSET Ripe, Pop(b, popped)
      PROVE  Waits' /\ NotEarly'
  <2>1. /\ batch'[b].phase # "asleep"
        /\ \A d \in Batches : d # b => batch'[d] = batch[d]
    BY <1>0, <1>7 DEF Pop, PopWheel, PopQueue, NoBatch, TypeOK
  <2>. QED
    BY <1>7, <2>1 DEF Pop
<1>8. ASSUME NEW b \in Batches, StartWait(b) PROVE Waits' /\ NotEarly'
  <2>1. PICK w \in now..MaxTime :
          /\ \A i \in batch[b].items : due[i.msg] <= w
          /\ batch' = [batch EXCEPT ![b] = [phase |-> "asleep", items |-> batch[b].items, wake |-> w]]
    BY <1>8 DEF StartWait, WakeTime, Awaited
  <2>2. batch'[b].items = batch[b].items /\ batch'[b].wake = w
    BY <1>0, <2>1 DEF TypeOK
  <2>3. \A d \in Batches : d # b => batch'[d] = batch[d]
    BY <1>0, <2>1 DEF TypeOK
  <2>. QED
    BY <1>8, <2>1, <2>2, <2>3 DEF StartWait
<1>9. ASSUME NEW b \in Batches, NEW i \in batch[b].items,
             Reinsert(b, i) \/ ReinsertFails(b, i) \/ PassOn(b, i)
      PROVE  Waits' /\ NotEarly'
  <2>1. /\ \A d \in Batches : batch'[d].items \subseteq batch[d].items
        /\ \A d \in Batches : batch'[d].phase = "asleep" => /\ batch[d].phase = "asleep"
                                                            /\ batch'[d].wake = batch[d].wake
    BY <1>0, <1>9, WithoutFacts DEF Reinsert, ReinsertFails, PassOn
  <2>2. UNCHANGED <<due, now>> /\ calling' \subseteq calling \cup {i}
    BY <1>9 DEF Reinsert, Claim, ReinsertFails, PassOn
  <2>3. due[i.msg] <= now
    <3>1. batch[b].phase = "asleep" /\ batch[b].wake <= now
      BY <1>9 DEF Reinsert, Claim, ReinsertFails, PassOn, Awake
    <3>2. i.msg \in Msgs /\ batch[b].wake \in Nat /\ now \in Nat /\ due[i.msg] \in Nat
      BY <1>0, SQBoundsAssumption DEF TypeOK, Items
    <3>. QED
      BY <3>1, <3>2
  <2>. QED
    BY <2>1, <2>2, <2>3
<1>10. CASE Advance
  <2>1. \A c \in calling : due[c.msg] \in Nat /\ now \in Nat
    BY <1>0, SQBoundsAssumption DEF TypeOK, Items
  <2>. QED
    BY <1>10, <2>1 DEF Advance
<1>11. CASE Shutdown \/ UNCHANGED vars
  BY <1>11 DEF Shutdown, vars
<1>12. ASSUME NEW b \in Batches, BatchStep(b) PROVE Waits' /\ NotEarly'
  BY <1>8, <1>9, <1>12 DEF BatchStep
<1>. QED
  BY <1>2, <1>3, <1>4, <1>5, <1>6, <1>7, <1>10, <1>11, <1>12 DEF Next

\* mod.rs:39: insert_ready never gets a message before it is due, with any
\* strategy but version 1.
THEOREM NotEarlyTheorem == Spec => []NotEarly
<1>1. IInv /\ IInv' /\ Waits /\ NotEarly /\ [Next]_vars => Waits' /\ NotEarly'
  BY NextNotEarly
<1>. QED
  BY <1>1, InitNotEarly, IInvAlways, PTL DEF Spec

----------------------------------------------------------------------------
(* No message is lost *)

\* strategy.rs: without the SkipList strategy a message leaves its queue only
\* into the hands of one task, before a shutdown.
THEOREM NothingLostTheorem ==
  ASSUME "SkipList" \notin Strategies
  PROVE  Spec => NothingLost
<1> DEFINE Kept == ~shutting => \A m \in Msgs :
             (\E s \in Queues : m \in q[s]) /\ (\A s \in Queues : m \notin q'[s]) => out'[m] = 1
<1>1. ASSUME IInv, IInv', [Next]_vars PROVE Kept
  <2> SUFFICES ASSUME ~shutting, NEW m \in Msgs, NEW s \in Queues, m \in q[s],
                      \A u \in Queues : m \notin q'[u]
               PROVE  out'[m] = 1
    OBVIOUS
  <2>0. TypeOK /\ OneOwner /\ out[m] = 0 /\ q \in [Queues -> SUBSET Msgs]
    BY <1>1 DEF IInv, TypeOK, OneOwner
  <2>1. ASSUME NEW n \in Msgs, NEW u \in Queues, NEW d \in 1..MaxTime, Stored(n, u, d) PROVE FALSE
    <3>1. Displaced(u, d) = {}
      BY <2>0 DEF Displaced, TypeOK
    <3>. QED
      BY <2>0, <2>1, <3>1 DEF Stored
  <2>2. CASE \E n \in Msgs, u \in Queues, d \in 1..MaxTime : Insert(n, u, d)
    BY <2>1, <2>2 DEF Insert
  <2>3. CASE \E c \in calling, d \in 1..MaxTime : ForceIntoDelayed(c, d)
    BY <2>0, <2>1, <2>3 DEF ForceIntoDelayed, TypeOK, Items
  <2>4. ASSUME NEW u \in Queues, Drain(u) PROVE out'[m] = 1
    <3>1. m \in Drained(u)
      BY <2>0, <2>4 DEF Drain
    <3>. QED
      BY <2>0, <2>4, <3>1 DEF Drain
  <2>5. ASSUME NEW b \in Batches, NEW popped \in SUBSET Ripe, Pop(b, popped) PROVE out'[m] = 1
    <3>1. PopQueue(b, popped)
      BY <2>5 DEF Pop, PopWheel
    <3>2. \E e \in popped : e.msg = m
      BY <2>0, <3>1 DEF PopQueue
    <3>. QED
      BY <2>0, <3>1, <3>2 DEF PopQueue
  <2>6. ASSUME NEW b \in Batches, NEW i \in batch[b].items, Reinsert(b, i) PROVE out'[m] = 1
    <3>1. i.msg = m /\ out' = [out EXCEPT ![i.msg] = @ + 1]
      BY <2>0, <2>6 DEF Reinsert, Claim
    <3>. QED
      BY <2>0, <3>1 DEF TypeOK
  <2>7. \/ \E n \in Msgs, u \in Queues, d \in 1..MaxTime : Insert(n, u, d)
        \/ \E c \in calling, d \in 1..MaxTime : ForceIntoDelayed(c, d)
        \/ \E u \in Queues : Drain(u)
        \/ \E b \in Batches, popped \in SUBSET Ripe : Pop(b, popped)
        \/ \E b \in Batches : \E i \in batch[b].items : Reinsert(b, i)
    BY <1>1 DEF Next, Dispose, InsertReadyEnds, InsertReadyFails, DrainAndSave, BatchStep, StartWait, ReinsertFails,
                PassOn, Advance, Shutdown, vars
  <2>. QED
    BY <2>2, <2>3, <2>4, <2>5, <2>6, <2>7
<1>2. IInv /\ IInv' /\ [Next]_vars => [Kept]_vars
  BY <1>1
<1>. QED
  BY <1>2, IInvAlways, PTL DEF Spec, NothingLost
\* strategy.rs, maintainer.rs: queues, timer entries and batches keep their
\* types, and a strategy that cancels leaves no entry of a message that is gone.
THEOREM ScheduledQueueTypes == Spec => []TypeOK
  BY OwnershipTheorem, PTL
=============================================================================
