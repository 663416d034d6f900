------------------------ MODULE StoreAndTimerProofs -------------------------
(***************************************************************************)
(* Theorems about the two parts of the message crate.  MessageStore: for   *)
(* every number of tasks and of versions.  TimeQ: the wheel is a timer for *)
(* every number of messages, tiers and lists, every resolution and every   *)
(* delay of a pop.                                                         *)
(***************************************************************************)
EXTENDS MessageStore, TimeQ, FiniteSetTheorems, TLAPS

-----------------------------------------------------------------------------
(* MessageStore                                                            *)

----------------------------------------------------------------------------
(* The inductive invariant *)

\* Versions are given out in order.
Ordered ==
  \A p \in Parts : /\ mem[p] <= clock /\ disk[p] <= clock /\ covered[p] <= clock
                   /\ \A t \in Tasks : snap[t][p] <= clock

\* Without a Message nobody works on it.
Dead == ~live => /\ mem = Nothing /\ dirty = {} /\ covered = disk
                 /\ \A t \in Tasks : pc[t] = "idle"

\* The copies of a save or a load are not behind a covered change: none is
\* made while they are about.
Copies ==
  gone = {} =>
    \A t \in Tasks : pc[t] \in {"saving", "loading"} =>
      \A p \in Parts : snap[t][p] # None => covered[p] <= snap[t][p]

\* A save has a copy of what it stores; a part it has stored, and a part it
\* need not store, is in the spool.
Saving ==
  \A t \in Tasks : pc[t] = "saving" =>
    \A p \in Parts :
      /\ p \in todo[t] \cup stored[t] => snap[t][p] # None
      /\ gone = {} /\ (snap[t][p] = None \/ p \in stored[t]) => covered[p] <= disk[p]

\* What a save promised is covered, and in the spool.
Promised == gone = {} => \A p \in Parts : acked[p] <= disk[p] /\ acked[p] <= covered[p]

\* The metadata file is gone and nobody has a copy to store.
Spent == spent => disk["meta"] = None /\ NobodySaves

IInv == /\ TypeOK /\ MetaIsHeld /\ Ordered /\ Dead /\ Copies /\ Saving
        /\ CleanMeansSaved /\ NoCoveredChangeLost /\ Promised /\ Spent

----------------------------------------------------------------------------
LEMMA InitIInv == Init => IInv
<1> SUFFICES ASSUME Init PROVE IInv
  OBVIOUS
<1>1. TypeOK
  <2>1. 0 \in Version /\ 1 \in Version /\ 1 \in 1..MaxVersion
    BY VersionAssumption DEF Version
  <2>2. Nothing \in [Parts -> Version] /\ [p \in Parts |-> 1] \in [Parts -> Version]
    BY <2>1 DEF Nothing, None
  <2>. QED
    BY <2>1, <2>2 DEF Init, TypeOK
<1>2. MetaIsHeld /\ Ordered /\ Dead /\ Copies /\ Saving
  BY DEF Init, MetaIsHeld, Ordered, Dead, Copies, Saving, Nothing, None, Parts
<1>3. CleanMeansSaved /\ NoCoveredChangeLost /\ Promised /\ Spent
  BY DEF Init, CleanMeansSaved, NoCoveredChangeLost, Promised, Spent, Nothing, None, Parts
<1>. QED
  BY <1>1, <1>2, <1>3 DEF IInv

\* Versions are natural numbers.
LEMMA Versions ==
  ASSUME IInv
  PROVE  /\ Version \subseteq Nat /\ None \in Version /\ Nothing \in [Parts -> Version]
         /\ \A p \in Parts : {mem[p], disk[p], covered[p], acked[p]} \subseteq Nat
         /\ \A t \in Tasks : \A p \in Parts : snap[t][p] \in Nat
BY VersionAssumption DEF IInv, TypeOK, Version, None, Nothing

LEMMA EditStep ==
  ASSUME IInv, NEW t \in Tasks, NEW k \in EditKinds, Edit(t, k)
  PROVE  IInv'
<1> DEFINE p == Changes(k)
<1>1. p \in Parts /\ DirtiedBy(k) \subseteq Parts
  BY DEF EditKinds, Changes, DirtiedBy, Parts
<1>2. /\ live /\ pc[t] = "idle" /\ clock < MaxVersion /\ clock' = clock + 1
      /\ p = "meta" => mem[p] # None
      /\ mem' = [mem EXCEPT ![p] = clock + 1]
      /\ dirty' = dirty \cup DirtiedBy(k)
      /\ covered' = IF p \in dirty' /\ Alone(t) THEN [covered EXCEPT ![p] = clock + 1] ELSE covered
      /\ spent' = (spent /\ "meta" \notin dirty')
      /\ UNCHANGED <<live, disk, pc, snap, todo, stored, acked, gone>>
  BY DEF Edit, Idle
<1>3. clock + 1 \in 1..MaxVersion /\ clock + 1 \in Version /\ clock + 1 # None /\ clock \in Nat
  BY <1>2, VersionAssumption DEF IInv, TypeOK, Version, None
<1>4. p = "meta" \/ "meta" \notin DirtiedBy(k)
  BY DEF EditKinds, Changes, DirtiedBy
<1>. HIDE DEF p
<1>5. TypeOK'
  BY <1>1, <1>2, <1>3 DEF IInv, TypeOK
<1>6. /\ mem'[p] = clock + 1 /\ \A q \in Parts \ {p} : mem'[q] = mem[q]
      /\ \A q \in Parts : covered'[q] = covered[q] \/ (q = p /\ covered'[q] = clock + 1)
  BY <1>1, <1>2 DEF IInv, TypeOK
<1>7. MetaIsHeld' /\ Dead'
  BY <1>1, <1>2, <1>3, <1>4, <1>6 DEF IInv, MetaIsHeld, Dead, Parts
<1>8. Ordered'
  BY <1>1, <1>2, <1>3, <1>6, Versions DEF IInv, Ordered
<1>9. NoCoveredChangeLost' /\ Promised'
  BY <1>1, <1>2, <1>3, <1>6, Versions DEF IInv, NoCoveredChangeLost, Promised, Ordered, None
<1>10. CASE covered' = covered
  <2>1. Copies' /\ Saving' /\ CleanMeansSaved'
    BY <1>2, <1>10 DEF IInv, Copies, Saving, CleanMeansSaved
  <2>2. Spent'
    BY <1>2 DEF IInv, Spent, NobodySaves
  <2>. QED
    BY <1>5, <1>7, <1>8, <1>9, <2>1, <2>2 DEF IInv
<1>11. CASE p \in dirty' /\ Alone(t) /\ covered' = [covered EXCEPT ![p] = clock + 1]
  <2>1. \A u \in Tasks : pc'[u] \notin {"saving", "loading"}
    BY <1>2, <1>11 DEF Alone
  <2>2. Copies' /\ Saving'
    BY <2>1 DEF Copies, Saving
  <2>3. CleanMeansSaved'
    BY <1>2, <1>6, <1>11 DEF IInv, CleanMeansSaved
  <2>4. Spent'
    BY <1>2 DEF IInv, Spent, NobodySaves
  <2>. QED
    BY <1>5, <1>7, <1>8, <1>9, <2>2, <2>3, <2>4 DEF IInv
<1>. QED
  BY <1>2, <1>10, <1>11

LEMMA SaveStartStep ==
  ASSUME IInv, NEW t \in Tasks, SaveStart(t)
  PROVE  IInv'
<1>1. SnapDirty \in [Parts -> Version] /\ \A p \in Parts : SnapDirty[p] = IF p \in dirty THEN mem[p] ELSE None
  BY VersionAssumption DEF IInv, TypeOK, SnapDirty, Version, None
<1>2. /\ live /\ pc[t] = "idle" /\ ~("data" \in dirty /\ mem["data"] = None)
      /\ pc' = [pc EXCEPT ![t] = "saving"] /\ snap' = [snap EXCEPT ![t] = SnapDirty]
      /\ stored' = [stored EXCEPT ![t] = {}]
      /\ todo' = [todo EXCEPT ![t] = {p \in Parts : SnapDirty[p] # None}]
      /\ UNCHANGED <<live, mem, dirty, disk, clock, covered, acked, gone, spent>>
  BY DEF SaveStart, Idle
<1>3. /\ snap'[t] = SnapDirty /\ pc'[t] = "saving" /\ stored'[t] = {}
      /\ todo'[t] = {p \in Parts : SnapDirty[p] # None}
      /\ \A u \in Tasks \ {t} : snap'[u] = snap[u] /\ pc'[u] = pc[u] /\ todo'[u] = todo[u] /\ stored'[u] = stored[u]
  BY <1>2 DEF IInv, TypeOK
<1>4. TypeOK'
  BY <1>1, <1>2 DEF IInv, TypeOK
<1>5. \A p \in dirty : mem[p] # None
  BY <1>2 DEF IInv, TypeOK, MetaIsHeld, Parts
<1>6. Copies'
  BY <1>1, <1>2, <1>3 DEF IInv, Copies, NoCoveredChangeLost, None
<1>7. Saving'
  BY <1>1, <1>2, <1>3, <1>5 DEF IInv, Saving, CleanMeansSaved
<1>8. Ordered'
  BY <1>1, <1>2, <1>3, Versions DEF IInv, Ordered, None, TypeOK
<1>9. MetaIsHeld' /\ Dead' /\ CleanMeansSaved' /\ NoCoveredChangeLost' /\ Promised'
  BY <1>2 DEF IInv, MetaIsHeld, Dead, CleanMeansSaved, NoCoveredChangeLost, Promised
<1>10. Spent'
  BY <1>1, <1>2, <1>3 DEF IInv, Spent, NobodySaves
<1>. QED
  BY <1>4, <1>6, <1>7, <1>8, <1>9, <1>10 DEF IInv

LEMMA StoreStep ==
  ASSUME IInv, NEW t \in Tasks, NEW p \in Parts, Store(t, p) \/ StoreFails(t, p)
  PROVE  IInv'
<1>1. /\ pc[t] = "saving" /\ p \in todo[t] /\ live
      /\ UNCHANGED <<live, mem, dirty, pc, snap, clock, covered, acked, gone, spent>>
  BY DEF Store, StoreFails, IInv, Dead
<1>2. snap[t][p] # None /\ (gone = {} => covered[p] <= snap[t][p])
  BY <1>1 DEF IInv, Saving, Copies
<1>3. /\ todo' = [todo EXCEPT ![t] = @ \ {p}]
      /\ \/ disk' = [disk EXCEPT ![p] = snap[t][p]] /\ stored' = [stored EXCEPT ![t] = @ \cup {p}]
         \/ UNCHANGED <<disk, stored>>
  BY DEF Store, StoreFails
<1>4. TypeOK'
  <2>1. snap[t][p] \in Version /\ stored' \in [Tasks -> SUBSET Parts] /\ todo' \in [Tasks -> SUBSET Parts]
    BY <1>3 DEF IInv, TypeOK
  <2>2. disk' \in [Parts -> Version]
    BY <1>3, <2>1 DEF IInv, TypeOK
  <2>3. \A u \in Tasks : u # t => todo'[u] = todo[u] /\ stored'[u] = stored[u]
    BY <1>3 DEF IInv, TypeOK
  <2>. QED
    BY <1>1, <2>1, <2>2, <2>3 DEF IInv, TypeOK
<1>5. /\ \A q \in Parts : disk'[q] = disk[q] \/ (q = p /\ disk'[q] = snap[t][p])
      /\ \A u \in Tasks : todo'[u] \subseteq todo[u]
      /\ \A u \in Tasks : \A q \in Parts :
           q \in stored'[u] => q \in stored[u] \/ (u = t /\ q = p /\ disk'[q] = snap[t][p])
  BY <1>3 DEF IInv, TypeOK
<1>6. MetaIsHeld' /\ Dead' /\ Copies'
  BY <1>1 DEF IInv, MetaIsHeld, Dead, Copies
<1>7. Ordered'
  BY <1>1, <1>5 DEF IInv, Ordered
<1>8. Saving'
  <2> SUFFICES ASSUME NEW u \in Tasks, pc[u] = "saving", NEW q \in Parts
               PROVE  /\ q \in todo'[u] \cup stored'[u] => snap[u][q] # None
                      /\ gone = {} /\ (snap[u][q] = None \/ q \in stored'[u]) => covered[q] <= disk'[q]
    BY <1>1 DEF Saving
  <2>. QED
    BY <1>1, <1>2, <1>5 DEF IInv, Saving
<1>9. CleanMeansSaved' /\ NoCoveredChangeLost'
  BY <1>1, <1>2, <1>5 DEF IInv, CleanMeansSaved, NoCoveredChangeLost
<1>10. Promised'
  <2> SUFFICES ASSUME gone = {}, NEW q \in Parts
               PROVE  acked[q] <= disk'[q] /\ acked[q] <= covered[q]
    BY <1>1 DEF Promised
  <2>. QED
    BY <1>2, <1>5, Versions DEF IInv, Promised
<1>11. Spent'
  <2>1. spent => p # "meta" /\ disk["meta"] = None
    BY <1>1 DEF IInv, Spent, NobodySaves
  <2>2. spent => disk'["meta"] = None
    BY <1>5, <2>1 DEF Parts
  <2>. QED
    BY <1>1, <1>5, <2>2 DEF IInv, Spent, NobodySaves
<1>. QED
  BY <1>4, <1>6, <1>7, <1>8, <1>9, <1>10, <1>11 DEF IInv

LEMMA SaveFinishStep ==
  ASSUME IInv, NEW t \in Tasks, SaveFinish(t)
  PROVE  IInv'
<1>1. /\ pc[t] = "saving" /\ todo[t] = {} /\ live
      /\ dirty' = dirty \ stored[t]
      /\ snap' = [snap EXCEPT ![t] = Nothing] /\ stored' = [stored EXCEPT ![t] = {}]
      /\ pc' = [pc EXCEPT ![t] = "idle"]
      /\ UNCHANGED <<live, mem, disk, todo, clock, covered, gone, spent>>
  BY DEF SaveFinish, BothDone, Cleared, IInv, Dead
<1>2. \/ acked' = acked
      \/ acked' = covered /\ \A p \in Parts : snap[t][p] # None => p \in stored[t]
  BY DEF SaveFinish
<1>3. /\ pc'[t] = "idle" /\ snap'[t] = Nothing /\ stored'[t] = {}
      /\ \A u \in Tasks \ {t} : snap'[u] = snap[u] /\ pc'[u] = pc[u] /\ stored'[u] = stored[u]
  BY <1>1 DEF IInv, TypeOK
<1>4. TypeOK'
  BY <1>1, <1>2, Versions DEF IInv, TypeOK
<1>5. MetaIsHeld' /\ Dead' /\ NoCoveredChangeLost'
  BY <1>1 DEF IInv, MetaIsHeld, Dead, NoCoveredChangeLost
<1>6. Copies' /\ Saving'
  BY <1>1, <1>3 DEF IInv, Copies, Saving
<1>7. Ordered'
  BY <1>1, <1>3 DEF IInv, Ordered, Nothing, None, TypeOK
<1>8. CleanMeansSaved'
  BY <1>1 DEF IInv, CleanMeansSaved, Saving
<1>9. Promised'
  BY <1>1, <1>2, Versions DEF IInv, Promised, Saving
<1>10. Spent'
  BY <1>1, <1>3 DEF IInv, Spent, NobodySaves
<1>. QED
  BY <1>4, <1>5, <1>6, <1>7, <1>8, <1>9, <1>10 DEF IInv

LEMMA ShrinkStep ==
  ASSUME IInv, NEW t \in Tasks, Shrink(t) \/ ShrinkData(t)
  PROVE  IInv'
<1>1. /\ live /\ UNCHANGED <<live, dirty, disk, pc, snap, todo, stored, clock, covered, acked, gone, spent>>
      /\ \/ mem' = Nothing /\ dirty = {}
         \/ mem' = [mem EXCEPT !["data"] = None] /\ "data" \notin dirty
  BY DEF Shrink, ShrinkData, Shrinkable, Idle, IInv, TypeOK
<1>2. TypeOK'
  BY <1>1, Versions DEF IInv, TypeOK, Parts
<1>3. \A p \in Parts : mem'[p] = mem[p] \/ (mem'[p] = None /\ p \notin dirty)
  BY <1>1 DEF IInv, TypeOK, Nothing, Parts
<1>4. MetaIsHeld' /\ Dead' /\ Copies' /\ Saving' /\ CleanMeansSaved' /\ Promised' /\ Spent'
  BY <1>1, <1>3 DEF IInv, MetaIsHeld, Dead, Copies, Saving, CleanMeansSaved, Promised, Spent, NobodySaves, Parts
<1>5. Ordered'
  BY <1>1, <1>3 DEF IInv, Ordered, None, TypeOK
<1>6. NoCoveredChangeLost'
  BY <1>1, <1>3 DEF IInv, CleanMeansSaved, NoCoveredChangeLost
<1>. QED
  BY <1>2, <1>4, <1>5, <1>6 DEF IInv

LEMMA LoadStep ==
  ASSUME IInv, NEW t \in Tasks, (\E p \in Parts : LoadStart(t, p)) \/ LoadFinish(t)
  PROVE  IInv'
<1>1. /\ pc[t] \in {"idle", "loading"} /\ live
      /\ UNCHANGED <<live, dirty, disk, todo, stored, clock, covered, acked, gone, spent>>
      /\ todo[t] = {} /\ stored[t] = {}
  BY DEF LoadStart, LoadFinish, Idle, IInv, TypeOK, Dead
<1>2. CASE \E p \in Parts : LoadStart(t, p)
  <2>1. PICK p \in Parts : LoadStart(t, p)
    BY <1>2
  <2>2. /\ mem[p] = None /\ mem' = mem /\ pc' = [pc EXCEPT ![t] = "loading"]
        /\ snap' = [snap EXCEPT ![t] = [Nothing EXCEPT ![p] = disk[p]]]
    BY <2>1 DEF LoadStart
  <2>3. /\ pc'[t] = "loading" /\ \A u \in Tasks \ {t} : snap'[u] = snap[u] /\ pc'[u] = pc[u]
        /\ \A q \in Parts : snap'[t][q] = IF q = p THEN disk[p] ELSE None
    BY <2>2 DEF IInv, TypeOK, Nothing
  <2>4. TypeOK'
    BY <1>1, <2>2, Versions DEF IInv, TypeOK
  <2>5. Copies' /\ Saving'
    BY <1>1, <2>2, <2>3 DEF IInv, Copies, Saving, NoCoveredChangeLost
  <2>6. Ordered'
    BY <1>1, <2>2, <2>3 DEF IInv, Ordered, None, TypeOK
  <2>7. MetaIsHeld' /\ Dead' /\ CleanMeansSaved' /\ NoCoveredChangeLost' /\ Promised'
    BY <1>1, <2>2 DEF IInv, MetaIsHeld, Dead, CleanMeansSaved, NoCoveredChangeLost, Promised
  <2>8. Spent'
    BY <1>1, <2>2, <2>3 DEF IInv, Spent, NobodySaves
  <2>. QED
    BY <2>4, <2>5, <2>6, <2>7, <2>8 DEF IInv
<1>3. CASE LoadFinish(t)
  <2>1. /\ pc[t] = "loading" /\ mem' = [p \in Parts |-> IF snap[t][p] # None THEN snap[t][p] ELSE mem[p]]
        /\ snap' = [snap EXCEPT ![t] = Nothing] /\ pc' = [pc EXCEPT ![t] = "idle"]
    BY <1>3 DEF LoadFinish
  <2>2. /\ pc'[t] = "idle" /\ snap'[t] = Nothing
        /\ \A u \in Tasks \ {t} : snap'[u] = snap[u] /\ pc'[u] = pc[u]
        /\ \A p \in Parts : mem'[p] = IF snap[t][p] # None THEN snap[t][p] ELSE mem[p]
    BY <2>1 DEF IInv, TypeOK
  <2>3. TypeOK'
    BY <1>1, <2>1, Versions DEF IInv, TypeOK
  <2>4. Copies' /\ Saving'
    BY <1>1, <2>2 DEF IInv, Copies, Saving
  <2>5. Ordered'
    <3>1. \A p \in Parts : snap'[t][p] <= clock /\ mem'[p] <= clock
      BY <2>2 DEF IInv, Ordered, TypeOK, Nothing, None
    <3>. QED
      BY <1>1, <2>2, <3>1 DEF IInv, Ordered
  <2>6. MetaIsHeld' /\ Dead' /\ CleanMeansSaved' /\ Promised'
    BY <1>1, <2>2 DEF IInv, MetaIsHeld, Dead, CleanMeansSaved, Promised, Parts
  <2>7. NoCoveredChangeLost'
    BY <1>1, <2>1, <2>2 DEF IInv, NoCoveredChangeLost, Copies
  <2>8. Spent'
    BY <1>1, <2>2 DEF IInv, Spent, NobodySaves
  <2>. QED
    BY <2>3, <2>4, <2>5, <2>6, <2>7, <2>8 DEF IInv
<1>. QED
  BY <1>2, <1>3

LEMMA RemoveStep ==
  ASSUME IInv, NEW t \in Tasks,
         RemoveStart(t) \/ RemoveFinish(t) \/ \E p \in Parts : Remove(t, p)
  PROVE  IInv'
<1>1. /\ live /\ pc[t] \notin {"saving", "loading"} /\ pc'[t] \notin {"saving", "loading"}
      /\ UNCHANGED <<live, mem, dirty, snap, stored, clock, covered, acked>>
      /\ \A u \in Tasks \ {t} : pc'[u] = pc[u] /\ todo'[u] = todo[u]
  BY DEF RemoveStart, RemoveFinish, Remove, Idle, IInv, Dead, TypeOK
<1>2. \/ UNCHANGED <<disk, gone, spent>>
      \/ \E p \in Parts : /\ disk' = [disk EXCEPT ![p] = None] /\ gone' = gone \cup {p}
                          /\ spent' = IF p = "meta" THEN NobodySaves ELSE spent
  BY DEF RemoveStart, RemoveFinish, Remove
<1>3. TypeOK'
  <2>1. disk' \in [Parts -> Version] /\ gone' \in SUBSET Parts /\ spent' \in BOOLEAN
    BY <1>2, Versions DEF IInv, TypeOK, NobodySaves
  <2>2. /\ todo' \in [Tasks -> SUBSET Parts] /\ pc' \in [Tasks -> {"idle", "saving", "loading", "removing"}]
        /\ pc'[t] = "idle" => todo'[t] = {}
        /\ stored[t] = {}
    BY DEF RemoveStart, RemoveFinish, Remove, Idle, IInv, TypeOK
  <2>. QED
    BY <1>1, <2>1, <2>2 DEF IInv, TypeOK
<1>4. \A p \in Parts : disk'[p] = disk[p] \/ (disk'[p] = None /\ gone' # {})
  BY <1>2 DEF IInv, TypeOK
<1>5. gone' = {} => gone = {} /\ disk' = disk
  BY <1>2
<1>6. MetaIsHeld' /\ Dead'
  BY <1>1 DEF IInv, MetaIsHeld, Dead
<1>7. Ordered'
  BY <1>1, <1>4 DEF IInv, Ordered, None, TypeOK
<1>8. Copies' /\ Saving'
  BY <1>1, <1>5 DEF IInv, Copies, Saving
<1>9. CleanMeansSaved' /\ NoCoveredChangeLost' /\ Promised'
  BY <1>1, <1>5 DEF IInv, CleanMeansSaved, NoCoveredChangeLost, Promised
<1>10. Spent'
  <2>1. NobodySaves => NobodySaves'
    BY <1>1 DEF NobodySaves
  <2>. QED
    BY <1>2, <2>1 DEF IInv, Spent, TypeOK, Parts
<1>. QED
  BY <1>3, <1>6, <1>7, <1>8, <1>9, <1>10 DEF IInv

LEMMA CrashStep ==
  ASSUME IInv, Crash
  PROVE  IInv'
<1>1. TypeOK'
  BY Versions DEF Crash, IInv, TypeOK
<1>2. MetaIsHeld' /\ Dead' /\ Copies' /\ Saving' /\ Spent'
  BY DEF Crash, IInv, MetaIsHeld, Dead, Copies, Saving, Spent, NobodySaves
<1>3. Ordered'
  BY DEF Crash, IInv, Ordered, Nothing, None, TypeOK
<1>4. CleanMeansSaved' /\ NoCoveredChangeLost' /\ Promised'
  BY Versions DEF Crash, IInv, CleanMeansSaved, NoCoveredChangeLost, Promised
<1>. QED
  BY <1>1, <1>2, <1>3, <1>4 DEF IInv

LEMMA RestartStep ==
  ASSUME IInv, Restart
  PROVE  IInv'
<1>1. /\ ~live /\ dirty = {} /\ covered = disk /\ (\A t \in Tasks : pc[t] = "idle")
      /\ UNCHANGED <<dirty, disk, pc, snap, todo, stored, clock, covered, acked, gone, spent>>
      /\ \A p \in Parts : Enumerated[p] = IF p = "meta" THEN disk[p] ELSE None
      /\ mem' = Enumerated /\ live' = TRUE
  BY DEF Restart, IInv, Dead, Enumerated, Nothing, Parts
<1>2. TypeOK'
  BY <1>1, Versions DEF IInv, TypeOK, Enumerated
<1>3. MetaIsHeld' /\ Dead' /\ Copies' /\ Saving' /\ CleanMeansSaved' /\ Promised' /\ Spent'
  BY <1>1 DEF IInv, MetaIsHeld, Dead, Copies, Saving, CleanMeansSaved, Promised, Spent, NobodySaves
<1>4. Ordered'
  BY <1>1 DEF IInv, Ordered, None, TypeOK
<1>5. NoCoveredChangeLost'
  BY <1>1, Versions DEF NoCoveredChangeLost
<1>. QED
  BY <1>2, <1>3, <1>4, <1>5 DEF IInv

LEMMA NextIInv == IInv /\ [Next]_vars => IInv'
<1> SUFFICES ASSUME IInv, [Next]_vars PROVE IInv'
  OBVIOUS
<1>1. CASE Next
  BY <1>1, EditStep, SaveStartStep, StoreStep, SaveFinishStep, ShrinkStep, LoadStep,
     RemoveStep, CrashStep, RestartStep DEF Next
<1>2. CASE UNCHANGED vars
  BY <1>2 DEF vars, IInv, TypeOK, MetaIsHeld, Ordered, Dead, Copies, Saving,
     CleanMeansSaved, NoCoveredChangeLost, Promised, Spent, NobodySaves
<1>. QED
  BY <1>1, <1>2

LEMMA IInvAlways == Spec => []IInv
BY InitIInv, NextIInv, PTL DEF Spec

----------------------------------------------------------------------------
\* Durability, for any number of tasks and every setter: what a save that
\* reported Ok covered stays in the spool, until a file of the message is
\* removed, through failed stores, other tasks' saves, crashes and restarts.
THEOREM DurabilityTheorem == Spec => []AckedSurvives
<1>1. IInv => AckedSurvives
  BY DEF IInv, Promised, AckedSurvives
<1>. QED
  BY <1>1, IInvAlways, PTL

\* No change made with its flag up, and no other task inside a save or a
\* load, is lost to a reader by failed saves, shrinks, loads and restarts.
THEOREM CoveredChangesAreRead == Spec => []NoCoveredChangeLost
<1>1. IInv => NoCoveredChangeLost
  BY DEF IInv
<1>. QED
  BY <1>1, IInvAlways, PTL

\* Metadata that remove_from_spool removed when nobody had it left to save
\* stays removed, whatever the remaining holders of the message do short of
\* raising its flag again.
THEOREM RemovalTheorem == Spec => []RemovedStaysRemoved
<1>1. IInv => RemovedStaysRemoved
  BY DEF IInv, Spent, RemovedStaysRemoved
<1>. QED
  BY <1>1, IInvAlways, PTL

\* The flags may be trusted for covered changes: a part whose flag is down
\* has them in the spool, and metadata whose flag is up is in memory.
THEOREM FlagsTheorem == Spec => [](CleanMeansSaved /\ MetaIsHeld)
<1>1. IInv => CleanMeansSaved /\ MetaIsHeld
  BY DEF IInv
<1>. QED
  BY <1>1, IInvAlways, PTL

\* The message keeps its types, and a task between operations has no store
\* outstanding.
THEOREM MessageStoreTypes == Spec => []TypeOK
<1>1. IInv => TypeOK
  BY DEF IInv
<1>. QED
  BY <1>1, IInvAlways, PTL

-----------------------------------------------------------------------------
(* TimeQ                                                                   *)

\* The lists that are visited at tick i, and those that no tick after L has
\* visited, where L was over before time d.
VisitedAt(i) == CascadeLists(i) \cup {<<0, i % Size>>}
Unvisited(p, L, D) == \A i \in (L + 1) .. D : p \notin VisitedAt(i)
Fresh(p, d, D) == \E L \in 0 .. D : L * Resolution < d /\ Unvisited(p, L, D)

Clocks == /\ {now, next_run, last_dispatched} \subseteq Nat
          /\ last_dispatched <= now /\ next_run = last_dispatched + Resolution

Slots ==
  /\ lists \in [Places -> SUBSET Ids]
  /\ owner \in [Ids -> Msgs \cup {NoMsg}]
  /\ entry \in [Msgs -> Ids \cup {NoEntry}]
  /\ due \in [Msgs -> Nat]

\* Slot e is in no two lists of ls.
Once(e, ls) == \A p, q \in Places : e \in ls[p] /\ e \in ls[q] => p = q

\* The current slot of a message is in a list that no tick has visited since
\* it was put there, when the message was not due.
Scheduled ==
  \A m \in Msgs : entry[m] # NoEntry =>
    /\ owner[entry[m]] = m
    /\ \E p \in Places : entry[m] \in lists[p] /\ Fresh(p, due[m], Down(last_dispatched))
    /\ Once(entry[m], lists)

WheelIInv == Clocks /\ Slots /\ Scheduled /\ out \in (SUBSET Msgs) \cup {NoMsg}
-----------------------------------------------------------------------------
(* Arithmetic.                                                             *)

LEMMA DivMod ==
  ASSUME NEW a \in Nat, NEW b \in Nat \ {0}
  PROVE  a % b \in 0 .. b - 1 /\ a \div b \in Nat /\ a = (b * (a \div b)) + (a % b)
OBVIOUS

LEMMA DivUnique ==
  ASSUME NEW a \in Nat, NEW b \in Nat \ {0}, NEW q \in Nat, NEW r \in 0 .. b - 1, a = (b * q) + r
  PROVE  a \div b = q /\ a % b = r
OBVIOUS

\* Among any M ticks in a row there is one of each class modulo M.
LEMMA Residue ==
  ASSUME NEW M \in Nat \ {0}, NEW c \in 0 .. M - 1, NEW L \in Nat
  PROVE  \E q \in Nat : (M * q) + c \in (L + 1) .. (L + M)
<1>1. PICK x \in Nat : x = L + M - c
  OBVIOUS
<1>2. x % M \in 0 .. M - 1 /\ x \div M \in Nat /\ x = (M * (x \div M)) + (x % M)
  BY DivMod
<1>3. PICK q \in Nat : q = x \div M
  BY <1>2
<1> QED
  BY <1>1, <1>2, <1>3

LEMMA SmallestMember ==
  ASSUME NEW n \in Nat, NEW S \in SUBSET (0..n), S # {}
  PROVE  \E x \in S : \A y \in S : x <= y
<1> DEFINE T == {0..x : x \in S}
<1>1. T \in SUBSET (SUBSET (0..n)) /\ T # {}
  <2>1. \A x \in S : 0..x \in SUBSET (0..n)
    OBVIOUS
  <2> QED
    BY <2>1
<1>2. IsFiniteSet(0..n)
  BY FS_Interval
<1>3. IsWellFoundedOn(StrictSubsetOrdering(0..n), SUBSET (0..n))
  BY <1>2, FS_StrictSubsetOrderingWellFounded, FS_FiniteSubsetsOfFinite
<1>4. PICK s \in T : \A t \in T : ~(<<t, s>> \in StrictSubsetOrdering(0..n))
  <2> HIDE DEF T
  <2> QED
    BY <1>1, <1>3, WFMin
<1>5. PICK x \in S : s = 0..x
  OBVIOUS
<1>6. ASSUME NEW y \in S PROVE x <= y
  <2> SUFFICES ASSUME y < x PROVE FALSE
    OBVIOUS
  <2>1. 0..y \in T /\ 0..y \subseteq 0..x /\ 0..y # 0..x
    OBVIOUS
  <2> QED
    BY <1>1, <1>4, <1>5, <2>1 DEF StrictSubsetOrdering
<1> QED
  BY <1>6

\* A recursion over 0..n: a table whose entries are in W, and its steps.
Iterates(f, n, W, base, g) == f \in [0..n -> W] /\ f[0] = base /\ \A i \in 1..n : f[i] = g[i][f[i - 1]]
Steps(g, n, W) == g \in [1..n -> [W -> W]]

LEMMA Recursion ==
  ASSUME NEW n \in Nat, NEW W, NEW base \in W, NEW g, Steps(g, n, W)
  PROVE  \E f : Iterates(f, n, W, base, g)
<1> USE DEF Iterates, Steps
<1> DEFINE Table(f, k) == f \in [0..k -> W] /\ f[0] = base /\ \A i \in 1..k : f[i] = g[i][f[i - 1]]
           S == {k \in 0..n : ~\E f : Table(f, k)}
<1> SUFFICES ASSUME S # {} PROVE FALSE
  <2>1. n \notin S => \E f : Table(f, n)
    OBVIOUS
  <2> QED
    BY <2>1
<1>1. PICK k \in S : \A j \in S : k <= j
  <2>1. S \in SUBSET (0..n)
    OBVIOUS
  <2> HIDE DEF S
  <2> QED
    BY <2>1, SmallestMember
<1>2. CASE k = 0
  <2>1. PICK f : f = [i \in 0..0 |-> base]
    OBVIOUS
  <2>2. f \in [0..0 -> W] /\ f[0] = base /\ \A i \in 1..0 : FALSE
    BY <2>1
  <2> QED
    BY <1>1, <1>2, <2>2
<1>3. CASE k # 0
  <2>1. k - 1 \in 0..n /\ k - 1 \notin S
    <3>1. k \in 0..n
      OBVIOUS
    <3> HIDE DEF S
    <3> QED
      BY <1>1, <1>3, <3>1
  <2>2. PICK f : Table(f, k - 1)
    BY <2>1
  <2>3. PICK h : h = [i \in 0..k |-> IF i = k THEN g[k][f[k - 1]] ELSE f[i]]
    OBVIOUS
  <2>4. k \in 1..n /\ f[k - 1] \in W /\ g[k][f[k - 1]] \in W
    BY <1>1, <1>3, <2>2
  <2>5. h \in [0..k -> W] /\ h[0] = base
    BY <2>2, <2>3, <2>4
  <2>6. ASSUME NEW i \in 1..k PROVE h[i] = g[i][h[i - 1]]
    <3>1. i - 1 \in 0..k /\ i - 1 # k /\ h[i - 1] = f[i - 1]
      BY <2>3, <2>4
    <3>2. CASE i = k
      BY <2>3, <3>1, <3>2
    <3>3. CASE i # k
      <4>1. i \in 1..(k - 1)
        BY <3>3
      <4> QED
        BY <2>2, <2>3, <3>1, <3>3, <4>1
    <3> QED
      BY <3>2, <3>3
  <2> QED
    BY <1>1, <2>5, <2>6
<1> QED
  BY <1>2, <1>3
-----------------------------------------------------------------------------
(* The ticks and the lists.                                                *)

LEMMA Spans ==
  /\ Span \in [0..Tiers -> Nat \ {0}]
  /\ Span[0] = 1
  /\ \A k \in 1..Tiers : Span[k] = Size * Span[k - 1]
<1>1. Tiers \in Nat /\ Size \in Nat \ {0}
  BY TimeQAssumption
<1>2. PICK g : g = [i \in 1..Tiers |-> [x \in Nat \ {0} |-> Size * x]]
  OBVIOUS
<1>3. g \in [1..Tiers -> [Nat \ {0} -> Nat \ {0}]]
  BY <1>1, <1>2
<1>4. PICK f \in [0..Tiers -> Nat \ {0}] : f[0] = 1 /\ \A i \in 1..Tiers : f[i] = g[i][f[i - 1]]
  <2>1. Steps(g, Tiers, Nat \ {0}) /\ 1 \in Nat \ {0}
    BY <1>3 DEF Steps
  <2>2. PICK f : Iterates(f, Tiers, Nat \ {0}, 1, g)
    BY <1>1, <2>1, Recursion
  <2> QED
    BY <2>2 DEF Iterates
<1>5. \A i \in 1..Tiers : f[i] = Size * f[i - 1]
  <2>1. \A i \in 1..Tiers : i - 1 \in 0..Tiers
    BY <1>1
  <2>2. \A i \in 1..Tiers : f[i - 1] \in Nat \ {0}
    BY <2>1
  <2> QED
    BY <1>2, <1>4, <2>2
<1>6. f = [k \in 0..Tiers |-> IF k = 0 THEN 1 ELSE Size * f[k - 1]]
  BY <1>1, <1>4, <1>5
<1>7. Span = [k \in 0..Tiers |-> IF k = 0 THEN 1 ELSE Size * Span[k - 1]]
  BY <1>6 DEF Span
<1>8. Span[0] = 1 /\ \A k \in 1..Tiers : Span[k] = Size * Span[k - 1]
  BY <1>1, <1>7
<1> DEFINE S == {k \in 0..Tiers : Span[k] \notin Nat \ {0}}
<1>9. S = {}
  <2> SUFFICES ASSUME S # {} PROVE FALSE
    OBVIOUS
  <2>1. PICK k \in S : \A j \in S : k <= j
    <3>1. S \in SUBSET (0..Tiers)
      OBVIOUS
    <3> HIDE DEF S
    <3> QED
      BY <1>1, <3>1, SmallestMember
  <2>2. k # 0 /\ k \in 1..Tiers
    BY <1>1, <1>8
  <2>3. k - 1 \notin S /\ k - 1 \in 0..Tiers
    BY <1>1, <2>1, <2>2
  <2>4. Span[k - 1] \in Nat \ {0}
    BY <2>3
  <2> QED
    BY <1>1, <1>8, <2>2, <2>4
<1> QED
  BY <1>7, <1>8, <1>9

\* A list of a higher tier stands for a multiple of what one of a lower tier
\* stands for.
LEMMA SpansDivide ==
  ASSUME NEW h \in 0..Tiers, NEW k \in h..Tiers
  PROVE  \E y \in Nat \ {0} : Span[k] = Span[h] * y
<1>1. Tiers \in Nat /\ Size \in Nat \ {0}
  BY TimeQAssumption
<1> DEFINE S == {j \in h..Tiers : ~\E y \in Nat \ {0} : Span[j] = Span[h] * y}
<1> SUFFICES ASSUME S # {} PROVE FALSE
  OBVIOUS
<1>2. PICK j \in S : \A i \in S : j <= i
  <2>1. S \in SUBSET (0..Tiers)
    BY <1>1
  <2> HIDE DEF S
  <2> QED
    BY <1>1, <2>1, SmallestMember
<1>3. PICK H \in Nat \ {0} : H = Span[h]
  BY Spans
<1>4. j # h
  <2>1. Span[h] = Span[h] * 1
    BY <1>3
  <2> QED
    BY <2>1
<1>5. j - 1 \in h..Tiers /\ j - 1 \notin S /\ j \in 1..Tiers
  <2>1. j \in h..Tiers
    OBVIOUS
  <2> HIDE DEF S
  <2> QED
    BY <1>1, <1>2, <1>4, <2>1
<1>6. PICK y \in Nat \ {0} : Span[j - 1] = H * y
  BY <1>3, <1>5
<1>7. Span[j] = Size * (H * y)
  BY <1>5, <1>6, Spans
<1>8. Span[j] = H * (Size * y) /\ Size * y \in Nat \ {0}
  BY <1>1, <1>3, <1>6, <1>7
<1> QED
  BY <1>3, <1>8

LEMMA SpansGrow ==
  ASSUME NEW k \in 0..Tiers
  PROVE  Span[k] <= Span[Tiers]
<1>1. Tiers \in Nat /\ Tiers \in k..Tiers /\ Span[k] \in Nat
  BY TimeQAssumption, Spans
<1>2. PICK y \in Nat \ {0} : Span[Tiers] = Span[k] * y
  BY <1>1, SpansDivide
<1> QED
  BY <1>1, <1>2

\* The list of a message is one of the wheel, unless its tick is over.
LEMMA ListsForPlaces ==
  ASSUME NEW n \in Nat, NEW d \in Nat
  PROVE  /\ ListsFor(n, d) \in SUBSET Places
         /\ ListsFor(n, d) = {} <=> d < n
         /\ \A p, q \in ListsFor(n, d) : p = q
<1>1. Tiers \in Nat \ {0} /\ Size \in Nat \ {0} /\ MaxDiff \in Nat
  BY TimeQAssumption
<1> DEFINE diff == d - n
           fits == {k \in 0 .. Tiers - 1 : diff < Span[k + 1]}
           tier == IF fits = {} THEN Tiers - 1 ELSE Min(fits)
           tick == IF diff > MaxDiff THEN n + MaxDiff ELSE d
<1>2. tier \in 0 .. Tiers - 1
  <2>1. fits # {} => Min(fits) \in fits
    <3>1. fits \in SUBSET (0..Tiers)
      BY <1>1
    <3> HIDE DEF fits
    <3>2. fits # {} => \E x \in fits : \A y \in fits : x <= y
      BY <1>1, <3>1, SmallestMember
    <3> QED
      BY <3>2 DEF Min
  <2> QED
    BY <1>1, <2>1
<1>3. tick \in Nat
  BY <1>1
<1> HIDE DEF tier, tick
<1>4. Span[tier] \in Nat \ {0}
  BY <1>1, <1>2, Spans
<1>5. (tick \div Span[tier]) % Size \in 0 .. Size - 1
  <2>1. tick \div Span[tier] \in Nat
    BY <1>3, <1>4, DivMod
  <2> QED
    BY <1>1, <2>1, DivMod
<1>6. <<tier, (tick \div Span[tier]) % Size>> \in Places
  BY <1>2, <1>5 DEF Places
<1>7. ListsFor(n, d) = IF d < n THEN {} ELSE {<<tier, (tick \div Span[tier]) % Size>>}
  BY DEF ListsFor, tier, tick
<1> QED
  BY <1>6, <1>7

\* Every list is visited in each revolution of the wheel.
LEMMA Revolution ==
  ASSUME NEW p \in Places, NEW L \in Nat
  PROVE  \E i \in (L + 1) .. (L + Span[Tiers]) : p \in VisitedAt(i)
<1>1. Tiers \in Nat \ {0} /\ Size \in Nat \ {0}
  BY TimeQAssumption
<1>2. PICK k \in 0 .. Tiers - 1, j \in 0 .. Size - 1 : p = <<k, j>>
  BY DEF Places
<1>3. PICK N \in Nat \ {0} : N = Span[k]
  BY <1>1, <1>2, Spans
<1>4. PICK M \in Nat \ {0} : M = Span[k + 1] /\ M = Size * N
  <2>1. k + 1 \in 1..Tiers /\ (k + 1) - 1 = k
    BY <1>1
  <2>2. Span[k + 1] = Size * N
    BY <1>3, <2>1, Spans
  <2> QED
    BY <1>1, <1>3, <2>2
<1>5. PICK c \in 0 .. M - 1 : c = N * j
  BY <1>1, <1>2, <1>3, <1>4
<1>6. PICK q \in Nat : (M * q) + c \in (L + 1) .. (L + M)
  BY <1>4, <1>5, Residue
<1>7. PICK i \in Nat : i = (M * q) + c
  BY <1>4, <1>5, <1>6
<1>8. PICK x \in Nat : x = (Size * q) + j
  BY <1>1, <1>2, <1>6
<1>9. i = N * x
  BY <1>1, <1>2, <1>3, <1>4, <1>5, <1>6, <1>7, <1>8
<1>10. x % Size = j
  BY <1>1, <1>2, <1>6, <1>8, DivUnique
<1>11. i \div N = x
  <2>1. i = (N * x) + 0 /\ 0 \in 0 .. N - 1
    BY <1>3, <1>9
  <2> QED
    BY <1>3, <1>7, <1>8, <2>1, DivUnique
<1>12. M <= Span[Tiers]
  <2>1. k + 1 \in 0..Tiers
    BY <1>1, <1>2
  <2> QED
    BY <1>4, <2>1, SpansGrow
<1>13. Span[Tiers] \in Nat
  BY <1>1, Spans
<1>14. i \in (L + 1) .. (L + Span[Tiers])
  BY <1>4, <1>6, <1>7, <1>12, <1>13
<1>15. CASE k = 0
  <2>1. i % Size = j
    BY <1>1, <1>3, <1>8, <1>9, <1>10, <1>15, Spans
  <2> QED
    BY <1>2, <1>14, <1>15, <2>1 DEF VisitedAt
<1>16. CASE k # 0
  <2>1. ASSUME NEW h \in 0 .. k - 1 PROVE (i \div Span[h]) % Size = 0
    <3>1. PICK H \in Nat \ {0} : H = Span[h]
      <4>1. h \in 0..Tiers
        BY <1>1, <1>2, <2>1
      <4> QED
        BY <4>1, Spans
    <3>2. h + 1 \in 1..k /\ h + 1 \in 1..Tiers /\ (h + 1) - 1 = h
      BY <1>1, <1>2, <2>1
    <3>3. Span[h + 1] = Size * H
      BY <3>1, <3>2, Spans
    <3>4. PICK y \in Nat : N = (Size * H) * y
      <4>1. h + 1 \in 0..Tiers /\ k \in (h + 1)..Tiers
        BY <1>1, <1>2, <3>2
      <4> QED
        BY <1>3, <3>3, <4>1, SpansDivide
    <3>5. PICK z \in Nat : z = y * x
      BY <1>8, <3>4
    <3>6. i = H * (Size * z)
      BY <1>1, <1>8, <1>9, <3>1, <3>4, <3>5
    <3>7. i = (H * (Size * z)) + 0 /\ 0 \in 0 .. H - 1 /\ Size * z \in Nat
      BY <1>1, <3>1, <3>5, <3>6
    <3>8. i \div H = Size * z
      BY <1>7, <3>1, <3>7, DivUnique
    <3>9. (Size * z) % Size = 0
      <4>1. Size * z = (Size * z) + 0 /\ 0 \in 0 .. Size - 1
        BY <1>1, <3>5
      <4> QED
        BY <1>1, <3>5, <3>7, <4>1, DivUnique
    <3> QED
      BY <3>1, <3>8, <3>9
  <2>2. p \in CascadeLists(i)
    BY <1>2, <1>3, <1>10, <1>11, <1>16, <2>1 DEF CascadeLists
  <2> QED
    BY <1>14, <2>2 DEF VisitedAt
<1> QED
  BY <1>15, <1>16

\* A message whose list has not been visited is at most one revolution late.
LEMMA AtMostSlack ==
  ASSUME now \in Nat, NEW p \in Places, NEW d \in Nat, Fresh(p, d, Down(now))
  PROVE  d + Slack > now
<1>1. Resolution \in Nat \ {0} /\ Tiers \in Nat
  BY TimeQAssumption
<1>2. PICK N \in Nat : N = Down(now) /\ now < (N * Resolution) + Resolution
  <2>1. /\ now % Resolution \in 0 .. Resolution - 1 /\ now \div Resolution \in Nat
        /\ now = (Resolution * (now \div Resolution)) + (now % Resolution)
    BY <1>1, DivMod
  <2>2. PICK N \in Nat : N = now \div Resolution
    BY <2>1
  <2>3. now < (N * Resolution) + Resolution
    BY <1>1, <2>1, <2>2
  <2> QED
    BY <2>2, <2>3 DEF Down
<1>3. PICK L \in 0 .. N : L * Resolution < d /\ Unvisited(p, L, N)
  BY <1>2 DEF Fresh
<1>4. PICK R \in Nat : R = Span[Tiers]
  BY <1>1, Spans
<1>5. PICK i \in (L + 1) .. (L + R) : p \in VisitedAt(i)
  BY <1>3, <1>4, Revolution
<1>6. N < L + R
  BY <1>2, <1>3, <1>4, <1>5 DEF Unvisited
<1>7. (N + 1) * Resolution <= (L + R) * Resolution
  BY <1>1, <1>2, <1>3, <1>4, <1>6
<1>8. now < (L * Resolution) + (R * Resolution)
  BY <1>1, <1>2, <1>3, <1>4, <1>7
<1>9. Slack = R * Resolution /\ L * Resolution \in Nat /\ R * Resolution \in Nat
  BY <1>1, <1>3, <1>4 DEF Slack
<1> QED
  BY <1>3, <1>8, <1>9
-----------------------------------------------------------------------------
(* Pop.                                                                    *)

WheelSet ==
  [lists : [Places -> SUBSET Ids], owner : [Ids -> Msgs \cup {NoMsg}],
   entry : [Msgs -> Ids \cup {NoEntry}], ready : SUBSET Msgs]

\* The number of rounds of a pop, and the lists that it visits.
LEMMA RoundsOf ==
  ASSUME Clocks
  PROVE  /\ Elapsed \in Nat /\ OneRound \in Nat /\ OneRound <= Size /\ OneRound <= Elapsed
         /\ Down(now) \in Nat /\ Down(last_dispatched) \in Nat /\ Down(now) = Down(last_dispatched) + Elapsed
         /\ \A r \in 1 .. Elapsed + OneRound :
              /\ r <= Elapsed => Rounds[r] = CascadeLists(Down(last_dispatched) + r)
              /\ r > Elapsed => Rounds[r] = {<<0, (Down(last_dispatched) + (r - Elapsed)) % Size>>}
              /\ Rounds[r] \in SUBSET Places
<1>1. Resolution \in Nat \ {0} /\ Size \in Nat \ {0} /\ Tiers \in Nat \ {0}
  BY TimeQAssumption
<1>2. now \in Nat /\ last_dispatched \in Nat /\ last_dispatched <= now
  BY DEF Clocks
<1>3. Down(now) \in Nat /\ Down(last_dispatched) \in Nat /\ Down(last_dispatched) <= Down(now)
  BY <1>1, <1>2 DEF Down
<1>4. /\ Elapsed \in Nat /\ OneRound \in Nat /\ OneRound <= Size /\ OneRound <= Elapsed
      /\ Down(now) = Down(last_dispatched) + Elapsed
  BY <1>1, <1>3 DEF Elapsed, OneRound
<1>5. ASSUME NEW r \in 1 .. Elapsed + OneRound
      PROVE  /\ r <= Elapsed => Rounds[r] = CascadeLists(Down(last_dispatched) + r)
             /\ r > Elapsed => Rounds[r] = {<<0, (Down(last_dispatched) + (r - Elapsed)) % Size>>}
  BY <1>4 DEF Rounds
<1>6. ASSUME NEW i \in Nat PROVE CascadeLists(i) \subseteq Places
  <2>1. ASSUME NEW k \in 1 .. Tiers - 1 PROVE <<k, (i \div Span[k]) % Size>> \in Places
    <3>1. Span[k] \in Nat \ {0}
      <4>1. k \in 0..Tiers
        BY <1>1, <2>1
      <4> QED
        BY <4>1, Spans
    <3>2. i \div Span[k] \in Nat
      BY <3>1, DivMod
    <3>3. (i \div Span[k]) % Size \in 0 .. Size - 1
      BY <1>1, <3>2, DivMod
    <3> QED
      BY <1>1, <3>3 DEF Places
  <2> QED
    BY <2>1 DEF CascadeLists
<1>7. ASSUME NEW i \in Nat PROVE <<0, i % Size>> \in Places
  BY <1>1, DivMod DEF Places
<1>8. ASSUME NEW r \in 1 .. Elapsed + OneRound PROVE Rounds[r] \in SUBSET Places
  <2>1. CASE r <= Elapsed
    <3>1. Down(last_dispatched) + r \in Nat
      BY <1>3, <1>4
    <3> QED
      BY <1>5, <1>6, <2>1, <3>1
  <2>2. CASE r > Elapsed
    <3>1. Down(last_dispatched) + (r - Elapsed) \in Nat
      BY <1>3, <1>4, <2>2
    <3> QED
      BY <1>5, <1>7, <2>2, <3>1
  <2> QED
    BY <1>4, <2>1, <2>2
<1> QED
  BY <1>3, <1>4, <1>5, <1>8

\* A list that a pop does not visit is one that no elapsed tick visits, for a
\* revolution of tier 0 has all its lists.
LEMMA StaysFresh ==
  ASSUME Clocks, NEW p, NEW d, Fresh(p, d, Down(last_dispatched)),
         \A r \in 1 .. Elapsed + OneRound : p \notin Rounds[r]
  PROVE  Fresh(p, d, Down(now))
<1>1. PICK D \in Nat : D = Down(last_dispatched)
  BY RoundsOf
<1>2. PICK E \in Nat : E = Elapsed /\ Down(now) = D + E
  BY <1>1, RoundsOf
<1>3. PICK N \in Nat : N = OneRound /\ N <= E
  BY <1>2, RoundsOf
<1>4. Size \in Nat \ {0} /\ N = IF E < Size THEN E ELSE Size
  BY <1>2, <1>3, TimeQAssumption DEF OneRound
<1>5. /\ \A r \in 1..E : p \notin CascadeLists(D + r)
      /\ \A x \in 1..N : p # <<0, (D + x) % Size>>
  <2>1. ASSUME NEW r \in 1..E PROVE p \notin CascadeLists(D + r)
    BY <1>1, <1>2, <1>3, RoundsOf
  <2>2. ASSUME NEW x \in 1..N PROVE p # <<0, (D + x) % Size>>
    <3>1. E + x \in 1 .. E + N /\ E + x > E /\ (E + x) - E = x
      BY <1>2, <1>3
    <3>2. Rounds[E + x] = {<<0, (D + x) % Size>>}
      BY <1>1, <1>2, <1>3, <3>1, RoundsOf
    <3> QED
      BY <1>2, <1>3, <3>1, <3>2
  <2> QED
    BY <2>1, <2>2
<1>6. ASSUME NEW i \in (D + 1) .. (D + E) PROVE p \notin VisitedAt(i)
  <2>1. i - D \in 1..E /\ D + (i - D) = i
    BY <1>1, <1>2
  <2>2. p \notin CascadeLists(i)
    BY <1>5, <2>1
  <2>3. p # <<0, i % Size>>
    <3>1. CASE i - D \in 1..N
      BY <1>5, <2>1, <3>1
    <3>2. CASE i - D \notin 1..N
      <4>1. N = Size
        BY <1>4, <2>1, <3>2
      <4>2. PICK c \in 0 .. Size - 1 : c = i % Size
        <5>1. i \in Nat
          BY <1>1
        <5> QED
          BY <1>4, <5>1, DivMod
      <4>3. PICK q \in Nat : (Size * q) + c \in (D + 1) .. (D + Size)
        BY <1>1, <1>4, Residue
      <4>4. PICK y \in (D + 1) .. (D + Size) : y = (Size * q) + c
        BY <4>3
      <4>5. y \in Nat /\ y % Size = c
        <5>1. y \in Nat
          BY <1>1, <4>4
        <5> QED
          BY <1>4, <4>3, <4>4, <5>1, DivUnique
      <4>6. y - D \in 1..N /\ D + (y - D) = y
        BY <1>1, <1>4, <4>1, <4>4
      <4> QED
        BY <1>5, <4>2, <4>5, <4>6
    <3> QED
      BY <3>1, <3>2
  <2> QED
    BY <2>2, <2>3 DEF VisitedAt
<1>7. PICK L \in 0 .. D : L * Resolution < d /\ Unvisited(p, L, D)
  BY <1>1 DEF Fresh
<1>8. Unvisited(p, L, D + E) /\ L \in 0 .. D + E
  BY <1>1, <1>2, <1>6, <1>7 DEF Unvisited
<1> QED
  BY <1>2, <1>7, <1>8 DEF Fresh

\* A list is fresh when a message that is not due is put into it.
LEMMA FreshNow ==
  ASSUME NEW t \in Nat, NEW p, NEW d \in Nat, d > t
  PROVE  Fresh(p, d, Down(t))
<1>1. Resolution \in Nat \ {0}
  BY TimeQAssumption
<1>2. t % Resolution \in 0 .. Resolution - 1 /\ t \div Resolution \in Nat /\ t = (Resolution * (t \div Resolution)) + (t % Resolution)
  BY <1>1, DivMod
<1>3. PICK L \in Nat : L = t \div Resolution
  BY <1>2
<1>4. L * Resolution <= t
  BY <1>1, <1>2, <1>3
<1>5. L * Resolution < d /\ L \in 0..L
  BY <1>1, <1>3, <1>4
<1>6. Unvisited(p, L, L)
  BY <1>3 DEF Unvisited
<1> QED
  BY <1>3, <1>5, <1>6 DEF Fresh, Down

\* What a message goes back to is a list of the wheel, and one that is not due
\* does go back.
LEMMA GoesBack ==
  ASSUME Clocks, Slots, now >= next_run, NEW m \in Msgs
  PROVE  /\ BackTo(m) \in SUBSET Places /\ (BackTo(m) = {} <=> due[m] <= now)
         /\ \A p, q \in BackTo(m) : p = q
<1>1. Resolution \in Nat \ {0} /\ now \in Nat /\ next_run \in Nat /\ due[m] \in Nat
  BY TimeQAssumption DEF Clocks, Slots
<1>2. Down(next_run) \in Nat /\ Down(due[m]) \in Nat
  BY <1>1 DEF Down
<1>3. due[m] > now => Down(next_run) <= Down(due[m])
  BY <1>1 DEF Down
<1>4. /\ ListsFor(Down(next_run), Down(due[m])) \in SUBSET Places
      /\ ListsFor(Down(next_run), Down(due[m])) = {} <=> Down(due[m]) < Down(next_run)
      /\ \A p, q \in ListsFor(Down(next_run), Down(due[m])) : p = q
  BY <1>2, ListsForPlaces
<1> QED
  BY <1>1, <1>2, <1>3, <1>4 DEF BackTo, Again

LEMMA VisitListsType ==
  ASSUME NEW w \in WheelSet, NEW ps \in SUBSET Places
  PROVE  VisitLists(w, ps) \in WheelSet
<1>1. /\ w.lists \in [Places -> SUBSET Ids] /\ w.owner \in [Ids -> Msgs \cup {NoMsg}]
      /\ w.entry \in [Msgs -> Ids \cup {NoEntry}] /\ w.ready \in SUBSET Msgs
  BY DEF WheelSet
<1> DEFINE taken == UNION {w.lists[p] : p \in ps}
           current == {e \in taken : w.owner[e] # NoMsg /\ w.entry[w.owner[e]] = e}
           back == {e \in current : BackTo(w.owner[e]) # {}}
           ready == {w.owner[e] : e \in current \ back}
<1>2. taken \subseteq Ids
  BY <1>1
<1>3. ready \subseteq Msgs
  BY <1>1, <1>2
<1>4. back \subseteq Ids
  BY <1>2
<1>5. VisitLists(w, ps) =
        [lists |-> [p \in Places |-> (IF p \in ps THEN {} ELSE w.lists[p]) \cup {e \in back : p \in BackTo(w.owner[e])}],
         owner |-> [e \in Ids |-> IF e \in taken \ back THEN NoMsg ELSE w.owner[e]],
         entry |-> [m \in Msgs |-> IF m \in ready THEN NoEntry ELSE w.entry[m]],
         ready |-> w.ready \cup ready]
  BY DEF VisitLists
<1> HIDE DEF taken, current, back, ready
<1> QED
  BY <1>1, <1>2, <1>3, <1>4, <1>5 DEF WheelSet

\* The recursion of a pop.
LEMMA VisitedRec ==
  ASSUME Clocks, Slots
  PROVE  /\ Visited \in [0 .. Elapsed + OneRound -> WheelSet]
         /\ Visited[0] = [lists |-> lists, owner |-> owner, entry |-> entry, ready |-> {}]
         /\ \A r \in 1 .. Elapsed + OneRound : Visited[r] = VisitLists(Visited[r - 1], Rounds[r])
<1>1. PICK n \in Nat : n = Elapsed + OneRound
  BY RoundsOf
<1>2. PICK base : base = [lists |-> lists, owner |-> owner, entry |-> entry, ready |-> {}]
  OBVIOUS
<1>3. base \in WheelSet
  BY <1>2 DEF WheelSet, Slots
<1>4. \A r \in 1..n : Rounds[r] \in SUBSET Places
  BY <1>1, RoundsOf
<1>5. PICK g : g = [r \in 1..n |-> [w \in WheelSet |-> VisitLists(w, Rounds[r])]]
  OBVIOUS
<1>6. Steps(g, n, WheelSet)
  <2>1. \A r \in 1..n : \A w \in WheelSet : VisitLists(w, Rounds[r]) \in WheelSet
    BY <1>4, VisitListsType
  <2> QED
    BY <1>5, <2>1 DEF Steps
<1>7. PICK f : Iterates(f, n, WheelSet, base, g)
  BY <1>3, <1>6, Recursion
<1>8. f \in [0..n -> WheelSet] /\ f[0] = base /\ \A r \in 1..n : f[r] = VisitLists(f[r - 1], Rounds[r])
  <2>1. f \in [0..n -> WheelSet] /\ f[0] = base /\ \A r \in 1..n : f[r] = g[r][f[r - 1]]
    BY <1>7 DEF Iterates
  <2>2. \A r \in 1..n : f[r - 1] \in WheelSet
    <3>1. \A r \in 1..n : r - 1 \in 0..n
      OBVIOUS
    <3> QED
      BY <2>1, <3>1
  <2> QED
    BY <1>5, <2>1, <2>2
<1>9. f = [r \in 0..n |-> IF r = 0 THEN base ELSE VisitLists(f[r - 1], Rounds[r])]
  BY <1>8
<1>10. Visited = [r \in 0..n |-> IF r = 0 THEN base ELSE VisitLists(Visited[r - 1], Rounds[r])]
  BY <1>1, <1>2, <1>9 DEF Visited
<1>11. Visited[0] = base /\ \A r \in 1..n : Visited[r] = VisitLists(Visited[r - 1], Rounds[r])
  BY <1>10
<1> DEFINE S == {r \in 0..n : Visited[r] \notin WheelSet}
<1>12. S = {}
  <2> SUFFICES ASSUME S # {} PROVE FALSE
    OBVIOUS
  <2>1. PICK r \in S : \A q \in S : r <= q
    <3>1. S \in SUBSET (0..n)
      OBVIOUS
    <3> HIDE DEF S
    <3> QED
      BY <3>1, SmallestMember
  <2>2. r \in 1..n
    BY <1>3, <1>11
  <2>3. r - 1 \in 0..n /\ r - 1 \notin S
    <3> HIDE DEF S
    <3> QED
      BY <2>1, <2>2
  <2>4. Visited[r - 1] \in WheelSet
    BY <2>3
  <2> QED
    BY <1>4, <1>11, <2>2, <2>4, VisitListsType
<1> QED
  BY <1>1, <1>2, <1>10, <1>11, <1>12

\* What a round leaves of the wheel: every message that was in it is ready and
\* due, or it is in a list, which no round has visited unless it is not due.
Waiting(m, r, w) ==
  /\ m \notin w.ready /\ w.entry[m] = entry[m] /\ w.owner[entry[m]] = m /\ Once(entry[m], w.lists)
  /\ \E p \in Places :
       /\ entry[m] \in w.lists[p]
       /\ \/ due[m] > now
          \/ /\ Fresh(p, due[m], Down(last_dispatched))
             /\ \A q \in 1..r : p \notin Rounds[q]
Sorted(m, r, w) ==
  \/ entry[m] = NoEntry /\ w.entry[m] = NoEntry /\ m \notin w.ready
  \/ entry[m] # NoEntry /\ m \in w.ready /\ w.entry[m] = NoEntry /\ due[m] <= now
  \/ entry[m] # NoEntry /\ Waiting(m, r, w)

LEMMA RoundKeeps ==
  ASSUME Clocks, Slots, now >= next_run, NEW m \in Msgs, NEW r \in Nat \ {0}, Rounds[r] \in SUBSET Places,
         NEW w \in WheelSet, Sorted(m, r - 1, w), NEW v, v = VisitLists(w, Rounds[r])
  PROVE  Sorted(m, r, v)
<1>1. /\ w.lists \in [Places -> SUBSET Ids] /\ w.owner \in [Ids -> Msgs \cup {NoMsg}]
      /\ w.entry \in [Msgs -> Ids \cup {NoEntry}] /\ w.ready \in SUBSET Msgs
  BY DEF WheelSet
<1>2. PICK ps : ps = Rounds[r]
  OBVIOUS
<1>3. PICK taken : taken = UNION {w.lists[p] : p \in ps}
  OBVIOUS
<1>4. PICK current : current = {e \in taken : w.owner[e] # NoMsg /\ w.entry[w.owner[e]] = e}
  OBVIOUS
<1>5. PICK back : back = {e \in current : BackTo(w.owner[e]) # {}}
  OBVIOUS
<1>6. PICK ready : ready = {w.owner[e] : e \in current \ back}
  OBVIOUS
<1>7. /\ v.lists = [p \in Places |-> (IF p \in ps THEN {} ELSE w.lists[p]) \cup {e \in back : p \in BackTo(w.owner[e])}]
      /\ v.owner = [e \in Ids |-> IF e \in taken \ back THEN NoMsg ELSE w.owner[e]]
      /\ v.entry = [x \in Msgs |-> IF x \in ready THEN NoEntry ELSE w.entry[x]]
      /\ v.ready = w.ready \cup ready
  BY <1>2, <1>3, <1>4, <1>5, <1>6 DEF VisitLists
<1>8. m \in ready => w.entry[m] \in current \ back
  BY <1>4, <1>6
<1>9. taken \subseteq Ids /\ NoEntry \notin Ids /\ current \subseteq taken
  BY <1>1, <1>2, <1>3, <1>4, TimeQAssumption
<1>10. CASE entry[m] = NoEntry /\ w.entry[m] = NoEntry /\ m \notin w.ready
  BY <1>7, <1>8, <1>9, <1>10 DEF Sorted
<1>11. CASE entry[m] # NoEntry /\ m \in w.ready /\ w.entry[m] = NoEntry /\ due[m] <= now
  BY <1>7, <1>11 DEF Sorted
<1>12. CASE entry[m] # NoEntry /\ Waiting(m, r - 1, w)
  <2>1. PICK e : e = entry[m]
    OBVIOUS
  <2>2. e \in Ids /\ m # NoMsg /\ m \notin w.ready /\ w.entry[m] = e /\ w.owner[e] = m /\ Once(e, w.lists)
    BY <1>12, <2>1, TimeQAssumption DEF Waiting, Slots
  <2>3. CASE e \in taken /\ BackTo(m) = {}
    <3>1. e \in current \ back
      BY <1>4, <1>5, <2>2, <2>3
    <3>2. m \in ready
      BY <1>6, <2>2, <3>1
    <3>3. due[m] <= now
      BY <2>3, GoesBack
    <3> QED
      BY <1>7, <1>12, <3>2, <3>3 DEF Sorted
  <2>4. CASE e \in taken /\ BackTo(m) # {}
    <3>1. e \in back
      BY <1>4, <1>5, <2>2, <2>4
    <3>2. m \notin ready
      BY <1>8, <2>2, <3>1
    <3>3. PICK p \in Places : p \in BackTo(m)
      BY <2>4, GoesBack
    <3>4. e \in v.lists[p]
      BY <1>7, <2>2, <3>1, <3>3
    <3>5. due[m] > now
      <4>1. due[m] \in Nat /\ now \in Nat
        BY DEF Clocks, Slots
      <4> QED
        BY <2>4, <4>1, GoesBack
    <3>6. v.owner[e] = m /\ v.entry[m] = e /\ m \notin v.ready
      BY <1>7, <2>2, <3>1, <3>2
    <3>7. ASSUME NEW q \in Places, e \in v.lists[q] PROVE q \in BackTo(m)
      <4>1. PICK x \in ps : e \in w.lists[x]
        BY <1>3, <2>4
      <4>2. q \in ps \/ e \notin w.lists[q]
        BY <1>2, <2>2, <4>1 DEF Once
      <4> QED
        BY <1>7, <2>2, <3>7, <4>2
    <3>8. Once(e, v.lists)
      BY <3>7, GoesBack DEF Once
    <3> QED
      BY <1>12, <2>1, <3>4, <3>5, <3>6, <3>8 DEF Sorted, Waiting
  <2>5. CASE e \notin taken
    <3>1. m \notin ready
      BY <1>8, <1>9, <2>2, <2>5
    <3>2. v.owner[e] = m /\ v.entry[m] = e /\ m \notin v.ready
      BY <1>7, <2>2, <2>5, <3>1
    <3>3. PICK p \in Places :
            /\ e \in w.lists[p]
            /\ \/ due[m] > now
               \/ Fresh(p, due[m], Down(last_dispatched)) /\ \A q \in 1..(r - 1) : p \notin Rounds[q]
      BY <1>12, <2>1 DEF Waiting
    <3>4. p \notin ps
      BY <1>3, <2>5, <3>3
    <3>5. e \in v.lists[p]
      BY <1>7, <3>3, <3>4
    <3>6. (\A q \in 1..(r - 1) : p \notin Rounds[q]) => \A q \in 1..r : p \notin Rounds[q]
      <4>1. \A q \in 1..r : q \in 1..(r - 1) \/ q = r
        OBVIOUS
      <4> QED
        BY <1>2, <3>4, <4>1
    <3>7. Once(e, v.lists)
      <4>1. \A q \in Places : e \in v.lists[q] => e \in w.lists[q]
        BY <1>5, <1>7, <1>9, <2>5
      <4> QED
        BY <2>2, <4>1 DEF Once
    <3> QED
      BY <1>12, <2>1, <3>2, <3>3, <3>5, <3>6, <3>7 DEF Sorted, Waiting
  <2> QED
    BY <2>3, <2>4, <2>5
<1> QED
  BY <1>10, <1>11, <1>12 DEF Sorted

LEMMA PopSorts ==
  ASSUME WheelIInv, now >= next_run, NEW m \in Msgs
  PROVE  Sorted(m, Elapsed + OneRound, Popped)
<1>1. Clocks /\ Slots /\ Scheduled
  BY DEF WheelIInv
<1>2. PICK n \in Nat : n = Elapsed + OneRound
  BY <1>1, RoundsOf
<1>3. /\ Visited \in [0..n -> WheelSet]
      /\ Visited[0] = [lists |-> lists, owner |-> owner, entry |-> entry, ready |-> {}]
      /\ \A r \in 1..n : Visited[r] = VisitLists(Visited[r - 1], Rounds[r]) /\ Rounds[r] \in SUBSET Places
  BY <1>1, <1>2, VisitedRec, RoundsOf
<1>4. Sorted(m, 0, Visited[0])
  BY <1>1, <1>3 DEF Scheduled, Sorted, Waiting
<1> DEFINE S == {r \in 0..n : ~Sorted(m, r, Visited[r])}
<1>5. S = {}
  <2> SUFFICES ASSUME S # {} PROVE FALSE
    OBVIOUS
  <2>1. PICK r \in S : \A q \in S : r <= q
    <3>1. S \in SUBSET (0..n)
      OBVIOUS
    <3> HIDE DEF S
    <3> QED
      BY <3>1, SmallestMember
  <2>2. r \in 1..n
    BY <1>4
  <2>3. r - 1 \in 0..n /\ r - 1 \notin S
    <3> HIDE DEF S
    <3> QED
      BY <2>1, <2>2
  <2>4. Sorted(m, r - 1, Visited[r - 1]) /\ Visited[r - 1] \in WheelSet
    BY <1>3, <2>3
  <2>5. Sorted(m, r, Visited[r])
    BY <1>1, <1>3, <2>2, <2>4, RoundKeeps
  <2> QED
    BY <2>5
<1> QED
  BY <1>2, <1>3, <1>5 DEF Popped

LEMMA PoppedType ==
  ASSUME WheelIInv
  PROVE  Popped \in WheelSet
<1>1. Clocks /\ Slots
  BY DEF WheelIInv
<1>2. Elapsed + OneRound \in 0 .. Elapsed + OneRound
  BY <1>1, RoundsOf
<1> QED
  BY <1>1, <1>2, VisitedRec DEF Popped

LEMMA PopKeeps ==
  ASSUME WheelIInv, Pop
  PROVE  WheelIInv'
<1>1. Clocks /\ Slots /\ Scheduled /\ now >= next_run /\ Resolution \in Nat \ {0}
  BY TimeQAssumption DEF WheelIInv, Pop
<1>2. Clocks'
  BY <1>1 DEF Pop, Clocks
<1>3. PICK w : w = Popped
  OBVIOUS
<1>4. /\ lists' = w.lists /\ owner' = w.owner /\ entry' = w.entry /\ out' = w.ready /\ last_dispatched' = now
      /\ due' = [m \in Msgs |-> IF m \in w.ready THEN 0 ELSE due[m]]
  BY <1>3 DEF Pop
<1>5. Slots' /\ out' \in (SUBSET Msgs) \cup {NoMsg}
  BY <1>1, <1>3, <1>4, PoppedType DEF WheelSet, Slots
<1>6. ASSUME NEW m \in Msgs, entry'[m] # NoEntry
      PROVE  /\ owner'[entry'[m]] = m /\ Once(entry'[m], lists')
             /\ \E p \in Places : entry'[m] \in lists'[p] /\ Fresh(p, due'[m], Down(now))
  <2>1. Sorted(m, Elapsed + OneRound, w)
    BY <1>1, <1>3, PopSorts
  <2>2. entry[m] # NoEntry /\ Waiting(m, Elapsed + OneRound, w)
    BY <1>4, <1>6, <2>1 DEF Sorted
  <2>3. due'[m] = due[m] /\ entry'[m] = entry[m] /\ due[m] \in Nat
    BY <1>1, <1>4, <2>2 DEF Waiting, Slots
  <2>4. PICK p \in Places :
          /\ entry[m] \in w.lists[p]
          /\ \/ due[m] > now
             \/ Fresh(p, due[m], Down(last_dispatched)) /\ \A q \in 1..(Elapsed + OneRound) : p \notin Rounds[q]
    BY <2>2 DEF Waiting
  <2>5. Fresh(p, due[m], Down(now))
    <3>1. CASE due[m] > now
      BY <1>1, <2>3, <3>1, FreshNow DEF Clocks
    <3>2. CASE ~(due[m] > now)
      BY <1>1, <2>4, <3>2, StaysFresh
    <3> QED
      BY <3>1, <3>2
  <2> QED
    BY <1>4, <2>2, <2>3, <2>4, <2>5 DEF Waiting
<1>7. Down(last_dispatched)' = Down(now)
  BY <1>4 DEF Down
<1>8. Scheduled'
  BY <1>4, <1>6, <1>7 DEF Scheduled
<1> QED
  BY <1>2, <1>5, <1>8 DEF WheelIInv

\* The other operations.
LEMMA WheelInitial == WheelInit => WheelIInv
<1> SUFFICES ASSUME WheelInit PROVE WheelIInv
  OBVIOUS
<1>1. Clocks /\ Slots /\ out \in (SUBSET Msgs) \cup {NoMsg}
  BY TimeQAssumption DEF WheelInit, Clocks, Slots
<1>2. Scheduled
  BY DEF WheelInit, Scheduled
<1> QED
  BY <1>1, <1>2 DEF WheelIInv

\* The slot and the list of a new entry.
LEMMA NewEntry ==
  ASSUME WheelIInv, NEW m \in Msgs, NEW d \in Nat, InsertOk(m, d)
  PROVE  /\ NewId \in Ids
         /\ \A p \in Places : NewId \notin lists[p]
         /\ \A k \in Msgs : entry[k] # NewId
         /\ \E p \in Places : lists' = [lists EXCEPT ![p] = @ \cup {NewId}]
<1>1. NewId \in FreeIds
  BY DEF InsertOk, NewId
<1>2. Resolution \in Nat \ {0} /\ next_run \in Nat
  BY TimeQAssumption DEF WheelIInv, Clocks
<1>3. Up(next_run) \in Nat /\ Up(d) \in Nat
  BY <1>2 DEF Up
<1>4. ListsFor(Up(next_run), Up(d)) \in SUBSET Places
  BY <1>3, ListsForPlaces
<1> QED
  BY <1>1, <1>4 DEF InsertOk, FreeIds

LEMMA InsertOkKeeps ==
  ASSUME WheelIInv, NEW m \in Msgs, NEW d \in Nat, InsertOk(m, d)
  PROVE  WheelIInv'
<1>1. Clocks /\ Slots /\ Scheduled
  BY DEF WheelIInv
<1>2. PICK e \in Ids : e = NewId /\ (\A p \in Places : e \notin lists[p]) /\ (\A k \in Msgs : entry[k] # e)
  BY NewEntry
<1>3. PICK q \in Places : lists' = [lists EXCEPT ![q] = @ \cup {e}]
  BY <1>2, NewEntry
<1>4. /\ owner' = [owner EXCEPT ![e] = m] /\ entry' = [entry EXCEPT ![m] = e] /\ due' = [due EXCEPT ![m] = d]
      /\ out' = NoMsg /\ now' = now /\ next_run' = next_run /\ last_dispatched' = last_dispatched /\ d > now
  BY <1>2 DEF InsertOk
<1>5. Clocks' /\ Slots' /\ out' \in (SUBSET Msgs) \cup {NoMsg}
  BY <1>1, <1>3, <1>4 DEF Clocks, Slots
<1>6. Down(last_dispatched)' = Down(last_dispatched)
  BY <1>4 DEF Down
<1>7. /\ owner'[e] = m /\ Once(e, lists') /\ e \in lists'[q] /\ Fresh(q, d, Down(last_dispatched))
  <2>1. Once(e, lists') /\ e \in lists'[q] /\ owner'[e] = m
    BY <1>1, <1>2, <1>3, <1>4 DEF Once, Slots
  <2>2. d > last_dispatched /\ last_dispatched \in Nat
    BY <1>1, <1>4 DEF Clocks
  <2> QED
    BY <2>1, <2>2, FreshNow
<1>8. ASSUME NEW k \in Msgs, k # m, entry[k] # NoEntry
      PROVE  /\ owner'[entry[k]] = k /\ Once(entry[k], lists')
             /\ \E p \in Places : entry[k] \in lists'[p] /\ Fresh(p, due[k], Down(last_dispatched))
  <2>1. PICK x \in Ids : x = entry[k] /\ x # e /\ owner[x] = k /\ Once(x, lists)
    BY <1>1, <1>2, <1>8 DEF Slots, Scheduled
  <2>2. PICK p \in Places : x \in lists[p] /\ Fresh(p, due[k], Down(last_dispatched))
    BY <1>1, <1>8, <2>1 DEF Scheduled
  <2>3. \A y \in Places : x \in lists'[y] <=> x \in lists[y]
    BY <1>1, <1>3, <2>1 DEF Slots
  <2> QED
    BY <1>1, <1>4, <2>1, <2>2, <2>3 DEF Once, Slots
<1>9. Scheduled'
  <2> SUFFICES ASSUME NEW k \in Msgs, entry'[k] # NoEntry
               PROVE  /\ owner'[entry'[k]] = k /\ Once(entry'[k], lists')
                      /\ \E p \in Places : entry'[k] \in lists'[p] /\ Fresh(p, due'[k], Down(last_dispatched))
    BY <1>6 DEF Scheduled
  <2>1. CASE k = m
    <3>1. entry'[k] = e /\ due'[k] = d
      BY <1>1, <1>4, <2>1 DEF Slots
    <3> QED
      BY <1>7, <2>1, <3>1
  <2>2. CASE k # m
    <3>1. entry'[k] = entry[k] /\ due'[k] = due[k]
      BY <1>1, <1>4, <2>2 DEF Slots
    <3> QED
      BY <1>8, <2>2, <3>1
  <2> QED
    BY <2>1, <2>2
<1> QED
  BY <1>5, <1>9 DEF WheelIInv

LEMMA CancelKeeps ==
  ASSUME WheelIInv, NEW m \in Msgs, Cancel(m)
  PROVE  WheelIInv'
<1>1. Clocks /\ Slots /\ Scheduled
  BY DEF WheelIInv
<1>2. /\ owner' = [owner EXCEPT ![entry[m]] = NoMsg] /\ entry' = [entry EXCEPT ![m] = NoEntry]
      /\ due' = [due EXCEPT ![m] = 0] /\ out' = NoMsg /\ lists' = lists /\ entry[m] # NoEntry
      /\ now' = now /\ next_run' = next_run /\ last_dispatched' = last_dispatched
  BY DEF Cancel
<1>3. Clocks' /\ Slots' /\ out' \in (SUBSET Msgs) \cup {NoMsg}
  BY <1>1, <1>2 DEF Clocks, Slots
<1>4. Down(last_dispatched)' = Down(last_dispatched)
  BY <1>2 DEF Down
<1>5. ASSUME NEW k \in Msgs, entry'[k] # NoEntry
      PROVE  k # m /\ entry'[k] = entry[k] /\ due'[k] = due[k] /\ owner'[entry[k]] = k
  <2>1. k # m /\ entry'[k] = entry[k] /\ due'[k] = due[k]
    BY <1>1, <1>2, <1>5 DEF Slots
  <2>2. owner[entry[k]] = k /\ owner[entry[m]] = m /\ entry[k] \in Ids
    BY <1>1, <1>2, <1>5, <2>1 DEF Slots, Scheduled
  <2> QED
    BY <1>1, <1>2, <2>1, <2>2 DEF Slots
<1>6. Scheduled'
  BY <1>1, <1>2, <1>4, <1>5 DEF Scheduled
<1> QED
  BY <1>3, <1>6 DEF WheelIInv

LEMMA RetainKeeps ==
  ASSUME WheelIInv, NEW S \in SUBSET Msgs, Retain(S)
  PROVE  WheelIInv'
<1>1. Clocks /\ Slots /\ Scheduled
  BY DEF WheelIInv
<1>2. PICK kept : kept = {e \in {e \in Ids : owner[e] # NoMsg /\ entry[owner[e]] = e} : owner[e] \in S}
  OBVIOUS
<1>3. /\ lists' = [p \in Places |-> lists[p] \cap kept]
      /\ owner' = [e \in Ids |-> IF e \in kept THEN owner[e] ELSE NoMsg]
      /\ entry' = [m \in Msgs |-> IF m \in S THEN entry[m] ELSE NoEntry]
      /\ due' = [m \in Msgs |-> IF m \in S THEN due[m] ELSE 0]
      /\ out' = NoMsg /\ now' = now /\ next_run' = next_run /\ last_dispatched' = last_dispatched
  BY <1>2 DEF Retain
<1>4. Clocks' /\ Slots' /\ out' \in (SUBSET Msgs) \cup {NoMsg}
  BY <1>1, <1>3 DEF Clocks, Slots
<1>5. Down(last_dispatched)' = Down(last_dispatched)
  BY <1>3 DEF Down
<1>6. ASSUME NEW k \in Msgs, entry'[k] # NoEntry
      PROVE  /\ entry'[k] = entry[k] /\ due'[k] = due[k] /\ owner'[entry[k]] = k
             /\ \A p \in Places : entry[k] \in lists'[p] <=> entry[k] \in lists[p]
  <2>1. k \in S /\ entry'[k] = entry[k] /\ due'[k] = due[k] /\ k # NoMsg
    BY <1>3, <1>6, TimeQAssumption
  <2>2. owner[entry[k]] = k /\ entry[k] \in Ids
    BY <1>1, <1>6, <2>1 DEF Slots, Scheduled
  <2>3. entry[k] \in kept
    BY <1>2, <2>1, <2>2
  <2> QED
    BY <1>3, <2>1, <2>2, <2>3
<1>7. Scheduled'
  <2> SUFFICES ASSUME NEW k \in Msgs, entry'[k] # NoEntry
               PROVE  /\ owner'[entry'[k]] = k /\ Once(entry'[k], lists')
                      /\ \E p \in Places : entry'[k] \in lists'[p] /\ Fresh(p, due'[k], Down(last_dispatched))
    BY <1>5 DEF Scheduled
  <2>1. /\ Once(entry[k], lists)
        /\ \E p \in Places : entry[k] \in lists[p] /\ Fresh(p, due[k], Down(last_dispatched))
    BY <1>1, <1>6 DEF Scheduled
  <2> QED
    BY <1>6, <2>1 DEF Once
<1> QED
  BY <1>4, <1>7 DEF WheelIInv

\* A step that leaves the wheel alone.
LEMMA AloneKeeps ==
  ASSUME WheelIInv, UNCHANGED <<next_run, last_dispatched, lists, owner, entry, due>>,
         now' \in {now, now + 1}, out' \in {out, NoMsg}
  PROVE  WheelIInv'
<1>1. Clocks /\ Slots /\ Scheduled /\ out \in (SUBSET Msgs) \cup {NoMsg}
  BY DEF WheelIInv
<1>2. Clocks'
  BY <1>1 DEF Clocks
<1>3. Slots'
  BY <1>1 DEF Slots
<1>4. Scheduled'
  BY <1>1 DEF Scheduled, Down
<1> QED
  BY <1>1, <1>2, <1>3, <1>4 DEF WheelIInv

LEMMA WheelInductive == WheelIInv /\ [WheelNext]_wheelVars => WheelIInv'
<1> SUFFICES ASSUME WheelIInv, [WheelNext]_wheelVars PROVE WheelIInv'
  OBVIOUS
<1>1. CASE Advance
  BY <1>1, AloneKeeps DEF Advance
<1>2. ASSUME NEW m \in Msgs, NEW d \in 0 .. MaxTime, Insert(m, d) PROVE WheelIInv'
  <2>1. d \in Nat
    BY TimeQAssumption
  <2>2. CASE InsertOk(m, d)
    BY <2>1, <2>2, InsertOkKeeps
  <2>3. CASE InsertRefused(m, d)
    BY <2>3, AloneKeeps DEF InsertRefused
  <2> QED
    BY <1>2, <2>2, <2>3 DEF Insert
<1>3. ASSUME NEW m \in Msgs, Cancel(m) PROVE WheelIInv'
  BY <1>3, CancelKeeps
<1>4. ASSUME NEW S \in SUBSET Msgs, Retain(S) PROVE WheelIInv'
  BY <1>4, RetainKeeps
<1>5. CASE Pop
  BY <1>5, PopKeeps
<1>6. CASE UNCHANGED wheelVars
  BY <1>6, AloneKeeps DEF wheelVars
<1> QED
  BY <1>1, <1>2, <1>3, <1>4, <1>5, <1>6 DEF WheelNext

\* The inductive invariant: the current slot of every message in the wheel is in
\* a list that no tick has passed since the message was put there.
THEOREM WheelInvariant == WheelSpec => []WheelIInv
<1>1. WheelInit => WheelIInv
  BY WheelInitial
<1>2. WheelIInv /\ [WheelNext]_wheelVars => WheelIInv'
  BY WheelInductive
<1> QED
  BY <1>1, <1>2, PTL DEF WheelSpec

\* The two maps of the wheel agree, and a message that is in it is in one of its
\* lists only.
THEOREM WheelTypeCorrect == WheelSpec => []WheelTypeOK
<1>1. WheelIInv => WheelTypeOK
  <2> SUFFICES ASSUME WheelIInv PROVE WheelTypeOK
    OBVIOUS
  <2>1. Clocks /\ Slots /\ Scheduled /\ out \in (SUBSET Msgs) \cup {NoMsg}
    BY DEF WheelIInv
  <2>2. ASSUME NEW m \in Msgs, entry[m] # NoEntry
        PROVE  owner[entry[m]] = m /\ Cardinality({p \in Places : entry[m] \in lists[p]}) = 1
    <3>1. owner[entry[m]] = m /\ Once(entry[m], lists)
      BY <2>1, <2>2 DEF Scheduled
    <3>2. PICK p \in Places : entry[m] \in lists[p]
      BY <2>1, <2>2 DEF Scheduled
    <3>3. {q \in Places : entry[m] \in lists[q]} = {p}
      BY <3>1, <3>2 DEF Once
    <3> QED
      BY <3>1, <3>3, FS_Singleton
  <2> QED
    BY <2>1, <2>2 DEF Clocks, Slots, WheelTypeOK
<1> QED
  BY <1>1, WheelInvariant, PTL
-----------------------------------------------------------------------------
(* The wheel is a timer.                                                   *)

PendingOf == [m \in Msgs |-> IF entry[m] = NoEntry THEN Never ELSE due[m]]

LEMMA PopHandsOut ==
  ASSUME WheelIInv, Pop
  PROVE  \E S \in SUBSET Abstract!Pending : Abstract!HandOut(S)
<1>1. Clocks /\ Slots /\ Scheduled /\ now >= next_run /\ now \in Nat
  BY DEF WheelIInv, Pop, Clocks
<1>2. PICK w \in WheelSet : w = Popped
  BY PoppedType
<1>3. PICK S \in SUBSET Msgs : S = w.ready
  BY <1>2 DEF WheelSet
<1>4. /\ entry' = w.entry /\ out' = S /\ now' = now
      /\ due' = [m \in Msgs |-> IF m \in S THEN 0 ELSE due[m]]
  BY <1>2, <1>3 DEF Pop
<1>5. \A m \in Msgs : Sorted(m, Elapsed + OneRound, w)
  BY <1>1, <1>2, PopSorts
<1>6. ASSUME NEW m \in S PROVE entry[m] # NoEntry /\ due[m] <= now /\ entry'[m] = NoEntry
  BY <1>3, <1>4, <1>5 DEF Sorted, Waiting
<1>7. ASSUME NEW m \in Msgs \ S PROVE entry'[m] = entry[m] /\ due'[m] = due[m]
  BY <1>3, <1>4, <1>5 DEF Sorted, Waiting
<1>8. ASSUME NEW m \in Msgs \ S, entry[m] # NoEntry PROVE due[m] + Slack > now
  <2>1. Waiting(m, Elapsed + OneRound, w) /\ due[m] \in Nat
    BY <1>1, <1>3, <1>5, <1>8 DEF Sorted, Slots
  <2>2. PICK p \in Places :
          \/ due[m] > now
          \/ Fresh(p, due[m], Down(last_dispatched)) /\ \A q \in 1..(Elapsed + OneRound) : p \notin Rounds[q]
    BY <2>1 DEF Waiting
  <2>3. Fresh(p, due[m], Down(now))
    <3>1. CASE due[m] > now
      BY <1>1, <2>1, <3>1, FreshNow
    <3>2. CASE ~(due[m] > now)
      BY <1>1, <2>2, <3>2, StaysFresh
    <3> QED
      BY <3>1, <3>2
  <2> QED
    BY <1>1, <2>1, <2>3, AtMostSlack
<1>9. \A m \in Msgs : due[m] \in Nat /\ Never \notin Nat
  BY <1>1, TimeQAssumption DEF Slots, Never
<1>10. S \in SUBSET Abstract!Pending
  BY <1>6, <1>9 DEF Abstract!Pending
<1>11. Abstract!HandOut(S)
  <2>1. \A m \in S : PendingOf[m] <= now
    BY <1>6 DEF PendingOf
  <2>2. \A m \in Abstract!Pending \ S : PendingOf[m] + Slack > now
    BY <1>8 DEF PendingOf, Abstract!Pending
  <2>3. PendingOf' = [m \in Msgs |-> IF m \in S THEN Never ELSE PendingOf[m]]
    BY <1>6, <1>7 DEF PendingOf, Never
  <2> QED
    BY <1>4, <2>1, <2>2, <2>3 DEF PendingOf, Abstract!HandOut
<1> QED
  BY <1>10, <1>11

\* Every step of the wheel is one of the timer.
LEMMA WheelSteps ==
  ASSUME WheelIInv, [WheelNext]_wheelVars
  PROVE  [Abstract!TimerNext]_(Abstract!timerVars)
<1>1. Slots
  BY DEF WheelIInv
<1>2. \A m \in Msgs : due[m] \in Nat /\ Never \notin Nat
  BY <1>1, TimeQAssumption DEF Slots, Never
<1>3. CASE Advance
  BY <1>3 DEF Advance, Abstract!TimerNext, Abstract!Tick, Never
<1>4. ASSUME NEW m \in Msgs, NEW d \in 0 .. MaxTime, Insert(m, d) PROVE Abstract!TimerNext
  <2>1. d \in Nat
    BY TimeQAssumption
  <2>2. CASE InsertOk(m, d)
    <3>1. /\ entry' = [entry EXCEPT ![m] = NewId] /\ due' = [due EXCEPT ![m] = d]
          /\ d > now /\ out' = NoMsg /\ now' = now
      BY <2>2 DEF InsertOk
    <3>2. NewId # NoEntry
      BY <2>1, <2>2, NewEntry, TimeQAssumption
    <3>3. PendingOf'[m] = d /\ \A k \in Msgs \ {m} : PendingOf'[k] = PendingOf[k]
      BY <1>1, <3>1, <3>2 DEF PendingOf, Slots, Never
    <3>4. Abstract!Put(m)
      BY <1>2, <2>1, <3>1, <3>3 DEF PendingOf, Abstract!Put, Never
    <3> QED
      BY <3>4 DEF Abstract!TimerNext
  <2>3. CASE InsertRefused(m, d)
    <3>1. Abstract!TakeBack({})
      BY <2>3 DEF InsertRefused, Abstract!TakeBack, Never
    <3> QED
      BY <3>1 DEF Abstract!TimerNext
  <2> QED
    BY <1>4, <2>2, <2>3 DEF Insert
<1>5. ASSUME NEW m \in Msgs, Cancel(m) PROVE Abstract!TimerNext
  <2>1. {m} \in SUBSET Abstract!Pending
    BY <1>2, <1>5 DEF Cancel, Abstract!Pending
  <2>2. Abstract!TakeBack({m})
    BY <1>1, <1>5 DEF Cancel, Abstract!TakeBack, Never, Slots
  <2> QED
    BY <2>1, <2>2 DEF Abstract!TimerNext
<1>6. ASSUME NEW S \in SUBSET Msgs, Retain(S) PROVE Abstract!TimerNext
  <2>1. PICK T \in SUBSET Msgs : T = {m \in Msgs \ S : entry[m] # NoEntry}
    OBVIOUS
  <2>2. T \in SUBSET Abstract!Pending
    BY <1>2, <2>1 DEF Abstract!Pending
  <2>3. /\ entry' = [m \in Msgs |-> IF m \in S THEN entry[m] ELSE NoEntry]
        /\ due' = [m \in Msgs |-> IF m \in S THEN due[m] ELSE 0] /\ out' = NoMsg /\ now' = now
    BY <1>6 DEF Retain
  <2>4. Abstract!TakeBack(T)
    BY <2>1, <2>3 DEF Abstract!TakeBack, Never
  <2> QED
    BY <2>2, <2>4 DEF Abstract!TimerNext
<1>7. CASE Pop
  BY <1>7, PopHandsOut DEF Abstract!TimerNext
<1>8. CASE UNCHANGED wheelVars
  BY <1>8 DEF wheelVars, Abstract!timerVars, Never
<1> QED
  BY <1>3, <1>4, <1>5, <1>6, <1>7, <1>8 DEF WheelNext

\* The timer wheel implements a timer: it hands a message out once, never before
\* it is due, not after cancel, drain or retain took it, and less than one
\* revolution of the whole wheel after it was due.
THEOREM WheelImplementsTimer == WheelSpec => ImplementsTimer
<1>1. WheelInit => Abstract!TimerInit
  BY DEF WheelInit, Abstract!TimerInit, Never
<1>2. WheelIInv /\ [WheelNext]_wheelVars => [Abstract!TimerNext]_(Abstract!timerVars)
  BY WheelSteps
<1> QED
  BY <1>1, <1>2, WheelInvariant, PTL DEF WheelSpec, ImplementsTimer, Abstract!TimerSpec
=============================================================================
