------------------------- MODULE QueueManagerProofs -------------------------
(***************************************************************************)
(* Theorems about QueueManager for every set of names, tasks and messages, *)
(* and every bound on the queues and semaphores.                           *)
(***************************************************************************)
EXTENDS QueueManager, FiniteSetTheorems, SequenceTheorems, TLAPS

Distinct(l) == \A i, j \in 1..Len(l) : l[i] = l[j] => i = j

\* A task that leaves a line leaves the others where they are.
LEMMA RemoveFirstFacts ==
  ASSUME NEW S, NEW l \in Seq(S), Distinct(l), NEW t
  PROVE  LET r == RemoveFirst(l, t) IN
         /\ r \in Seq(S)
         /\ Distinct(r)
         /\ Range(r) = Range(l) \ {t}
         /\ l # <<>> /\ Head(l) # t => r # <<>> /\ Head(r) = Head(l)
<1> DEFINE r == RemoveFirst(l, t)
<1>0. Range(l) = {l[i] : i \in 1..Len(l)}
  BY RangeEquality
<1>1. CASE ~\E i \in 1..Len(l) : l[i] = t
  <2>1. r = l
    BY <1>1 DEF RemoveFirst
  <2>. QED
    BY <1>0, <1>1, <2>1
<1>2. CASE \E i \in 1..Len(l) : l[i] = t
  <2>1. PICK k \in 1..Len(l) : l[k] = t
    BY <1>2
  <2>2. {i \in 1..Len(l) : l[i] = t} = {k}
    BY <2>1 DEF Distinct
  <2>3. Min({k}) = k
    BY DEF Min
  <2>4. SelectInSeq(l, LAMBDA v : v = t) = k
    BY <2>2, <2>3 DEF SelectInSeq
  <2>5. r = SubSeq(l, 1, k - 1) \o SubSeq(l, k + 1, Len(l))
    BY <1>2, <2>4 DEF RemoveFirst, RemoveAt
  <2> DEFINE a == SubSeq(l, 1, k - 1)
             z == SubSeq(l, k + 1, Len(l))
  <2>6. Len(l) \in Nat /\ k \in Nat
    BY LenProperties
  <2>7. /\ a \in Seq(S) /\ Len(a) = k - 1 /\ \A i \in 1..(k - 1) : a[i] = l[i]
        /\ z \in Seq(S) /\ Len(z) = Len(l) - k /\ \A i \in 1..(Len(l) - k) : z[i] = l[k + i]
    BY <2>1, <2>6, SubSeqProperties
  <2> HIDE DEF a, z, r
  <2>8. /\ r \in Seq(S) /\ Len(r) = Len(l) - 1
        /\ \A i \in 1..(Len(l) - 1) : r[i] = IF i < k THEN l[i] ELSE l[i + 1]
    <3>1. r = a \o z
      BY <2>5 DEF a, z
    <3>2. /\ r \in Seq(S) /\ Len(r) = Len(a) + Len(z)
          /\ \A i \in 1..(Len(a) + Len(z)) : r[i] = IF i <= Len(a) THEN a[i] ELSE z[i - Len(a)]
      BY <2>7, <3>1, ConcatProperties
    <3>3. Len(a) + Len(z) = Len(l) - 1
      BY <2>1, <2>6, <2>7
    <3>4. ASSUME NEW i \in 1..(Len(l) - 1) PROVE r[i] = IF i < k THEN l[i] ELSE l[i + 1]
      <4>0. r[i] = IF i <= k - 1 THEN a[i] ELSE z[i - (k - 1)]
        <5>1. i \in 1..(Len(a) + Len(z)) /\ Len(a) = k - 1
          BY <2>7, <3>3
        <5>. QED
          BY <3>2, <5>1
      <4>1. CASE i < k
        <5>1. i <= k - 1 /\ i \in 1..(k - 1)
          BY <2>1, <2>6, <4>1
        <5>. QED
          BY <2>7, <4>0, <4>1, <5>1
      <4>2. CASE i >= k
        <5>1. i - (k - 1) \in 1..(Len(l) - k) /\ k + (i - (k - 1)) = i + 1
          BY <2>1, <2>6, <4>2
        <5>2. r[i] = z[i - (k - 1)]
          BY <2>1, <2>6, <4>0, <4>2
        <5>3. z[i - (k - 1)] = l[k + (i - (k - 1))]
          BY <2>7, <5>1
        <5>. QED
          BY <2>1, <2>6, <4>2, <5>1, <5>2, <5>3
      <4>. QED
        BY <2>1, <2>6, <4>1, <4>2
    <3>. QED
      BY <3>2, <3>3, <3>4
  <2>9. Distinct(r)
    BY <2>1, <2>6, <2>8 DEF Distinct
  <2>10. Range(r) = Range(l) \ {t}
    <3>1. Range(r) = {r[i] : i \in 1..Len(r)}
      BY <2>8, RangeEquality
    <3>2. ASSUME NEW x \in Range(r) PROVE x \in Range(l) \ {t}
      BY <1>0, <2>1, <2>6, <2>8, <3>1, <3>2 DEF Distinct
    <3>3. ASSUME NEW x \in Range(l) \ {t} PROVE x \in Range(r)
      <4>1. PICK i \in 1..Len(l) : l[i] = x /\ i # k
        BY <1>0, <2>1, <3>3
      <4>2. CASE i < k
        BY <2>1, <2>6, <2>8, <3>1, <4>1, <4>2
      <4>3. CASE i > k
        <5>1. i - 1 \in 1..(Len(l) - 1) /\ r[i - 1] = l[i]
          BY <2>1, <2>6, <2>8, <4>1, <4>3
        <5>. QED
          BY <2>8, <3>1, <4>1, <5>1
      <4>. QED
        BY <2>1, <2>6, <4>1, <4>2, <4>3
    <3>. QED
      BY <3>2, <3>3
  <2>11. l # <<>> /\ Head(l) # t => r # <<>> /\ Head(r) = Head(l)
    <3> SUFFICES ASSUME l # <<>>, Head(l) # t PROVE r # <<>> /\ Head(r) = Head(l)
      OBVIOUS
    <3>1. Head(l) = l[1] /\ 1 < k
      BY <2>1, <2>6, HeadTailProperties
    <3>2. 1 \in 1..(Len(l) - 1) /\ r[1] = l[1] /\ Len(r) > 0
      BY <2>1, <2>6, <2>8, <3>1
    <3>. QED
      BY <2>8, <3>1, <3>2, HeadTailProperties, EmptySeq
  <2>. QED
    BY <2>8, <2>9, <2>10, <2>11 DEF r
<1>. QED
  BY <1>1, <1>2

\* A task that joins a line does so at the end.
LEMMA AppendFacts ==
  ASSUME NEW S, NEW l \in Seq(S), Distinct(l), NEW t \in S, t \notin Range(l)
  PROVE  /\ Append(l, t) \in Seq(S)
         /\ Distinct(Append(l, t))
         /\ Range(Append(l, t)) = Range(l) \cup {t}
         /\ l # <<>> => Append(l, t) # <<>> /\ Head(Append(l, t)) = Head(l)
<1> DEFINE r == Append(l, t)
<1>1. /\ r \in Seq(S) /\ Len(r) = Len(l) + 1 /\ r[Len(l) + 1] = t
      /\ \A i \in 1..Len(l) : r[i] = l[i]
  BY AppendProperties
<1>2. /\ Range(l) = {l[i] : i \in 1..Len(l)} /\ Range(r) = {r[i] : i \in 1..Len(r)}
      /\ Len(l) \in Nat
  BY <1>1, RangeEquality, LenProperties
<1> HIDE DEF r
<1>3. Distinct(r)
  BY <1>1, <1>2 DEF Distinct
<1>4. Range(r) = Range(l) \cup {t}
  <2>1. ASSUME NEW x \in Range(r) PROVE x \in Range(l) \cup {t}
    BY <1>1, <1>2, <2>1
  <2>2. Len(l) + 1 \in 1..Len(r) /\ \A i \in 1..Len(l) : i \in 1..Len(r)
    BY <1>1, <1>2
  <2>3. ASSUME NEW x \in Range(l) \cup {t} PROVE x \in Range(r)
    BY <1>1, <1>2, <2>2, <2>3
  <2>. QED
    BY <2>1, <2>3
<1>5. l # <<>> => r # <<>> /\ Head(r) = Head(l)
  <2> SUFFICES ASSUME l # <<>> PROVE r # <<>> /\ Head(r) = Head(l)
    OBVIOUS
  <2>1. Len(l) > 0 /\ Head(l) = l[1]
    BY HeadTailProperties, EmptySeq, <1>2
  <2>2. Len(r) > 0 /\ r # <<>>
    BY <1>1, <1>2, <2>1, EmptySeq
  <2>. QED
    BY <1>1, <1>2, <2>1, <2>2, HeadTailProperties
<1>. QED
  BY <1>1, <1>3, <1>4, <1>5 DEF r

----------------------------------------------------------------------------
(* The inductive invariant *)

Resolvers == {"leased", "waiting", "build", "install"}

\* The last two conjuncts of TypeOK.
InLine ==
  /\ \A t \in Tasks : (sema[t] # NoId) <=> pc[t] \in Resolvers
  /\ \A t \in Tasks, s \in Semas :
       t \in Range(line[s]) <=> sema[t] = s /\ pc[t] \in {"waiting", "build", "install"}

\* A builder is the head of its line.
Lines ==
  /\ \A s \in Semas : Distinct(line[s])
  /\ \A t \in Tasks : pc[t] \in {"build", "install"} =>
       line[sema[t]] # <<>> /\ Head(line[sema[t]]) = t

\* A task that resolves a name finds its own semaphore in the map, or the
\* recent outcome of another task's work, and then it does not build.
Driven ==
  ~shutting => \A t \in Tasks : pc[t] \in Resolvers =>
    \/ slot[want[t]] = Resolving(sema[t])
    \/ /\ pc[t] \in {"leased", "waiting"}
       /\ slot[want[t]] = Failed \/ \E q \in touched : slot[want[t]] = Handle(q)

\* What a task has in hand at each point.
Carried ==
  \A t \in Tasks :
    /\ pc[t] \in Resolvers => want[t] \in Names
    /\ pc[t] \in {"idle", "leased", "waiting", "build"} => hand[t] = NoId
    /\ pc[t] = "install" /\ hand[t] # NoId => hand[t] \in touched
    /\ pc[t] = "insert" => hand[t] \in Queues

\* A queue that is about to be reaped is in the map and nobody resolves it;
\* queue_meta_maintainer only works during a shutdown.
Reaper ==
  ~shutting =>
    /\ meta = Nowhere
    /\ reap # Nowhere =>
         /\ reap.name \in Names
         /\ slot[reap.name] = Handle(reap.q)
         /\ \A t \in Tasks : pc[t] \in Resolvers => want[t] # reap.name

IInv == TypeOK /\ Lines /\ Driven /\ Carried /\ Reaper

LEMMA TypeInLine == TypeOK => InLine
BY DEF TypeOK, InLine, Resolvers

LEMMA InitIInv == Init => IInv
<1> SUFFICES ASSUME Init PROVE IInv
  OBVIOUS
<1>1. \A s \in Semas : line[s] = <<>> /\ line[s] \in Seq(Tasks)
                       /\ Distinct(line[s]) /\ Range(line[s]) = {}
  <2>1. <<>> \in Seq(Tasks) /\ Len(<<>>) = 0
    BY EmptySeq
  <2>2. Range(<<>>) = {}
    BY DEF Range
  <2>3. Distinct(<<>>)
    BY <2>1 DEF Distinct
  <2>4. \A s \in Semas : line[s] = <<>>
    BY DEF Init
  <2>. QED
    BY <2>1, <2>2, <2>3, <2>4
<1>2. /\ Absent \in Slots /\ 0 \in Int /\ FALSE \in BOOLEAN /\ "idle" \in PCs
      /\ Nowhere \in [name : Names \cup {NoId}, q : Queues \cup {NoId}]
  BY DEF Slots, PCs, Nowhere
<1>3. TypeOK
  BY <1>1, <1>2 DEF Init, TypeOK
<1>4. Lines
  BY <1>1 DEF Init, Lines
<1>5. Driven /\ Carried /\ Reaper
  BY DEF Init, Driven, Carried, Reaper, Resolvers
<1>. QED
  BY <1>3, <1>4, <1>5 DEF IInv

\* A resolve that ends gives up its semaphore and its place in line.
LEMMA LeaveLine ==
  ASSUME TypeOK, Lines, NEW t \in Tasks, line' = Released(t), NEW p \in PCs \ Resolvers,
         pc' = [pc EXCEPT ![t] = p], sema' = [sema EXCEPT ![t] = NoId]
  PROVE  /\ line' \in [Semas -> Seq(Tasks)]
         /\ pc' \in [Tasks -> PCs] /\ sema' \in [Tasks -> Semas \cup {NoId}]
         /\ InLine' /\ Lines'
<1>0. InLine
  BY TypeInLine
<1>1. ASSUME NEW s \in Semas
      PROVE  /\ line'[s] \in Seq(Tasks) /\ Distinct(line'[s])
             /\ Range(line'[s]) = Range(line[s]) \ {t}
             /\ line[s] # <<>> /\ Head(line[s]) # t => line'[s] # <<>> /\ Head(line'[s]) = Head(line[s])
  <2>1. line[s] \in Seq(Tasks) /\ Distinct(line[s]) /\ line'[s] = RemoveFirst(line[s], t)
    BY DEF TypeOK, Lines, Released
  <2>. QED
    BY <2>1, RemoveFirstFacts
<1>2. line' \in [Semas -> Seq(Tasks)]
  BY <1>1 DEF Released
<1>3. /\ pc' \in [Tasks -> PCs] /\ sema' \in [Tasks -> Semas \cup {NoId}]
      /\ pc'[t] = p /\ sema'[t] = NoId
      /\ \A u \in Tasks : u # t => pc'[u] = pc[u] /\ sema'[u] = sema[u]
  BY DEF TypeOK
<1>4. InLine'
  <2>1. \A u \in Tasks : (sema'[u] # NoId) <=> pc'[u] \in Resolvers
    BY <1>0, <1>3 DEF InLine
  <2>2. \A u \in Tasks, s \in Semas :
          u \in Range(line'[s]) <=> sema'[u] = s /\ pc'[u] \in {"waiting", "build", "install"}
    <3> SUFFICES ASSUME NEW u \in Tasks, NEW s \in Semas
                 PROVE  u \in Range(line'[s])
                          <=> sema'[u] = s /\ pc'[u] \in {"waiting", "build", "install"}
      OBVIOUS
    <3>1. CASE u = t
      <4>1. u \notin Range(line'[s])
        BY <1>1, <3>1
      <4>2. sema'[u] # s
        BY <1>3, <3>1, QMIdAssumption
      <4>. QED
        BY <4>1, <4>2
    <3>2. CASE u # t
      <4>1. u \in Range(line'[s]) <=> u \in Range(line[s])
        BY <1>1, <3>2
      <4>2. u \in Range(line[s]) <=> sema[u] = s /\ pc[u] \in {"waiting", "build", "install"}
        BY <1>0 DEF InLine
      <4>3. pc'[u] = pc[u] /\ sema'[u] = sema[u]
        BY <1>3, <3>2
      <4>. QED
        BY <4>1, <4>2, <4>3
    <3>. QED
      BY <3>1, <3>2
  <2>. QED
    BY <2>1, <2>2 DEF InLine
<1>5. Lines'
  <2>1. ASSUME NEW u \in Tasks, pc'[u] \in {"build", "install"}
        PROVE  line'[sema'[u]] # <<>> /\ Head(line'[sema'[u]]) = u
    <3>1. u # t /\ pc[u] \in {"build", "install"} /\ sema'[u] = sema[u]
      BY <1>3, <2>1 DEF Resolvers
    <3>2. sema[u] \in Semas
      BY <1>0, <3>1 DEF InLine, TypeOK, Resolvers
    <3>. QED
      BY <1>1, <3>1, <3>2 DEF Lines
  <2>. QED
    BY <1>1, <2>1 DEF Lines
<1>. QED
  BY <1>2, <1>3, <1>4, <1>5

\* A step that moves no task leaves the lines alone.
LEMMA SameLines ==
  ASSUME InLine, Lines, UNCHANGED <<line, pc, sema>>
  PROVE  InLine' /\ Lines'
BY DEF InLine, Lines

\* A name is built by the task at the head of the line of its semaphore.
LEMMA OneBuilder ==
  ASSUME IInv, ~shutting, NEW t \in Tasks, NEW u \in Tasks,
         pc[t] \in {"build", "install"}, pc[u] \in {"build", "install"}, want[t] = want[u]
  PROVE  t = u
<1>1. slot[want[t]] = Resolving(sema[t]) /\ slot[want[u]] = Resolving(sema[u])
  BY DEF IInv, Driven, Resolvers
<1>2. sema[t] = sema[u]
  BY <1>1 DEF Resolving
<1>. QED
  BY <1>2 DEF IInv, Lines

----------------------------------------------------------------------------
(* The steps *)

\* A task gets a handle from the map at once.
LEMMA LeaseHandleStep ==
  ASSUME IInv, NEW t \in Tasks, NEW n \in Names, NEW m \in Msgs,
         Resolve(t, n, m), LeaseHandle(t, n)
  PROVE  IInv'
<1>0. TypeOK /\ InLine /\ Lines /\ Driven /\ Carried /\ Reaper
  BY TypeInLine DEF IInv
<1>1. PICK q \in Queues : /\ pc' = [pc EXCEPT ![t] = "insert"]
                          /\ hand' = [hand EXCEPT ![t] = q]
                          /\ UNCHANGED <<slot, count, sema>>
  BY DEF LeaseHandle
<1>2. /\ pc[t] = "idle"
      /\ want' = [want EXCEPT ![t] = n]
      /\ msg' = [msg EXCEPT ![t] = m]
      /\ UNCHANGED <<line, where, entry, touched, reap, meta, ready, shutting, done>>
  BY DEF Resolve
<1>3. /\ pc' \in [Tasks -> PCs] /\ pc'[t] = "insert" /\ hand'[t] = q
      /\ \A u \in Tasks : u # t => pc'[u] = pc[u] /\ want'[u] = want[u] /\ hand'[u] = hand[u]
  BY <1>0, <1>1, <1>2 DEF TypeOK, PCs
<1>4. InLine'
  BY <1>0, <1>1, <1>2, <1>3 DEF InLine, Resolvers
<1>5. TypeOK'
  BY <1>0, <1>1, <1>2, <1>3, <1>4 DEF TypeOK, InLine, Resolvers
<1>6. Lines'
  BY <1>0, <1>1, <1>2, <1>3 DEF Lines
<1>7. Driven'
  BY <1>0, <1>1, <1>2, <1>3 DEF Driven, Resolvers
<1>8. Carried'
  BY <1>0, <1>2, <1>3 DEF Carried, Resolvers
<1>9. Reaper'
  BY <1>0, <1>1, <1>2, <1>3 DEF Reaper, Resolvers
<1>. QED
  BY <1>5, <1>6, <1>7, <1>8, <1>9 DEF IInv

\* A task leases a semaphore, shared or new: nobody waits for another one of
\* the same name.
LEMMA LeaseSemaStep ==
  ASSUME IInv, NEW t \in Tasks, NEW n \in Names, NEW m \in Msgs,
         Resolve(t, n, m), LeaseShared(t, n) \/ LeaseNew(t, n)
  PROVE  IInv'
<1>0. TypeOK /\ InLine /\ Lines /\ Driven /\ Carried /\ Reaper
  BY TypeInLine DEF IInv
<1>1. PICK s \in Semas : /\ slot' = [slot EXCEPT ![n] = Resolving(s)]
                         /\ slot[n] \in {Absent, Expired, Resolving(s)}
                         /\ pc' = [pc EXCEPT ![t] = "leased"]
                         /\ sema' = [sema EXCEPT ![t] = s]
                         /\ hand' = hand /\ count' \in Int
  <2>1. CASE LeaseShared(t, n)
    <3>1. PICK s \in Semas : /\ slot[n] = Resolving(s)
                             /\ pc' = [pc EXCEPT ![t] = "leased"]
                             /\ sema' = [sema EXCEPT ![t] = s]
                             /\ UNCHANGED <<slot, count, hand>>
      BY <2>1 DEF LeaseShared
    <3>2. slot' = [slot EXCEPT ![n] = Resolving(s)]
      BY <1>0, <3>1 DEF TypeOK
    <3>. QED
      BY <1>0, <3>1, <3>2 DEF TypeOK
  <2>2. CASE LeaseNew(t, n)
    <3>1. NewSema \in Semas
      BY <2>2 DEF LeaseNew, NewSema, FreeSemas
    <3>2. count' \in Int
      BY <1>0, <2>2 DEF LeaseNew, Counted, TypeOK
    <3>. QED
      BY <2>2, <3>1, <3>2 DEF LeaseNew
  <2>. QED
    BY <2>1, <2>2
<1>2. /\ pc[t] = "idle"
      /\ want' = [want EXCEPT ![t] = n]
      /\ msg' = [msg EXCEPT ![t] = m]
      /\ UNCHANGED <<line, where, entry, touched, reap, meta, ready, shutting, done>>
  BY DEF Resolve
<1>3. /\ pc' \in [Tasks -> PCs] /\ pc'[t] = "leased"
      /\ sema' \in [Tasks -> Semas \cup {NoId}] /\ sema'[t] = s /\ s # NoId
      /\ want' \in [Tasks -> Names \cup {NoId}] /\ want'[t] = n
      /\ \A u \in Tasks : u # t => pc'[u] = pc[u] /\ want'[u] = want[u] /\ sema'[u] = sema[u]
  BY <1>0, <1>1, <1>2, QMIdAssumption DEF TypeOK, PCs
<1>4. /\ slot' \in [Names -> Slots] /\ slot'[n] = Resolving(s)
      /\ \A k \in Names : k # n => slot'[k] = slot[k]
  BY <1>0, <1>1 DEF TypeOK, Slots
<1>5. InLine'
  BY <1>0, <1>1, <1>2, <1>3 DEF InLine, Resolvers
<1>6. TypeOK'
  BY <1>0, <1>1, <1>2, <1>3, <1>4, <1>5 DEF TypeOK, InLine, Resolvers
<1>7. Lines'
  BY <1>0, <1>1, <1>2, <1>3 DEF Lines
<1>8. Driven'
  <2> SUFFICES ASSUME ~shutting, NEW u \in Tasks, pc'[u] \in Resolvers
               PROVE  \/ slot'[want'[u]] = Resolving(sema'[u])
                      \/ /\ pc'[u] \in {"leased", "waiting"}
                         /\ \/ slot'[want'[u]] = Failed
                            \/ \E q \in touched' : slot'[want'[u]] = Handle(q)
    BY <1>2 DEF Driven
  <2>1. CASE u = t
    BY <1>3, <1>4, <2>1
  <2>2. CASE u # t /\ want[u] = n
    <3>1. pc[u] \in Resolvers /\ want'[u] = n /\ sema'[u] = sema[u]
      BY <1>3, <2>2
    <3>2. slot[n] = Resolving(sema[u])
      <4>1. \/ slot[n] = Resolving(sema[u])
            \/ slot[n] = Failed
            \/ \E q \in touched : slot[n] = Handle(q)
        BY <1>0, <2>2, <3>1 DEF Driven
      <4>2. slot[n].kind \in {"absent", "expired", "resolving"}
        BY <1>1 DEF Absent, Expired, Resolving
      <4>3. slot[n] # Failed
        BY <4>2 DEF Failed
      <4>4. \A q \in touched : slot[n] # Handle(q)
        BY <4>2 DEF Handle
      <4>. QED
        BY <4>1, <4>3, <4>4
    <3>3. sema[u] = s
      BY <1>1, <3>2 DEF Absent, Expired, Resolving
    <3>. QED
      BY <1>4, <3>1, <3>3
  <2>3. CASE u # t /\ want[u] # n
    <3>1. /\ pc[u] \in Resolvers /\ pc'[u] = pc[u] /\ want'[u] = want[u] /\ sema'[u] = sema[u]
          /\ want[u] \in Names
      BY <1>0, <1>3, <2>3 DEF Carried
    <3>2. slot'[want[u]] = slot[want[u]]
      BY <1>4, <2>3, <3>1
    <3>. QED
      BY <1>0, <1>2, <3>1, <3>2 DEF Driven
  <2>. QED
    BY <2>1, <2>2, <2>3
<1>9. Carried'
  BY <1>0, <1>1, <1>2, <1>3 DEF Carried, Resolvers
<1>10. Reaper'
  <2>1. ~shutting /\ reap # Nowhere => reap.name # n
    BY <1>0, <1>1 DEF Reaper, Absent, Expired, Handle, Resolving
  <2>. QED
    BY <1>0, <1>2, <1>3, <1>4, <2>1 DEF Reaper, Resolvers
<1>. QED
  BY <1>6, <1>7, <1>8, <1>9, <1>10 DEF IInv

\* A task joins the line of its semaphore.
LEMMA AcquireStep ==
  ASSUME IInv, NEW t \in Tasks, Acquire(t)
  PROVE  IInv'
<1>0. TypeOK /\ InLine /\ Lines /\ Driven /\ Carried /\ Reaper
  BY TypeInLine DEF IInv
<1>1. /\ pc[t] = "leased"
      /\ line' = [line EXCEPT ![sema[t]] = Append(@, t)]
      /\ pc' = [pc EXCEPT ![t] = "waiting"]
      /\ UNCHANGED <<slot, count, want, sema, hand, msg, where, entry, touched, reap, meta,
                     ready, shutting, done>>
  BY DEF Acquire
<1>2. sema[t] \in Semas /\ t \notin Range(line[sema[t]])
  <2>1. sema[t] \in Semas \cup {NoId} /\ sema[t] # NoId
    BY <1>0, <1>1 DEF InLine, TypeOK, Resolvers
  <2>. QED
    BY <1>0, <1>1, <2>1 DEF InLine
<1>3. /\ line'[sema[t]] \in Seq(Tasks) /\ Distinct(line'[sema[t]])
      /\ Range(line'[sema[t]]) = Range(line[sema[t]]) \cup {t}
      /\ line[sema[t]] # <<>> => line'[sema[t]] # <<>> /\ Head(line'[sema[t]]) = Head(line[sema[t]])
  <2>1. line[sema[t]] \in Seq(Tasks) /\ Distinct(line[sema[t]])
        /\ line'[sema[t]] = Append(line[sema[t]], t)
    BY <1>0, <1>1, <1>2 DEF TypeOK, Lines
  <2>. QED
    BY <1>2, <2>1, AppendFacts
<1>4. \A s \in Semas : s # sema[t] => line'[s] = line[s]
  BY <1>0, <1>1 DEF TypeOK
<1>5. /\ pc' \in [Tasks -> PCs] /\ pc'[t] = "waiting"
      /\ \A u \in Tasks : u # t => pc'[u] = pc[u]
  BY <1>0, <1>1 DEF TypeOK, PCs
<1>6. InLine'
  <2>1. \A u \in Tasks : (sema'[u] # NoId) <=> pc'[u] \in Resolvers
    BY <1>0, <1>1, <1>5 DEF InLine, Resolvers
  <2>2. ASSUME NEW u \in Tasks, NEW s \in Semas
        PROVE  u \in Range(line'[s])
                 <=> sema'[u] = s /\ pc'[u] \in {"waiting", "build", "install"}
    <3>1. u \in Range(line[s]) <=> sema[u] = s /\ pc[u] \in {"waiting", "build", "install"}
      BY <1>0 DEF InLine
    <3>2. u \in Range(line'[s]) <=> u \in Range(line[s]) \/ (u = t /\ s = sema[t])
      BY <1>3, <1>4
    <3>. QED
      BY <1>1, <1>5, <3>1, <3>2
  <2>. QED
    BY <2>1, <2>2 DEF InLine
<1>7. TypeOK'
  <2>1. line' \in [Semas -> Seq(Tasks)]
    BY <1>0, <1>1, <1>3 DEF TypeOK
  <2>. QED
    BY <1>0, <1>1, <1>5, <1>6, <2>1 DEF TypeOK, InLine, Resolvers
<1>8. Lines'
  <2>1. \A s \in Semas : Distinct(line'[s])
    BY <1>0, <1>3, <1>4 DEF Lines
  <2>2. ASSUME NEW u \in Tasks, pc'[u] \in {"build", "install"}
        PROVE  line'[sema'[u]] # <<>> /\ Head(line'[sema'[u]]) = u
    <3>1. u # t /\ pc[u] \in {"build", "install"} /\ sema'[u] = sema[u]
      BY <1>1, <1>5, <2>2
    <3>2. sema[u] \in Semas
      BY <1>0, <3>1 DEF InLine, TypeOK, Resolvers
    <3>. QED
      BY <1>0, <1>3, <1>4, <3>1, <3>2 DEF Lines
  <2>. QED
    BY <2>1, <2>2 DEF Lines
<1>9. Driven' /\ Carried' /\ Reaper'
  BY <1>0, <1>1, <1>5 DEF Driven, Carried, Reaper, Resolvers
<1>. QED
  BY <1>7, <1>8, <1>9 DEF IInv

\* What a task keeps of its own when it has nothing to do with semaphores.
Free(t, p) ==
  /\ p \in PCs \ Resolvers
  /\ pc' = [pc EXCEPT ![t] = p]
  /\ want' \in [Tasks -> Names \cup {NoId}] /\ \A u \in Tasks : u # t => want'[u] = want[u]
  /\ hand' \in [Tasks -> Queues \cup {NoId}] /\ \A u \in Tasks : u # t => hand'[u] = hand[u]
  /\ msg' \in [Tasks -> Msgs \cup {NoId}]
  /\ p = "idle" => hand'[t] = NoId
  /\ p = "insert" => hand'[t] \in Queues

LEMMA FinishFree ==
  ASSUME TypeOK, NEW t \in Tasks, Finish(t)
  PROVE  Free(t, "idle") /\ sema' = [sema EXCEPT ![t] = NoId]
BY DEF TypeOK, Finish, Free, PCs, Resolvers

\* A resolve ends without a change of the map.
LEMMA LeaveStep ==
  ASSUME IInv, NEW t \in Tasks, NEW p, Free(t, p), line' = Released(t),
         sema' = [sema EXCEPT ![t] = NoId],
         UNCHANGED <<slot, count, where, entry, touched, reap, meta, ready, shutting, done>>
  PROVE  IInv'
<1>0. TypeOK /\ Lines /\ Driven /\ Carried /\ Reaper
  BY DEF IInv
<1>1. p \in PCs \ Resolvers /\ pc' = [pc EXCEPT ![t] = p]
  BY DEF Free
<1>2. /\ line' \in [Semas -> Seq(Tasks)]
      /\ pc' \in [Tasks -> PCs] /\ sema' \in [Tasks -> Semas \cup {NoId}]
      /\ InLine' /\ Lines'
  BY <1>0, <1>1, LeaveLine
<1>3. /\ pc'[t] = p
      /\ \A u \in Tasks : u # t => /\ pc'[u] = pc[u] /\ sema'[u] = sema[u]
                                   /\ want'[u] = want[u] /\ hand'[u] = hand[u]
  BY <1>0 DEF Free, TypeOK
<1>4. TypeOK'
  BY <1>0, <1>2 DEF TypeOK, InLine, Resolvers, Free
<1>5. Driven'
  BY <1>0, <1>1, <1>3 DEF Driven
<1>6. Carried'
  BY <1>0, <1>1, <1>3 DEF Carried, Free, PCs, Resolvers
<1>7. Reaper'
  BY <1>0, <1>1, <1>3 DEF Reaper
<1>. QED
  BY <1>2, <1>4, <1>5, <1>6, <1>7 DEF IInv

LEMMA ProceedStep ==
  ASSUME IInv, NEW t \in Tasks, Proceed(t)
  PROVE  IInv'
<1>0. TypeOK /\ InLine /\ Lines /\ Driven /\ Carried /\ Reaper
  BY TypeInLine DEF IInv
<1>1. CASE GotHandle(t)
  <2>1. Free(t, "insert") /\ line' = Released(t) /\ sema' = [sema EXCEPT ![t] = NoId]
    BY <1>0, <1>1 DEF GotHandle, Obtain, Free, TypeOK, PCs, Resolvers
  <2>. QED
    BY <2>1, LeaveStep DEF Proceed
<1>2. CASE GotFailure(t)
  BY <1>0, <1>2, FinishFree, LeaveStep DEF Proceed, GotFailure
<1>3. CASE MustBuild(t)
  <2>1. /\ pc[t] = "waiting" /\ line[sema[t]] # <<>> /\ Head(line[sema[t]]) = t
        /\ slot[want[t]].kind \in {"resolving", "absent"}
        /\ pc' = [pc EXCEPT ![t] = "build"]
        /\ UNCHANGED <<want, sema, hand, msg, line>>
        /\ UNCHANGED <<slot, count, where, entry, touched, reap, meta, ready, shutting, done>>
    BY <1>3 DEF MustBuild, HasPermit, Proceed
  <2>2. /\ pc' \in [Tasks -> PCs] /\ pc'[t] = "build"
        /\ \A u \in Tasks : u # t => pc'[u] = pc[u]
    BY <1>0, <2>1 DEF TypeOK, PCs
  <2>3. InLine'
    BY <1>0, <2>1, <2>2 DEF InLine, Resolvers
  <2>4. TypeOK'
    BY <1>0, <2>1, <2>2, <2>3 DEF TypeOK, InLine, Resolvers
  <2>5. Lines'
    BY <1>0, <2>1, <2>2 DEF Lines
  <2>6. ~shutting => slot[want[t]] = Resolving(sema[t])
    <3>1. slot[want[t]] # Failed
      BY <2>1 DEF Failed
    <3>2. \A q \in touched : slot[want[t]] # Handle(q)
      BY <2>1 DEF Handle
    <3>. QED
      BY <1>0, <2>1, <3>1, <3>2 DEF Driven, Resolvers
  <2>7. Driven'
    BY <1>0, <2>1, <2>2, <2>6 DEF Driven
  <2>8. Carried' /\ Reaper'
    BY <1>0, <2>1, <2>2 DEF Carried, Reaper, Resolvers
  <2>. QED
    BY <2>4, <2>5, <2>7, <2>8 DEF IInv
<1>. QED
  BY <1>1, <1>2, <1>3 DEF Proceed

LEMMA CancelStep ==
  ASSUME IInv, NEW t \in Tasks, Cancel(t)
  PROVE  IInv'
BY FinishFree, LeaveStep DEF Cancel, IInv

\* The builder has its result: a recent queue, or none.
LEMMA BuildStep ==
  ASSUME IInv, NEW t \in Tasks, Build(t) \/ BuildFails(t)
  PROVE  IInv'
<1>0. TypeOK /\ InLine /\ Lines /\ Driven /\ Carried /\ Reaper
  BY TypeInLine DEF IInv
<1>1. /\ pc[t] = "build"
      /\ pc' = [pc EXCEPT ![t] = "install"]
      /\ UNCHANGED <<slot, count, line, want, sema, msg, where, entry, reap, meta, ready, shutting, done>>
  BY DEF Build, BuildFails
<1>2. /\ touched \subseteq touched' /\ touched' \subseteq Queues
      /\ hand' \in [Tasks -> Queues \cup {NoId}]
      /\ \A u \in Tasks : u # t => hand'[u] = hand[u]
      /\ hand'[t] # NoId => hand'[t] \in touched'
  <2>1. CASE Build(t)
    <3>1. NewQueue \in Queues
      BY <2>1 DEF Build, NewQueue, FreeQueues
    <3>. QED
      BY <1>0, <2>1, <3>1 DEF Build, TypeOK
  <2>2. CASE BuildFails(t)
    BY <1>0, <1>1, <2>2 DEF BuildFails, TypeOK, Carried
  <2>. QED
    BY <2>1, <2>2
<1>3. /\ pc' \in [Tasks -> PCs] /\ pc'[t] = "install"
      /\ \A u \in Tasks : u # t => pc'[u] = pc[u]
  BY <1>0, <1>1 DEF TypeOK, PCs
<1>4. InLine'
  BY <1>0, <1>1, <1>3 DEF InLine, Resolvers
<1>5. TypeOK'
  BY <1>0, <1>1, <1>2, <1>3, <1>4 DEF TypeOK, InLine, Resolvers
<1>6. Lines'
  BY <1>0, <1>1, <1>3 DEF Lines
<1>7. Driven'
  BY <1>0, <1>1, <1>2, <1>3 DEF Driven, Resolvers
<1>8. Carried'
  BY <1>0, <1>1, <1>2, <1>3 DEF Carried, Resolvers
<1>9. Reaper'
  BY <1>0, <1>1, <1>3 DEF Reaper, Resolvers
<1>. QED
  BY <1>5, <1>6, <1>7, <1>8, <1>9 DEF IInv

\* The only builder of the name replaces its own semaphore; those who wait for
\* it find a failure or a recent queue.
LEMMA InstallStep ==
  ASSUME IInv, NEW t \in Tasks, Install(t)
  PROVE  IInv'
<1>0. TypeOK /\ InLine /\ Lines /\ Driven /\ Carried /\ Reaper
  BY TypeInLine DEF IInv
<1> DEFINE result == IF hand[t] = NoId THEN Failed ELSE Handle(hand[t])
           p == IF hand[t] = NoId THEN "idle" ELSE "insert"
<1>1. /\ pc[t] = "install"
      /\ slot' = [slot EXCEPT ![want[t]] = result]
      /\ count' = Counted(want[t])
      /\ line' = Released(t)
      /\ UNCHANGED <<where, entry, touched, reap, meta, ready, shutting, done>>
  BY DEF Install
<1>2. /\ want[t] \in Names
      /\ result \in Slots
      /\ result = Failed \/ \E q \in touched : result = Handle(q)
  BY <1>0, <1>1 DEF Carried, TypeOK, Slots, Resolvers
<1>3. Free(t, p) /\ sema' = [sema EXCEPT ![t] = NoId]
  <2>1. CASE hand[t] = NoId
    BY <1>0, <2>1, FinishFree DEF Install
  <2>2. CASE hand[t] # NoId
    <3>1. Obtain(t, hand[t]) /\ UNCHANGED <<want, msg>> /\ p = "insert" /\ hand[t] \in Queues
      BY <1>0, <2>2 DEF Install, TypeOK
    <3>2. hand' = hand
      BY <1>0, <3>1 DEF Obtain, TypeOK
    <3>. QED
      BY <1>0, <3>1, <3>2 DEF Obtain, Free, TypeOK, PCs, Resolvers
  <2>. QED
    BY <2>1, <2>2
<1>4. p \in PCs \ Resolvers /\ pc' = [pc EXCEPT ![t] = p]
  BY <1>3 DEF Free
<1> HIDE DEF result, p
<1>5. /\ line' \in [Semas -> Seq(Tasks)]
      /\ pc' \in [Tasks -> PCs] /\ sema' \in [Tasks -> Semas \cup {NoId}]
      /\ InLine' /\ Lines'
  BY <1>0, <1>1, <1>3, <1>4, LeaveLine
<1>6. /\ pc'[t] = p
      /\ \A u \in Tasks : u # t => /\ pc'[u] = pc[u] /\ sema'[u] = sema[u]
                                   /\ want'[u] = want[u] /\ hand'[u] = hand[u]
  BY <1>0, <1>3, <1>4 DEF Free, TypeOK
<1>7. TypeOK'
  <2>1. slot' \in [Names -> Slots] /\ count' \in Int
    BY <1>0, <1>1, <1>2 DEF TypeOK, Counted
  <2>. QED
    BY <1>0, <1>1, <1>3, <1>5, <2>1 DEF TypeOK, InLine, Resolvers, Free
<1>8. Driven'
  <2> SUFFICES ASSUME ~shutting, NEW u \in Tasks, pc'[u] \in Resolvers
               PROVE  \/ slot'[want'[u]] = Resolving(sema'[u])
                      \/ /\ pc'[u] \in {"leased", "waiting"}
                         /\ \/ slot'[want'[u]] = Failed
                            \/ \E q \in touched' : slot'[want'[u]] = Handle(q)
    BY <1>1 DEF Driven
  <2>1. /\ u # t /\ pc[u] \in Resolvers /\ want[u] \in Names
        /\ pc'[u] = pc[u] /\ sema'[u] = sema[u] /\ want'[u] = want[u]
    BY <1>0, <1>4, <1>6 DEF Carried
  <2>2. CASE want[u] = want[t]
    <3>1. pc[u] \in {"leased", "waiting"}
      BY <1>1, <2>1, <2>2, OneBuilder DEF Resolvers
    <3>2. slot'[want[u]] = result
      BY <1>0, <1>1, <1>2, <2>2 DEF TypeOK
    <3>. QED
      BY <1>1, <1>2, <2>1, <3>1, <3>2
  <2>3. CASE want[u] # want[t]
    <3>1. slot'[want[u]] = slot[want[u]]
      BY <1>0, <1>1, <2>1, <2>3 DEF TypeOK
    <3>. QED
      BY <1>0, <1>1, <2>1, <3>1 DEF Driven
  <2>. QED
    BY <2>2, <2>3
<1>9. Carried'
  BY <1>0, <1>1, <1>3, <1>4, <1>6 DEF Carried, Free, PCs, Resolvers
<1>10. Reaper'
  <2>1. ~shutting /\ reap # Nowhere => want[t] # reap.name
    BY <1>0, <1>1 DEF Reaper, Resolvers
  <2>2. ~shutting /\ reap # Nowhere => slot'[reap.name] = slot[reap.name]
    BY <1>0, <1>1, <2>1 DEF Reaper, TypeOK
  <2>. QED
    BY <1>0, <1>1, <1>4, <1>6, <2>2 DEF Reaper
<1>. QED
  BY <1>5, <1>7, <1>8, <1>9, <1>10 DEF IInv

\* A task that is past resolving moves on.
LEMMA OutsideStep ==
  ASSUME IInv, NEW t \in Tasks, pc[t] \notin Resolvers, NEW p, Free(t, p),
         sema' = [sema EXCEPT ![t] = NoId] \/ sema' = sema,
         touched \subseteq touched', touched' \subseteq Queues,
         where' \in [Msgs -> Queues \cup {NoId}], entry' \in [Msgs -> {"wheel", "fired", "lost"}], ready' \in BOOLEAN,
         UNCHANGED <<slot, count, line, reap, meta, shutting, done>>
  PROVE  IInv'
<1>0. TypeOK /\ InLine /\ Lines /\ Driven /\ Carried /\ Reaper
  BY TypeInLine DEF IInv
<1>1. /\ p \in PCs \ Resolvers /\ pc' \in [Tasks -> PCs] /\ pc'[t] = p
      /\ \A u \in Tasks : u # t => pc'[u] = pc[u] /\ want'[u] = want[u] /\ hand'[u] = hand[u]
  BY <1>0 DEF Free, TypeOK
<1>2. sema' = sema
  <2>1. sema[t] = NoId
    BY <1>0 DEF InLine
  <2>. QED
    BY <1>0, <2>1 DEF TypeOK
<1>3. InLine'
  <2>1. \A u \in Tasks : (sema'[u] # NoId) <=> pc'[u] \in Resolvers
    BY <1>0, <1>1, <1>2 DEF InLine
  <2>2. ASSUME NEW u \in Tasks, NEW s \in Semas
        PROVE  u \in Range(line'[s])
                 <=> sema'[u] = s /\ pc'[u] \in {"waiting", "build", "install"}
    <3>1. u \in Range(line[s]) <=> sema[u] = s /\ pc[u] \in {"waiting", "build", "install"}
      BY <1>0 DEF InLine
    <3>. QED
      BY <1>1, <1>2, <3>1 DEF Resolvers
  <2>. QED
    BY <2>1, <2>2 DEF InLine
<1>4. TypeOK'
  BY <1>0, <1>1, <1>2, <1>3 DEF TypeOK, InLine, Resolvers, Free
<1>5. Lines'
  BY <1>0, <1>1, <1>2 DEF Lines, Resolvers
<1>6. Driven'
  BY <1>0, <1>1, <1>2 DEF Driven
<1>7. Carried'
  BY <1>0, <1>1 DEF Carried, Free, PCs, Resolvers
<1>8. Reaper'
  BY <1>0, <1>1 DEF Reaper
<1>. QED
  BY <1>4, <1>5, <1>6, <1>7, <1>8 DEF IInv

LEMMA UseStep ==
  ASSUME IInv, NEW t \in Tasks, Insert(t) \/ PlaceDelayed(t) \/ PlaceReady(t)
  PROVE  IInv'
<1>0. TypeOK /\ Carried
  BY DEF IInv
<1>1. pc[t] \notin Resolvers
  BY DEF Insert, PlaceDelayed, PlaceReady, Resolvers
<1>2. CASE Insert(t)
  <2>1. touched' = touched \cup {hand[t]} /\ hand[t] \in Queues
    BY <1>0, <1>2 DEF Insert, Carried
  <2>4. where' \in [Msgs -> Queues \cup {NoId}] /\ entry' \in [Msgs -> {"wheel", "fired", "lost"}]
        /\ touched' \subseteq Queues /\ ready' \in BOOLEAN
    BY <1>0, <1>2, <2>1 DEF Insert, TypeOK
  <2>2. CASE shutting
    <3>1. Free(t, "idle") /\ sema' = [sema EXCEPT ![t] = NoId]
      BY <1>0, <1>2, <2>2, FinishFree DEF Insert
    <3>. QED
      BY <1>1, <1>2, <2>4, <3>1, OutsideStep DEF Insert
  <2>3. CASE ~shutting
    <3>1. Free(t, "placing") /\ sema' = sema
      BY <1>0, <1>2, <2>3 DEF Insert, Free, TypeOK, PCs, Resolvers
    <3>. QED
      BY <1>1, <1>2, <2>4, <3>1, OutsideStep DEF Insert
  <2>. QED
    BY <2>2, <2>3
<1>3. CASE PlaceDelayed(t)
  <2>1. Free(t, "idle") /\ sema' = [sema EXCEPT ![t] = NoId]
    BY <1>0, <1>3, FinishFree DEF PlaceDelayed
  <2>2. where' \in [Msgs -> Queues \cup {NoId}] /\ entry' \in [Msgs -> {"wheel", "fired", "lost"}]
        /\ touched' \subseteq Queues /\ ready' \in BOOLEAN
    BY <1>0, <1>3 DEF PlaceDelayed, TypeOK
  <2>. QED
    BY <1>1, <1>3, <2>1, <2>2, OutsideStep DEF PlaceDelayed
<1>4. CASE PlaceReady(t)
  <2>1. Free(t, "idle") /\ sema' = [sema EXCEPT ![t] = NoId]
    BY <1>0, <1>4, FinishFree DEF PlaceReady
  <2>2. where' \in [Msgs -> Queues \cup {NoId}] /\ entry' \in [Msgs -> {"wheel", "fired", "lost"}]
        /\ touched' \subseteq Queues /\ ready' \in BOOLEAN
    BY <1>0, <1>4 DEF PlaceReady, TypeOK
  <2>. QED
    BY <1>1, <1>4, <2>1, <2>2, OutsideStep DEF PlaceReady
<1>. QED
  BY <1>2, <1>3, <1>4

LEMMA PopStep ==
  ASSUME IInv, NEW t \in Tasks, NEW m \in Msgs, Pop(t, m) \/ Reinsert(t, m)
  PROVE  IInv'
<1>0. TypeOK
  BY DEF IInv
<1>1. pc[t] \notin Resolvers
  BY DEF Pop, Reinsert, Resolvers
<1>2. where[m] \in Queues
  <2>1. CASE Pop(t, m)
    BY <1>0, <2>1 DEF Pop, TypeOK
  <2>2. CASE Reinsert(t, m)
    <3>1. PICK n \in Names : slot[n] = Handle(where[m])
      BY <2>2 DEF Reinsert
    <3>2. slot[n] \in Slots /\ slot[n].kind = "handle" /\ slot[n].id = where[m]
      BY <1>0, <3>1 DEF TypeOK, Handle
    <3>. QED
      BY <3>2 DEF Slots, Absent, Failed, Expired, Handle, Resolving
  <2>. QED
    BY <2>1, <2>2
<1>3. Free(t, "popped") /\ sema' = sema
  <2>1. /\ pc' = [pc EXCEPT ![t] = "popped"]
        /\ hand' = [hand EXCEPT ![t] = where[m]]
        /\ msg' = [msg EXCEPT ![t] = m]
        /\ UNCHANGED <<want, sema>>
    BY DEF Pop, Reinsert
  <2>. QED
    BY <1>0, <1>2, <2>1 DEF Free, TypeOK, PCs, Resolvers
<1>4. /\ where' \in [Msgs -> Queues \cup {NoId}] /\ touched' = touched /\ ready' \in BOOLEAN
      /\ entry' \in [Msgs -> {"wheel", "fired", "lost"}] /\ touched \subseteq Queues
  BY <1>0 DEF Pop, Reinsert, TypeOK
<1>. QED
  BY <1>1, <1>3, <1>4, OutsideStep DEF Pop, Reinsert

\* A negative entry expires when nobody waits for its outcome any more.
LEMMA ExpireStep ==
  ASSUME IInv, NEW n \in Names, Expire(n)
  PROVE  IInv'
<1>0. TypeOK /\ InLine /\ Lines /\ Driven /\ Carried /\ Reaper
  BY TypeInLine DEF IInv
<1>1. /\ slot[n] = Failed /\ Prompt
      /\ slot' = [slot EXCEPT ![n] = Expired]
      /\ UNCHANGED <<count, line, pc, want, sema, hand, msg, where, entry, touched, reap, meta, ready,
                     shutting, done>>
  BY DEF Expire, task
<1>2. /\ slot' \in [Names -> Slots]
      /\ \A k \in Names : k # n => slot'[k] = slot[k]
  BY <1>0, <1>1 DEF TypeOK, Slots
<1>3. InLine' /\ Lines'
  BY <1>0, <1>1, SameLines
<1>4. TypeOK'
  BY <1>0, <1>1, <1>2, <1>3 DEF TypeOK, InLine, Resolvers
<1>5. Driven'
  <2>1. ASSUME ~shutting, NEW u \in Tasks, pc[u] \in Resolvers PROVE want[u] # n
    <3>1. slot[want[u]] = Resolving(sema[u])
      BY <1>0, <1>1, <2>1 DEF Driven, Prompt
    <3>. QED
      BY <1>1, <3>1 DEF Failed, Resolving
  <2>2. ASSUME ~shutting, NEW u \in Tasks, pc[u] \in Resolvers
        PROVE  slot'[want[u]] = slot[want[u]]
    BY <1>0, <1>2, <2>1, <2>2 DEF Carried
  <2>. QED
    BY <1>0, <1>1, <2>2 DEF Driven
<1>6. Carried'
  BY <1>0, <1>1 DEF Carried
<1>7. Reaper'
  <2>1. ~shutting /\ reap # Nowhere => reap.name # n
    BY <1>0, <1>1 DEF Reaper, Failed, Handle
  <2>. QED
    BY <1>0, <1>1, <1>2, <2>1 DEF Reaper
<1>. QED
  BY <1>3, <1>4, <1>5, <1>6, <1>7 DEF IInv

\* reap_interval passes: nobody waits for an outcome, or carries the queue.
LEMMA AgeStep ==
  ASSUME IInv, NEW q \in Queues, Age(q)
  PROVE  IInv'
<1>0. TypeOK /\ InLine /\ Lines /\ Driven /\ Carried /\ Reaper
  BY TypeInLine DEF IInv
<1>1. /\ Prompt /\ touched' = touched \ {q}
      /\ \A t \in Tasks : pc[t] \in {"install", "insert", "placing"} => hand[t] # q
      /\ UNCHANGED <<slot, count, line, pc, want, sema, hand, msg, where, entry, reap, meta, ready,
                     shutting, done>>
  BY DEF Age, task
<1>2. InLine' /\ Lines'
  BY <1>0, <1>1, SameLines
<1>3. TypeOK'
  BY <1>0, <1>1, <1>2 DEF TypeOK, InLine, Resolvers
<1>4. Driven'
  BY <1>0, <1>1 DEF Driven, Prompt
<1>5. Carried'
  BY <1>0, <1>1 DEF Carried
<1>6. Reaper'
  BY <1>0, <1>1 DEF Reaper
<1>. QED
  BY <1>2, <1>3, <1>4, <1>5, <1>6 DEF IInv

\* check_reap picks a queue that has not changed for long: whoever waits for
\* its name would find it recent.
LEMMA ReapPickStep ==
  ASSUME IInv, NEW n \in Names, ReapPick(n)
  PROVE  IInv'
<1>0. TypeOK /\ InLine /\ Lines /\ Driven /\ Carried /\ Reaper
  BY TypeInLine DEF IInv
<1>1. PICK q \in Queues : /\ ~shutting /\ slot[n] = Handle(q) /\ q \notin touched
                          /\ reap' = [name |-> n, q |-> q]
                          /\ UNCHANGED <<slot, count, line, pc, want, sema, hand, msg, where, entry, touched,
                                         meta, ready, shutting, done>>
  BY DEF ReapPick, Reapable, task
<1>2. InLine' /\ Lines'
  BY <1>0, <1>1, SameLines
<1>3. TypeOK'
  BY <1>0, <1>1, <1>2 DEF TypeOK, InLine, Resolvers
<1>4. Driven' /\ Carried'
  BY <1>0, <1>1 DEF Driven, Carried
<1>5. ASSUME NEW t \in Tasks, pc[t] \in Resolvers PROVE want[t] # n
  <2>1. slot[n] # Failed /\ slot[n] # Resolving(sema[t])
    BY <1>1 DEF Failed, Handle, Resolving
  <2>2. \A k \in touched : slot[n] # Handle(k)
    BY <1>1 DEF Handle
  <2>. QED
    BY <1>0, <1>1, <1>5, <2>1, <2>2 DEF Driven
<1>6. Reaper'
  BY <1>0, <1>1, <1>5 DEF Reaper
<1>. QED
  BY <1>2, <1>3, <1>4, <1>6 DEF IInv

\* The reaper removes the queue that it has picked.
LEMMA ReapRemoveStep ==
  ASSUME IInv, ReapRemove
  PROVE  IInv'
<1>0. TypeOK /\ InLine /\ Lines /\ Driven /\ Carried /\ Reaper
  BY TypeInLine DEF IInv
<1>1. /\ reap # Nowhere /\ reap' = Nowhere
      /\ UNCHANGED <<line, pc, want, sema, hand, msg, where, entry, touched, meta, ready, shutting, done>>
  BY DEF ReapRemove, task
<1>2. /\ slot' \in [Names -> Slots] /\ count' \in Int
      /\ \A k \in Names : k # reap.name => slot'[k] = slot[k]
  <2>1. Absent \in Slots /\ slot \in [Names -> Slots] /\ count \in Int
    BY <1>0 DEF TypeOK, Slots
  <2>2. CASE UNCHANGED <<slot, count>>
    BY <2>1, <2>2
  <2>3. CASE slot' = [slot EXCEPT ![reap.name] = Absent] /\ count' = count - 1
    <3>1. slot' \in [Names -> Slots]
      BY <2>1, <2>3
    <3>2. \A k \in Names : k # reap.name => slot'[k] = slot[k]
      BY <2>1, <2>3
    <3>3. count' \in Int
      BY <2>1, <2>3
    <3>. QED
      BY <3>1, <3>2, <3>3
  <2>. QED
    BY <2>2, <2>3 DEF ReapRemove
<1>3. InLine' /\ Lines'
  BY <1>0, <1>1, SameLines
<1>4. TypeOK'
  <2>1. Nowhere \in [name : Names \cup {NoId}, q : Queues \cup {NoId}]
    BY DEF Nowhere
  <2>. QED
    BY <1>0, <1>1, <1>2, <1>3, <2>1 DEF TypeOK, InLine, Resolvers
<1>5. Driven'
  <2>1. ASSUME ~shutting, NEW u \in Tasks, pc[u] \in Resolvers
        PROVE  slot'[want[u]] = slot[want[u]]
    BY <1>0, <1>1, <1>2, <2>1 DEF Carried, Reaper
  <2>. QED
    BY <1>0, <1>1, <2>1 DEF Driven
<1>6. Carried' /\ Reaper'
  BY <1>0, <1>1 DEF Carried, Reaper
<1>. QED
  BY <1>3, <1>4, <1>5, <1>6 DEF IInv

\* Shutting down, and the steps that only touch what the invariant leaves open
\* from then on.
LEMMA ShutdownStep ==
  ASSUME IInv, Shutdown \/ MetaRemove \/ MetaDone \/ ReadyReaped \/ UNCHANGED vars
               \/ (\E n \in Names : MetaDrain(n)) \/ \E m \in Msgs : Fire(m) \/ ReinsertFails(m)
  PROVE  IInv'
<1>0. TypeOK /\ InLine /\ Lines /\ Driven /\ Carried /\ Reaper
  BY TypeInLine DEF IInv
<1>1. UNCHANGED <<count, line, pc, want, sema, hand, msg, touched, reap>>
  BY DEF Shutdown, MetaRemove, MetaDone, ReadyReaped, MetaDrain, Fire, ReinsertFails, vars, task
<1>2. \/ shutting'
      \/ UNCHANGED <<slot, meta, shutting>>
  BY <1>0 DEF Shutdown, MetaRemove, MetaDone, ReadyReaped, MetaDrain, Fire, ReinsertFails, vars, Reaper
<1>3. slot' \in [Names -> Slots]
  BY <1>0 DEF Shutdown, MetaRemove, MetaDone, ReadyReaped, MetaDrain, Fire, ReinsertFails, vars, TypeOK, Slots
<1>4. meta' \in [name : Names \cup {NoId}, q : Queues \cup {NoId}]
  <2>1. Nowhere \in [name : Names \cup {NoId}, q : Queues \cup {NoId}]
    BY DEF Nowhere
  <2>2. \A n \in Names, q \in Queues :
          [name |-> n, q |-> q] \in [name : Names \cup {NoId}, q : Queues \cup {NoId}]
    OBVIOUS
  <2>3. meta' = meta \/ meta' = Nowhere
        \/ \E n \in Names, q \in Queues : meta' = [name |-> n, q |-> q]
    BY DEF Shutdown, MetaRemove, MetaDone, ReadyReaped, MetaDrain, Fire, ReinsertFails, vars
  <2>. QED
    BY <1>0, <2>1, <2>2, <2>3 DEF TypeOK
<1>5. where' \in [Msgs -> Queues \cup {NoId}] /\ entry' \in [Msgs -> {"wheel", "fired", "lost"}]
  BY <1>0 DEF Shutdown, MetaRemove, MetaDone, ReadyReaped, MetaDrain, Fire, ReinsertFails, vars, TypeOK
<1>6. ready' \in BOOLEAN /\ shutting' \in BOOLEAN /\ done' \in BOOLEAN
  <2>1. ready \in BOOLEAN /\ shutting \in BOOLEAN /\ done \in BOOLEAN
    BY <1>0 DEF TypeOK
  <2>. QED
    BY <2>1 DEF Shutdown, MetaRemove, MetaDone, ReadyReaped, MetaDrain, Fire, ReinsertFails, vars
<1>7. InLine' /\ Lines'
  BY <1>0, <1>1, SameLines
<1>8. TypeOK'
  BY <1>0, <1>1, <1>3, <1>4, <1>5, <1>6, <1>7 DEF TypeOK, InLine, Resolvers
<1>9. Driven' /\ Reaper'
  BY <1>0, <1>1, <1>2 DEF Driven, Reaper
<1>10. Carried'
  BY <1>0, <1>1 DEF Carried
<1>. QED
  BY <1>7, <1>8, <1>9, <1>10 DEF IInv

LEMMA NextIInv == IInv /\ [Next]_vars => IInv'
<1> SUFFICES ASSUME IInv, [Next]_vars PROVE IInv'
  OBVIOUS
<1>1. ASSUME NEW t \in Tasks, NEW n \in Names, NEW m \in Msgs, Resolve(t, n, m) PROVE IInv'
  BY <1>1, LeaseHandleStep, LeaseSemaStep DEF Resolve
<1>2. ASSUME NEW t \in Tasks, TaskStep(t) \/ Cancel(t) PROVE IInv'
  BY <1>2, AcquireStep, ProceedStep, BuildStep, InstallStep, UseStep, CancelStep DEF TaskStep
<1>3. ASSUME NEW t \in Tasks, NEW m \in Msgs, Pop(t, m) \/ Reinsert(t, m) PROVE IInv'
  BY <1>3, PopStep
<1>4. ASSUME NEW n \in Names, Expire(n) \/ ReapPick(n) \/ MetaDrain(n) PROVE IInv'
  BY <1>4, ExpireStep, ReapPickStep, ShutdownStep
<1>5. ASSUME NEW q \in Queues, Age(q) PROVE IInv'
  BY <1>5, AgeStep
<1>6. CASE ReapRemove
  BY <1>6, ReapRemoveStep
<1>7. CASE Shutdown \/ MetaRemove \/ MetaDone \/ ReadyReaped \/ UNCHANGED vars
  BY <1>7, ShutdownStep
<1>8. ASSUME NEW m \in Msgs, Fire(m) \/ ReinsertFails(m) PROVE IInv'
  BY <1>8, ShutdownStep
<1>. QED
  BY <1>1, <1>2, <1>3, <1>4, <1>5, <1>6, <1>7, <1>8 DEF Next

LEMMA IInvAlways == Spec => []IInv
BY InitIInv, NextIInv, PTL DEF Spec

\* manager.rs: the slots, semaphores and lines keep their types, and a name is
\* never built by two tasks at a time.
THEOREM SoleBuilderTheorem == Spec => [](TypeOK /\ SoleBuilder)
<1>1. IInv => TypeOK /\ SoleBuilder
  BY OneBuilder DEF IInv, SoleBuilder
<1>. QED
  BY <1>1, IInvAlways, PTL

\* What a step may do to the map before a shutdown.
LEMMA SlotChange ==
  ASSUME IInv, ~shutting, [Next]_vars
  PROVE  \/ UNCHANGED <<slot, count>>
         \/ \E n \in Names, v \in Slots \ {Absent} :
              /\ slot[n].kind # "handle"
              /\ slot' = [slot EXCEPT ![n] = v] /\ count' = Counted(n)
         \/ \E n \in Names :
              /\ slot[n] = Handle(reap.q) /\ IsEmpty(reap.q)
              /\ slot' = [slot EXCEPT ![n] = Absent] /\ count' = count - 1
<1>0. TypeOK /\ Driven /\ Carried /\ Reaper
  BY DEF IInv
<1>1. ASSUME NEW t \in Tasks, NEW n \in Names, LeaseNew(t, n)
      PROVE  \E v \in Slots \ {Absent} : /\ slot[n].kind # "handle"
                                         /\ slot' = [slot EXCEPT ![n] = v] /\ count' = Counted(n)
  <2>1. NewSema \in Semas
    BY <1>1 DEF LeaseNew, NewSema, FreeSemas
  <2>2. Resolving(NewSema) \in Slots /\ Resolving(NewSema) # Absent
    BY <2>1 DEF Slots, Resolving, Absent
  <2>3. slot[n].kind # "handle"
    BY <1>1 DEF LeaseNew, Absent, Expired
  <2>4. slot' = [slot EXCEPT ![n] = Resolving(NewSema)] /\ count' = Counted(n)
    BY <1>1 DEF LeaseNew
  <2>. QED
    BY <2>2, <2>3, <2>4
<1>2. ASSUME NEW t \in Tasks, Install(t)
      PROVE  \E v \in Slots \ {Absent} :
               /\ want[t] \in Names /\ slot[want[t]].kind # "handle"
               /\ slot' = [slot EXCEPT ![want[t]] = v] /\ count' = Counted(want[t])
  <2>1. want[t] \in Names /\ slot[want[t]] = Resolving(sema[t])
    BY <1>0, <1>2 DEF Install, Carried, Driven, Resolvers
  <2> DEFINE v == IF hand[t] = NoId THEN Failed ELSE Handle(hand[t])
  <2>2. v \in Slots /\ v # Absent
    BY <1>0 DEF TypeOK, Slots, Failed, Handle, Absent
  <2>3. slot[want[t]].kind # "handle"
    BY <2>1 DEF Resolving
  <2>4. slot' = [slot EXCEPT ![want[t]] = v] /\ count' = Counted(want[t])
    BY <1>2 DEF Install
  <2> HIDE DEF v
  <2>. QED
    BY <2>1, <2>2, <2>3, <2>4
<1>3. ASSUME NEW n \in Names, Expire(n)
      PROVE  \E v \in Slots \ {Absent} : /\ slot[n].kind # "handle"
                                         /\ slot' = [slot EXCEPT ![n] = v] /\ count' = Counted(n)
  <2>1. /\ slot[n].kind # "handle" /\ slot[n] # Absent
        /\ Expired \in Slots /\ Expired # Absent
    BY <1>3 DEF Expire, Failed, Absent, Expired, Slots
  <2>2. count' = Counted(n)
    BY <1>0, <1>3, <2>1 DEF Expire, Counted, TypeOK
  <2>. QED
    BY <1>3, <2>1, <2>2 DEF Expire
<1>4. CASE ReapRemove
  BY <1>0, <1>4 DEF ReapRemove, MayRemove, Reaper
<1>5. ~MetaRemove /\ \A n \in Names : ~MetaDrain(n)
  BY <1>0 DEF Reaper, MetaRemove, MetaDrain
<1>6. ASSUME NEW t \in Tasks, NEW n \in Names, NEW m \in Msgs, Resolve(t, n, m)
      PROVE  UNCHANGED <<slot, count>> \/ LeaseNew(t, n)
  BY <1>6 DEF Resolve, LeaseHandle, LeaseShared
<1>7. ASSUME NEW t \in Tasks, TaskStep(t) \/ Cancel(t)
      PROVE  UNCHANGED <<slot, count>> \/ Install(t)
  BY <1>7 DEF TaskStep, Cancel, Acquire, Proceed, Build, BuildFails, Insert, PlaceDelayed, PlaceReady
<1>8. ASSUME NEW t \in Tasks, NEW m \in Msgs, Pop(t, m) \/ Reinsert(t, m) PROVE UNCHANGED <<slot, count>>
  BY <1>8 DEF Pop, Reinsert
<1>12. ASSUME NEW m \in Msgs, Fire(m) \/ ReinsertFails(m) PROVE UNCHANGED <<slot, count>>
  BY <1>12 DEF Fire, ReinsertFails
<1>9. ASSUME NEW n \in Names, ReapPick(n) PROVE UNCHANGED <<slot, count>>
  BY <1>9 DEF ReapPick
<1>10. ASSUME NEW q \in Queues, Age(q) PROVE UNCHANGED <<slot, count>>
  BY <1>10 DEF Age
<1>11. CASE Shutdown \/ MetaDone \/ ReadyReaped \/ UNCHANGED vars
  BY <1>11 DEF Shutdown, MetaDone, ReadyReaped, vars
<1>. QED
  BY <1>1, <1>2, <1>3, <1>4, <1>5, <1>6, <1>7, <1>8, <1>9, <1>10, <1>11, <1>12 DEF Next

\* manager.rs, queue.rs: a handle leaves the map only by the reaper's hand,
\* when its queue is empty.
THEOREM HandleStaysTheorem == Spec => HandleStays
<1> DEFINE Stays == ~shutting =>
             \A n \in Names, q \in Queues :
               slot[n] = Handle(q) /\ slot'[n] # slot[n] => slot'[n] = Absent /\ IsEmpty(q)
<1>1. ASSUME IInv, [Next]_vars PROVE Stays
  <2> SUFFICES ASSUME ~shutting, NEW n \in Names, NEW q \in Queues,
                      slot[n] = Handle(q), slot'[n] # slot[n]
               PROVE  slot'[n] = Absent /\ IsEmpty(q)
    OBVIOUS
  <2>1. slot \in [Names -> Slots] /\ slot[n].kind = "handle" /\ slot[n].id = q
    BY <1>1 DEF IInv, TypeOK, Handle
  <2>2. PICK k \in Names : /\ slot[k] = Handle(reap.q) /\ IsEmpty(reap.q)
                           /\ slot' = [slot EXCEPT ![k] = Absent]
    <3>1. slot' # slot
      BY <2>1
    <3>2. ASSUME NEW k \in Names, NEW v \in Slots, slot[k].kind # "handle",
                 slot' = [slot EXCEPT ![k] = v]
          PROVE  FALSE
      BY <2>1, <3>2
    <3>. QED
      BY <1>1, <3>1, <3>2, SlotChange
  <2>3. k = n
    BY <2>1, <2>2
  <2>4. reap.q = q
    BY <2>1, <2>2, <2>3 DEF Handle
  <2>. QED
    BY <2>1, <2>2, <2>3, <2>4
<1>2. IInv /\ [Next]_vars => [Stays]_vars
  BY <1>1
<1>. QED
  BY <1>2, IInvAlways, PTL DEF Spec, HandleStays

\* manager.rs, queue.rs: the gauge of scheduled queues is the number of slots
\* up to the shutdown, for any finite set of names.
THEOREM CountTheorem ==
  ASSUME IsFiniteSet(Names)
  PROVE  Spec => []CountExact
<1> DEFINE Used == {n \in Names : slot[n] # Absent}
<1>1. Init => CountExact
  <2> SUFFICES ASSUME Init PROVE CountExact
    OBVIOUS
  <2>1. Used = {}
    BY DEF Init
  <2>. QED
    BY <2>1, FS_EmptySet DEF Init, CountExact
<1>2. ASSUME IInv, CountExact, [Next]_vars PROVE CountExact'
  <2> SUFFICES ASSUME ~shutting' PROVE count' = Cardinality(Used')
    BY DEF CountExact
  <2>1. ~shutting
    BY <1>2 DEF IInv, TypeOK, Next, Resolve, TaskStep, Cancel, Acquire, Proceed, Build, BuildFails,
                Install, Insert, PlaceDelayed, PlaceReady, Pop, Reinsert, Fire, ReinsertFails, Expire, ReapPick, MetaDrain, Age,
                ReapRemove, Shutdown, MetaRemove, MetaDone, ReadyReaped, vars
  <2>2. count = Cardinality(Used) /\ slot \in [Names -> Slots]
    BY <1>2, <2>1 DEF CountExact, IInv, TypeOK
  <2>3. IsFiniteSet(Used) /\ Cardinality(Used) \in Nat
    BY FS_Subset, FS_CardinalityType
  <2>4. CASE UNCHANGED <<slot, count>>
    BY <2>2, <2>4
  <2>5. ASSUME NEW n \in Names, NEW v \in Slots \ {Absent},
               slot' = [slot EXCEPT ![n] = v], count' = Counted(n)
        PROVE  count' = Cardinality(Used')
    <3>1. Used' = Used \cup {n}
      BY <2>2, <2>5
    <3>2. CASE slot[n] = Absent
      <4>1. n \notin Used /\ count' = count + 1
        BY <2>2, <2>3, <2>5, <3>2 DEF Counted
      <4>. QED
        BY <2>2, <2>3, <3>1, <4>1, FS_AddElement
    <3>3. CASE slot[n] # Absent
      <4>1. Used' = Used /\ count' = count
        BY <2>2, <2>3, <2>5, <3>1, <3>3 DEF Counted
      <4>. QED
        BY <2>2, <4>1
    <3>. QED
      BY <3>2, <3>3
  <2>6. ASSUME NEW n \in Names, slot[n] = Handle(reap.q),
               slot' = [slot EXCEPT ![n] = Absent], count' = count - 1
        PROVE  count' = Cardinality(Used')
    <3>1. n \in Used
      BY <2>6 DEF Handle, Absent
    <3>2. Used' = Used \ {n}
      BY <2>2, <2>6
    <3>. QED
      BY <2>2, <2>3, <2>6, <3>1, <3>2, FS_RemoveElement
  <2>. QED
    BY <1>2, <2>1, <2>4, <2>5, <2>6, SlotChange
<1>3. IInv /\ CountExact /\ [Next]_vars => CountExact'
  BY <1>2
<1>. QED
  BY <1>1, <1>3, IInvAlways, PTL DEF Spec

\* manager.rs: slots, lines and tasks keep their types; a task is in the line of
\* a semaphore exactly while it resolves.
THEOREM QueueManagerTypes == Spec => []TypeOK
  BY SoleBuilderTheorem, PTL
=============================================================================
