----------------------------- MODULE FifoProofs -----------------------------
(***************************************************************************)
(* Theorems about Fifo for every set of tasks, messages and capacities.    *)
(***************************************************************************)
EXTENDS Fifo, FiniteSetTheorems, SequenceTheorems, TLAPS

\* The tasks that hold an outstanding reservation.
Reserving == {t \in Tasks : pc[t] = "reserved"}

\* The inductive invariant: the type invariant, ownership, and the exactness
\* of num_reserved, which keeps its decrements from underflowing.
IInv == TypeOK /\ OneOwner /\ ReservedIsExact

\* The tasks are finitely many, so the outstanding reservations are too.
LEMMA ReservingFinite ==
  ASSUME NEW S \in SUBSET Tasks
  PROVE  IsFiniteSet(S) /\ Cardinality(S) \in Nat
  BY TasksAssumption, FS_Subset, FS_CardinalityType

\* Initially nothing is listed and every message is with one task.
LEMMA InitIInv == Init => IInv
<1> SUFFICES ASSUME Init PROVE IInv
  OBVIOUS
<1>1. TypeOK
  BY DEF Init, TypeOK
<1>2. OneOwner
  BY DEF Init, OneOwner, InList
<1>3. ReservedIsExact
  <2>1. {t \in Tasks : pc[t] = "reserved"} = {}
    BY DEF Init
  <2>. QED
    BY <2>1, FS_EmptySet DEF Init, ReservedIsExact
<1>. QED
  BY <1>1, <1>2, <1>3 DEF IInv

\* Adding one reservation to, or removing one from, the outstanding ones
\* changes their number by one.
LEMMA ReserveStep ==
  ASSUME IInv, NEW t \in Tasks, NEW S, S = {u \in Tasks : pc[u] = "reserved"}
  PROVE  /\ pc[t] # "reserved" => Cardinality(S \cup {t}) = num_reserved + 1
         /\ pc[t] = "reserved" => /\ num_reserved > 0
                                  /\ Cardinality(S \ {t}) = num_reserved - 1
<1>1. S \in SUBSET Tasks /\ num_reserved = Cardinality(S)
  BY DEF IInv, ReservedIsExact
<1>2. IsFiniteSet(S) /\ Cardinality(S) \in Nat
  BY <1>1, ReservingFinite
<1>3. ASSUME pc[t] # "reserved" PROVE Cardinality(S \cup {t}) = num_reserved + 1
  BY <1>1, <1>2, <1>3, FS_AddElement
<1>4. ASSUME pc[t] = "reserved"
      PROVE  num_reserved > 0 /\ Cardinality(S \ {t}) = num_reserved - 1
  <2>1. t \in S
    BY <1>4
  <2>2. Cardinality(S \ {t}) = Cardinality(S) - 1
    BY <1>2, <2>1, FS_RemoveElement
  <2>3. Cardinality(S \ {t}) \in Nat
    BY ReservingFinite
  <2>. QED
    BY <1>1, <1>2, <2>2, <2>3
<1>. QED
  BY <1>3, <1>4

\* Every operation preserves the types; the decrements of num_reserved do
\* because a reservation is outstanding when they run.
LEMMA NextTypeOK == IInv /\ [Next]_vars => TypeOK'
<1> SUFFICES ASSUME IInv, [Next]_vars PROVE TypeOK'
  OBVIOUS
<1> USE DEF TypeOK
<1>0. TypeOK /\ Capacities \subseteq Nat /\ Len(list) \in Nat
  BY CapacitiesAssumption, LenProperties DEF IInv
<1>1. CASE UNCHANGED vars
  BY <1>0, <1>1 DEF vars
<1>2. ASSUME NEW t \in Tasks, Reserve(t) PROVE TypeOK'
  BY <1>0, <1>2 DEF Reserve
<1>3. ASSUME NEW t \in Tasks, Redeem(t) PROVE TypeOK'
  <2>1. num_reserved > 0
    BY <1>3, ReserveStep DEF Redeem
  <2>2. PICK m \in held[t] : list' = Append(list, m) /\ held' = [held EXCEPT ![t] = @ \ {m}]
    BY <1>3 DEF Redeem
  <2>3. m \in Msgs
    BY <1>0, <2>2
  <2>4. list' \in Seq(Msgs)
    BY <1>0, <2>2, <2>3, AppendProperties
  <2>. QED
    BY <1>0, <1>3, <2>1, <2>2, <2>4 DEF Redeem, Redeemed
<1>4. ASSUME NEW t \in Tasks, DropReservation(t) PROVE TypeOK'
  <2>1. num_reserved > 0
    BY <1>4, ReserveStep DEF DropReservation
  <2>. QED
    BY <1>0, <1>4, <2>1 DEF DropReservation
<1>5. ASSUME NEW t \in Tasks, Push(t) PROVE TypeOK'
  <2>1. PICK m \in held[t] : list' = Append(list, m) /\ held' = [held EXCEPT ![t] = @ \ {m}]
    BY <1>5 DEF Push
  <2>2. m \in Msgs
    BY <1>0, <2>1
  <2>3. list' \in Seq(Msgs)
    BY <1>0, <2>1, <2>2, AppendProperties
  <2>. QED
    BY <1>0, <1>5, <2>1, <2>3 DEF Push
<1>6. ASSUME NEW t \in Tasks, Pop(t) PROVE TypeOK'
  <2>1. Head(list) \in Msgs /\ Tail(list) \in Seq(Msgs)
    BY <1>0, <1>6, HeadTailProperties DEF Pop
  <2>. QED
    BY <1>0, <1>6, <2>1 DEF Pop, OwePop
<1>7. ASSUME NEW t \in Tasks, TakeList(t) PROVE TypeOK'
  <2>1. InList \subseteq Msgs
    BY <1>0, ElementOfSeq DEF InList
  <2>2. <<>> \in Seq(Msgs)
    BY EmptySeq
  <2>. QED
    BY <1>0, <1>7, <2>1, <2>2 DEF TakeList
<1>8. ASSUME NEW t \in Tasks, AdjustGauge(t) PROVE TypeOK'
  BY <1>0, <1>8 DEF AdjustGauge
<1>9. ASSUME NEW t \in Tasks, NEW c \in Capacities, UpdateCapacityCheck(t, c)
      PROVE  TypeOK'
  BY <1>0, <1>9 DEF UpdateCapacityCheck
<1>10. ASSUME NEW t \in Tasks, UpdateCapacity(t) PROVE TypeOK'
  <2> DEFINE k == Kept(newcap[t])
  <2>1. newcap[t] \in Nat /\ k \in 0..Len(list)
    BY <1>0, <1>10 DEF UpdateCapacity, Kept
  <2>2. SubSeq(list, 1, k) \in Seq(Msgs)
    BY <1>0, <2>1, SubSeqProperties
  <2>3. Excess(k) \subseteq Msgs
    BY <1>0, <2>1, ElementOfSeq DEF Excess
  <2>. QED
    BY <1>0, <1>10, <2>1, <2>2, <2>3 DEF UpdateCapacity
<1>. QED
  BY <1>1, <1>2, <1>3, <1>4, <1>5, <1>6, <1>7, <1>8, <1>9, <1>10 DEF Next

\* Only reserve, redeem and drop touch num_reserved, each together with the
\* reservation it stands for.
LEMMA NextReserved == IInv /\ [Next]_vars => ReservedIsExact'
<1> SUFFICES ASSUME IInv, [Next]_vars PROVE ReservedIsExact'
  OBVIOUS
<1>0. TypeOK /\ ReservedIsExact
  BY DEF IInv
<1>1. ASSUME NEW t \in Tasks, Reserve(t) PROVE ReservedIsExact'
  <2>1. Reserving' = Reserving \cup {t}
    BY <1>0, <1>1 DEF Reserve, TypeOK, Reserving
  <2>2. Cardinality(Reserving \cup {t}) = num_reserved + 1
    BY <1>1, ReserveStep DEF Reserve, Reserving
  <2>. QED
    BY <1>1, <2>1, <2>2 DEF Reserve, ReservedIsExact, Reserving
<1>2. ASSUME NEW t \in Tasks, Redeem(t) \/ DropReservation(t) PROVE ReservedIsExact'
  <2>1. Reserving' = Reserving \ {t}
    BY <1>0, <1>2 DEF Redeem, Redeemed, DropReservation, TypeOK, Reserving
  <2>2. Cardinality(Reserving \ {t}) = num_reserved - 1
    BY <1>2, ReserveStep DEF Redeem, DropReservation, Reserving
  <2>. QED
    BY <1>2, <2>1, <2>2 DEF Redeem, DropReservation, ReservedIsExact, Reserving
<1>3. CASE num_reserved' = num_reserved /\ Reserving' = Reserving
  BY <1>0, <1>3 DEF ReservedIsExact, Reserving
<1>4. ASSUME NEW t \in Tasks,
             \/ Push(t) \/ Pop(t) \/ TakeList(t) \/ AdjustGauge(t) \/ UpdateCapacity(t)
             \/ \E c \in Capacities : UpdateCapacityCheck(t, c)
      PROVE  num_reserved' = num_reserved /\ Reserving' = Reserving
  BY <1>0, <1>4 DEF Push, Pop, TakeList, AdjustGauge, UpdateCapacity,
                    UpdateCapacityCheck, TypeOK, Reserving
<1>5. CASE UNCHANGED vars
  BY <1>0, <1>5 DEF vars, ReservedIsExact
<1>. QED
  BY <1>1, <1>2, <1>3, <1>4, <1>5 DEF Next

\* A message moves between the list and one task, and nothing else changes
\* hands: the argument shared by the operations below.
LEMMA NextOneOwner == IInv /\ [Next]_vars => OneOwner'
<1> SUFFICES ASSUME IInv, [Next]_vars PROVE OneOwner'
  OBVIOUS
<1>0. /\ list \in Seq(Msgs) /\ Len(list) \in Nat /\ DOMAIN list = 1..Len(list)
      /\ held \in [Tasks -> SUBSET Msgs]
      /\ OneOwner
  BY LenProperties DEF IInv, TypeOK
<1>1. ASSUME NEW t \in Tasks, NEW m \in held[t],
             list' = Append(list, m), held' = [held EXCEPT ![t] = @ \ {m}]
      PROVE  OneOwner'
  <2>1. /\ DOMAIN list' = 1..(Len(list) + 1)
        /\ list'[Len(list) + 1] = m
        /\ \A i \in 1..Len(list) : list'[i] = list[i]
    BY <1>0, <1>1, AppendProperties
  <2>2. InList' = InList \cup {m}
    BY <1>0, <2>1 DEF InList
  <2>3. m \notin InList
    BY <1>0, <1>1 DEF OneOwner
  <2>4. \A i, j \in DOMAIN list' : i # j => list'[i] # list'[j]
    BY <1>0, <2>1, <2>3 DEF OneOwner, InList
  <2>5. \A u \in Tasks : held'[u] = IF u = t THEN held[t] \ {m} ELSE held[u]
    BY <1>0, <1>1
  <2>6. InList' \cup UNION {held'[u] : u \in Tasks} = Msgs
    BY <1>0, <1>1, <2>2, <2>5 DEF OneOwner
  <2>7. \A u \in Tasks : held'[u] \cap InList' = {}
    BY <1>0, <1>1, <2>2, <2>5 DEF OneOwner
  <2>8. \A u, v \in Tasks : u # v => held'[u] \cap held'[v] = {}
    BY <1>0, <2>5 DEF OneOwner
  <2>. QED
    BY <2>4, <2>6, <2>7, <2>8 DEF OneOwner
<1>2. ASSUME NEW t \in Tasks, NEW a \in Nat, NEW b \in Nat,
             a > 0, b <= Len(list), a <= b + 1,
             NEW gone, gone = {list[i] : i \in (1..Len(list)) \ (a..b)},
             list' = SubSeq(list, a, b),
             held' = [held EXCEPT ![t] = @ \cup gone]
      PROVE  OneOwner'
  <2>1. /\ DOMAIN list' = 1..(b - a + 1)
        /\ \A i \in 1..(b - a + 1) : list'[i] = list[a + i - 1]
    BY <1>0, <1>2
  <2>2. InList' = {list[i] : i \in a..b}
    <3>1. \A i \in a..b : i - a + 1 \in 1..(b - a + 1) /\ list'[i - a + 1] = list[i]
      BY <1>2, <2>1
    <3>2. \A i \in 1..(b - a + 1) : a + i - 1 \in a..b
      BY <1>2
    <3>3. \A x : x \in InList' <=> \E i \in 1..(b - a + 1) : x = list'[i]
      BY <2>1 DEF InList
    <3>4. \A i \in a..b : list[i] \in InList'
      BY <3>1, <3>3
    <3>5. \A x \in InList' : \E i \in a..b : x = list[i]
      BY <2>1, <3>2, <3>3
    <3>. QED
      BY <3>4, <3>5
  <2>3. InList = InList' \cup gone /\ InList' \cap gone = {}
    <3>1. \A i \in 1..Len(list) : list[i] \in InList' \/ list[i] \in gone
      BY <1>2, <2>2
    <3>2. \A x \in InList' : \E i \in a..b : i \in 1..Len(list) /\ x = list[i]
      BY <1>2, <2>2
    <3>3. \A x \in gone : \E i \in 1..Len(list) : i \notin a..b /\ x = list[i]
      BY <1>2
    <3>4. InList = InList' \cup gone
      BY <1>0, <3>1, <3>2, <3>3 DEF InList
    <3>5. InList' \cap gone = {}
      BY <1>0, <3>2, <3>3 DEF OneOwner
    <3>. QED
      BY <3>4, <3>5
  <2>4. \A i, j \in DOMAIN list' : i # j => list'[i] # list'[j]
    BY <1>0, <1>2, <2>1 DEF OneOwner
  <2>5. \A u \in Tasks : held'[u] = IF u = t THEN held[t] \cup gone ELSE held[u]
    BY <1>0, <1>2
  <2>6. InList' \cup UNION {held'[u] : u \in Tasks} = Msgs
    <3>1. \A u \in Tasks : held[u] \subseteq held'[u] /\ held'[u] \subseteq held[u] \cup gone
      BY <2>5
    <3>2. gone \subseteq held'[t]
      BY <2>5
    <3>. QED
      BY <1>0, <2>3, <3>1, <3>2 DEF OneOwner
  <2>7. \A u \in Tasks : held'[u] \cap InList' = {}
    BY <1>0, <2>3, <2>5 DEF OneOwner
  <2>8. \A u, v \in Tasks : u # v => held'[u] \cap held'[v] = {}
    BY <1>0, <2>3, <2>5 DEF OneOwner
  <2>. QED
    BY <2>4, <2>6, <2>7, <2>8 DEF OneOwner
<1>3. CASE list' = list /\ held' = held
  BY <1>0, <1>3 DEF OneOwner, InList
<1>4. ASSUME NEW t \in Tasks, Redeem(t) \/ Push(t) PROVE OneOwner'
  BY <1>1, <1>4 DEF Redeem, Push
<1>5. ASSUME NEW t \in Tasks, Pop(t) PROVE OneOwner'
  <2>1. Len(list) > 0 /\ Tail(list) = SubSeq(list, 2, Len(list))
    BY <1>0, <1>5 DEF Pop
  <2>2. {Head(list)} = {list[i] : i \in (1..Len(list)) \ (2..Len(list))}
    BY <1>0, <2>1
  <2>3. /\ list' = SubSeq(list, 2, Len(list))
        /\ held' = [held EXCEPT ![t] = @ \cup {list[i] : i \in (1..Len(list)) \ (2..Len(list))}]
    BY <1>5, <2>1, <2>2 DEF Pop
  <2>4. 2 \in Nat /\ 2 > 0 /\ Len(list) <= Len(list) /\ 2 <= Len(list) + 1
    BY <1>0, <2>1
  <2>. QED
    BY <1>0, <1>2, <2>3, <2>4
<1>6. ASSUME NEW t \in Tasks, TakeList(t) PROVE OneOwner'
  <2>1. list' = SubSeq(list, 1, 0)
    BY <1>0, <1>6 DEF TakeList
  <2>2. InList = {list[i] : i \in (1..Len(list)) \ (1..0)}
    BY <1>0 DEF InList
  <2>3. held' = [held EXCEPT ![t] = @ \cup {list[i] : i \in (1..Len(list)) \ (1..0)}]
    BY <1>6, <2>2 DEF TakeList
  <2>4. 1 \in Nat /\ 0 \in Nat /\ 1 > 0 /\ 0 <= Len(list) /\ 1 <= 0 + 1
    BY <1>0
  <2>. QED
    BY <1>2, <2>1, <2>3, <2>4
<1>7. ASSUME NEW t \in Tasks, UpdateCapacity(t) PROVE OneOwner'
  <2> DEFINE k == Kept(newcap[t])
  <2>1. k \in 0..Len(list)
    BY <1>0, <1>7, CapacitiesAssumption DEF UpdateCapacity, Kept, IInv, TypeOK
  <2>2. Excess(k) = {list[i] : i \in (1..Len(list)) \ (1..k)}
    BY <1>0, <2>1 DEF Excess
  <2>3. /\ list' = SubSeq(list, 1, k)
        /\ held' = [held EXCEPT ![t] = @ \cup {list[i] : i \in (1..Len(list)) \ (1..k)}]
    BY <1>7, <2>2 DEF UpdateCapacity
  <2>4. 1 \in Nat /\ k \in Nat /\ 1 > 0 /\ k <= Len(list) /\ 1 <= k + 1
    BY <1>0, <2>1
  <2> HIDE DEF k
  <2>. QED
    BY <1>2, <2>3, <2>4
<1>8. ASSUME NEW t \in Tasks,
             \/ Reserve(t) \/ DropReservation(t) \/ AdjustGauge(t)
             \/ \E c \in Capacities : UpdateCapacityCheck(t, c)
      PROVE  list' = list /\ held' = held
  BY <1>8 DEF Reserve, DropReservation, AdjustGauge, UpdateCapacityCheck
<1>9. CASE UNCHANGED vars
  BY <1>3, <1>9 DEF vars
<1>. QED
  BY <1>3, <1>4, <1>5, <1>6, <1>7, <1>8, <1>9 DEF Next

\* Every operation of the Fifo preserves the inductive invariant.
THEOREM Inductive == Spec => []IInv
<1>1. IInv /\ [Next]_vars => IInv'
  BY NextTypeOK, NextReserved, NextOneOwner DEF IInv
<1>. QED
  BY <1>1, InitIInv, PTL DEF Spec

\* No interleaving of the Fifo's operations loses a message or gives it to
\* two owners, whatever the number of tasks, messages and capacities.
THEOREM OwnershipTheorem == Spec => []OneOwner
<1>1. IInv => OneOwner
  BY DEF IInv
<1>. QED
  BY <1>1, Inductive, PTL

\* num_reserved counts the outstanding reservations in every reachable
\* state, so the unsigned counter never wraps below zero.
THEOREM ReservationTheorem == Spec => []ReservedIsExact
<1>1. IInv => ReservedIsExact
  BY DEF IInv
<1>. QED
  BY <1>1, Inductive, PTL

\* The load of the Fifo grows only up to its capacity: capacity reductions
\* may leave it overcommitted by reservations, and nothing adds to the excess.
THEOREM OvercommitTheorem == Spec => Overcommit
<1> DEFINE Step == Load' > capacity' => /\ Load' <= Load
                                        /\ capacity' # capacity => list' = <<>>
<1>1. IInv /\ [Next]_vars => [Step]_vars
  <2> SUFFICES ASSUME IInv, Next PROVE Step
    OBVIOUS
  <2>0. /\ list \in Seq(Msgs) /\ Len(list) \in Nat /\ num_reserved \in Nat
        /\ capacity \in Nat /\ TypeOK
    BY CapacitiesAssumption, LenProperties DEF IInv, TypeOK
  <2>1. ASSUME NEW t \in Tasks, Reserve(t) PROVE Step
    BY <2>0, <2>1 DEF Reserve, Room, Load
  <2>2. ASSUME NEW t \in Tasks, Redeem(t) \/ Push(t) PROVE Step
    <3>1. PICK m \in held[t] : list' = Append(list, m)
      BY <2>2 DEF Redeem, Push
    <3>2. Len(list') = Len(list) + 1
      BY <2>0, <2>2, <3>1, AppendProperties DEF TypeOK
    <3>. QED
      BY <2>0, <2>2, <3>2 DEF Redeem, Push, Room, Load
  <2>3. ASSUME NEW t \in Tasks, DropReservation(t) PROVE Step
    BY <2>0, <2>3 DEF DropReservation, Load
  <2>4. ASSUME NEW t \in Tasks, Pop(t) PROVE Step
    BY <2>0, <2>4 DEF Pop, Load
  <2>5. ASSUME NEW t \in Tasks, TakeList(t) PROVE Step
    BY <2>0, <2>5 DEF TakeList, Load
  <2>6. ASSUME NEW t \in Tasks,
               AdjustGauge(t) \/ \E c \in Capacities : UpdateCapacityCheck(t, c)
        PROVE  Step
    BY <2>0, <2>6 DEF AdjustGauge, UpdateCapacityCheck, Load
  <2>7. ASSUME NEW t \in Tasks, UpdateCapacity(t) PROVE Step
    <3> DEFINE k == Kept(newcap[t])
    <3>1. newcap[t] \in Nat /\ k \in 0..Len(list)
      BY <2>0, <2>7, CapacitiesAssumption DEF UpdateCapacity, Kept, TypeOK
    <3>2. Len(list') = k /\ (k = 0 => list' = <<>>)
      BY <2>0, <2>7, <3>1 DEF UpdateCapacity
    <3>. QED
      BY <2>0, <2>7, <3>1, <3>2 DEF UpdateCapacity, Kept, Load
  <2>. QED
    BY <2>1, <2>2, <2>3, <2>4, <2>5, <2>6, <2>7 DEF Next
<1>. QED
  BY <1>1, Inductive, PTL DEF Spec, Overcommit

\* ready_queue.rs, Fifo: list, reservations and capacity keep their types, so
\* num_reserved, which is unsigned and only ever decremented, stays a natural.
THEOREM FifoTypes == Spec => []TypeOK
<1>1. IInv => TypeOK
  BY DEF IInv
<1>. QED
  BY <1>1, Inductive, PTL
-----------------------------------------------------------------------------
(* What the tasks owe to the gauge is a sum over all of them, a recursive  *)
(* function in the library.  Sums says that g is its table of values.      *)

Pick(s) == CHOOSE x \in s : TRUE
Plus(f, g, s) == f[Pick(s)] + g[s \ {Pick(s)}]
Sums(g, f, S) == g = [s \in SUBSET S |-> IF s = {} THEN 0 ELSE Plus(f, g, s)]

\* Induction over the subsets of a finite set, as the existence of a smallest
\* counterexample: a set T of subsets has a member with none below it.
LEMMA MinimalSubset ==
  ASSUME NEW S, IsFiniteSet(S), NEW T \in SUBSET (SUBSET S), T # {}
  PROVE  \E x \in T : \A y \in T : y \subseteq x => y = x
<1>1. IsWellFoundedOn(StrictSubsetOrdering(S), SUBSET S)
  BY FS_StrictSubsetOrderingWellFounded, FS_FiniteSubsetsOfFinite
<1>2. PICK x \in T : \A y \in T : ~(<<y, x>> \in StrictSubsetOrdering(S))
  BY <1>1, WFMin
<1> QED
  BY <1>2 DEF StrictSubsetOrdering

\* The fold takes an element out of every set that is not empty.
LEMMA Picked == ASSUME NEW s, s # {} PROVE Pick(s) \in s /\ s \ {Pick(s)} \subseteq s /\ s \ {Pick(s)} # s
BY DEF Pick

\* The equations of the table ...
LEMMA SumsRec ==
  ASSUME NEW S, NEW f, NEW g, Sums(g, f, S)
  PROVE  /\ g[{}] = 0
         /\ \A s \in SUBSET S : s # {} => g[s] = Plus(f, g, s)
<1>1. \A s \in SUBSET S : g[s] = IF s = {} THEN 0 ELSE Plus(f, g, s)
  BY DEF Sums
<1>2. {} \in SUBSET S
  OBVIOUS
<1>3. g[{}] = 0
  BY <1>1, <1>2
<1> QED
  BY <1>1, <1>3

\* ... keep it in the integers ...
LEMMA SumsInt ==
  ASSUME NEW S, IsFiniteSet(S), NEW f \in [S -> Int], NEW g, Sums(g, f, S)
  PROVE  \A s \in SUBSET S : g[s] \in Int
<1>1. g[{}] = 0 /\ \A s \in SUBSET S : s # {} => g[s] = Plus(f, g, s)
  BY SumsRec
<1> DEFINE T == {s \in SUBSET S : g[s] \notin Int}
<1>2. T = {}
  <2> SUFFICES ASSUME T # {} PROVE FALSE
    OBVIOUS
  <2>1. PICK x \in T : \A y \in T : y \subseteq x => y = x
    <3>1. T \in SUBSET (SUBSET S)
      OBVIOUS
    <3> HIDE DEF T
    <3> QED
      BY <3>1, MinimalSubset
  <2>2. CASE x = {}
    BY <1>1, <2>1, <2>2
  <2>3. CASE x # {}
    <3>1. PICK p : p = Pick(x)
      OBVIOUS
    <3>2. p \in S /\ x \ {p} \in SUBSET S /\ x \ {p} \notin T /\ x \in SUBSET S
      BY <2>1, <2>3, <3>1, Picked
    <3>3. g[x] = f[p] + g[x \ {p}] /\ g[x \ {p}] \in Int /\ f[p] \in Int
      BY <1>1, <2>3, <3>1, <3>2 DEF Plus
    <3> QED
      BY <2>1, <3>3
  <2> QED
    BY <2>2, <2>3
<1> QED
  BY <1>2

\* ... have one solution ...
LEMMA SumsUnique ==
  ASSUME NEW S, IsFiniteSet(S), NEW f, NEW g, NEW h, Sums(g, f, S), Sums(h, f, S)
  PROVE  g = h
<1>1. \A s \in SUBSET S : g[s] = IF s = {} THEN 0 ELSE Plus(f, g, s)
  BY DEF Sums
<1>2. \A s \in SUBSET S : h[s] = IF s = {} THEN 0 ELSE Plus(f, h, s)
  BY DEF Sums
<1> DEFINE T == {s \in SUBSET S : g[s] # h[s]}
<1>3. T = {}
  <2> SUFFICES ASSUME T # {} PROVE FALSE
    OBVIOUS
  <2>1. PICK x \in T : \A y \in T : y \subseteq x => y = x
    <3>1. T \in SUBSET (SUBSET S)
      OBVIOUS
    <3> HIDE DEF T
    <3> QED
      BY <3>1, MinimalSubset
  <2>2. CASE x = {}
    BY <1>1, <1>2, <2>2
  <2>3. CASE x # {}
    <3>1. x \ {Pick(x)} \in SUBSET S /\ x \ {Pick(x)} \notin T
      BY <2>1, <2>3, Picked
    <3> QED
      BY <1>1, <1>2, <2>3, <3>1 DEF Plus
  <2> QED
    BY <2>2, <2>3
<1>4. g \in [SUBSET S -> Range(g)] /\ h \in [SUBSET S -> Range(h)]
  BY DEF Sums, Range
<1> QED
  BY <1>3, <1>4

\* ... and have one: a smallest set without a table would get one from the
\* tables of its subsets.
LEMMA SumsExist ==
  ASSUME NEW S, IsFiniteSet(S), NEW f
  PROVE  \E g : Sums(g, f, S)
<1> DEFINE T == {s \in SUBSET S : ~\E g : Sums(g, f, s)}
           G(y) == CHOOSE g : Sums(g, f, y)
           V(y) == G(y)[y]
<1> SUFFICES ASSUME T # {} PROVE FALSE
  OBVIOUS
<1>1. PICK x \in T : \A y \in T : y \subseteq x => y = x
  <2>1. T \in SUBSET (SUBSET S)
    OBVIOUS
  <2> HIDE DEF T
  <2> QED
    BY <2>1, MinimalSubset
<1>2. \A y \in SUBSET x : y # x => IsFiniteSet(y) /\ Sums(G(y), f, y)
  BY <1>1, FS_Subset
<1>3. ASSUME NEW y \in SUBSET x, y # x, y # {}
      PROVE  V(y) = f[Pick(y)] + V(y \ {Pick(y)})
  <2> DEFINE z == y \ {Pick(y)}
             r == [s \in SUBSET z |-> G(y)[s]]
  <2>1. z \in SUBSET y /\ z # x /\ z \in SUBSET x
    BY <1>3, Picked
  <2>2. Sums(G(y), f, y) /\ Sums(G(z), f, z) /\ IsFiniteSet(z)
    BY <1>2, <1>3, <2>1
  <2> HIDE DEF z, G
  <2>3. \A s \in SUBSET y : G(y)[s] = IF s = {} THEN 0 ELSE Plus(f, G(y), s)
    BY <2>2 DEF Sums
  <2>4. Sums(r, f, z)
    <3>1. \A s \in SUBSET z : r[s] = IF s = {} THEN 0 ELSE Plus(f, r, s)
      <4> SUFFICES ASSUME NEW s \in SUBSET z PROVE r[s] = IF s = {} THEN 0 ELSE Plus(f, r, s)
        OBVIOUS
      <4>1. s \in SUBSET y /\ s \ {Pick(s)} \in SUBSET z
        BY <2>1
      <4> QED
        BY <2>3, <4>1 DEF Plus
    <3> QED
      BY <3>1 DEF Sums
  <2>5. r = G(z)
    BY <2>2, <2>4, SumsUnique
  <2>6. G(y)[z] = G(z)[z]
    BY <2>5
  <2> QED
    BY <1>3, <2>3, <2>6 DEF z, Plus
<1>4. V({}) = 0 \/ x = {}
  BY <1>2 DEF Sums
<1> DEFINE h == [s \in SUBSET x |-> IF s = {} THEN 0 ELSE f[Pick(s)] + V(s \ {Pick(s)})]
<1> HIDE DEF V, G
<1>5. ASSUME NEW s \in SUBSET x, s # {} PROVE h[s \ {Pick(s)}] = V(s \ {Pick(s)})
  <2> DEFINE y == s \ {Pick(s)}
  <2>1. y \in SUBSET x /\ y # x /\ x # {}
    BY <1>5, Picked
  <2> HIDE DEF y
  <2>2. CASE y = {}
    BY <1>4, <2>1, <2>2 DEF y
  <2>3. CASE y # {}
    BY <1>3, <2>1, <2>3 DEF y
  <2> QED
    BY <2>2, <2>3
<1>6. Sums(h, f, x)
  <2>1. \A s \in SUBSET x : h[s] = IF s = {} THEN 0 ELSE Plus(f, h, s)
    BY <1>5 DEF Plus
  <2> QED
    BY <2>1 DEF Sums
<1> QED
  BY <1>1, <1>6

\* A change of one summand changes the sum by as much.
LEMMA SumUpdate ==
  ASSUME NEW S, IsFiniteSet(S), NEW f \in [S -> Int], NEW e \in [S -> Int], NEW t \in S,
         \A s \in S : s # t => e[s] = f[s],
         NEW g, Sums(g, f, S), NEW h, Sums(h, e, S)
  PROVE  g[S] \in Int /\ h[S] = g[S] + (e[t] - f[t])
<1>1. \A s \in SUBSET S : g[s] \in Int /\ h[s] \in Int
  BY SumsInt
<1>2. /\ g[{}] = 0 /\ \A s \in SUBSET S : s # {} => g[s] = Plus(f, g, s)
      /\ h[{}] = 0 /\ \A s \in SUBSET S : s # {} => h[s] = Plus(e, h, s)
  BY SumsRec
<1> DEFINE D(s) == IF t \in s THEN e[t] - f[t] ELSE 0
           T == {s \in SUBSET S : h[s] # g[s] + D(s)}
<1>3. T = {}
  <2> SUFFICES ASSUME T # {} PROVE FALSE
    OBVIOUS
  <2>1. PICK x \in T : \A y \in T : y \subseteq x => y = x
    <3>1. T \in SUBSET (SUBSET S)
      OBVIOUS
    <3> HIDE DEF T
    <3> QED
      BY <3>1, MinimalSubset
  <2>2. CASE x = {}
    BY <1>1, <1>2, <2>2
  <2>3. CASE x # {}
    <3>1. PICK p : p = Pick(x)
      OBVIOUS
    <3>2. p \in S /\ p \in x /\ x \ {p} \in SUBSET S /\ x \ {p} \notin T
      BY <2>1, <2>3, <3>1, Picked
    <3>3. h[x \ {p}] = g[x \ {p}] + D(x \ {p}) /\ h[x] = e[p] + h[x \ {p}] /\ g[x] = f[p] + g[x \ {p}]
      BY <1>1, <1>2, <2>3, <3>1, <3>2 DEF Plus
    <3>4. h[x \ {p}] \in Int /\ g[x \ {p}] \in Int /\ e[p] \in Int /\ f[p] \in Int /\ e[t] \in Int /\ f[t] \in Int
      BY <1>1, <1>2, <3>2
    <3>5. CASE p = t
      BY <3>2, <3>3, <3>4, <3>5, <2>1
    <3>6. CASE p # t
      BY <3>2, <3>3, <3>4, <3>6, <2>1
    <3> QED
      BY <3>5, <3>6
  <2> QED
    BY <2>2, <2>3
<1> QED
  BY <1>1, <1>3

\* The table of the fold that GaugeBalance uses, and what the property says
\* about it in a state and in the next.
Total(f) == (CHOOSE k : Sums(k, f, Tasks))[Tasks]

LEMMA BalanceIsTotal ==
  /\ GaugeBalance <=> count + Total(owed) = Load
  /\ GaugeBalance' <=> count' + Total(owed') = Load'
<1>1. GaugeBalance <=> count + Total(owed) = Load
  BY DEF GaugeBalance, MapThenSumSet, MapThenFoldSet, Total, Sums, Plus, Pick
<1>2. GaugeBalance' <=> count' + Total(owed') = Load'
  BY DEF GaugeBalance, MapThenSumSet, MapThenFoldSet, Total, Sums, Plus, Pick
<1>. QED
  BY <1>1, <1>2

LEMMA TotalUpdate ==
  ASSUME NEW f \in [Tasks -> Int], NEW e \in [Tasks -> Int], NEW t \in Tasks,
         \A u \in Tasks : u # t => e[u] = f[u]
  PROVE  Total(f) \in Int /\ Total(e) = Total(f) + (e[t] - f[t])
<1>1. PICK g : g = (CHOOSE k : Sums(k, f, Tasks)) /\ Sums(g, f, Tasks)
  BY SumsExist, TasksAssumption
<1>2. PICK h : h = (CHOOSE k : Sums(k, e, Tasks)) /\ Sums(h, e, Tasks)
  BY SumsExist, TasksAssumption
<1>3. g[Tasks] \in Int /\ h[Tasks] = g[Tasks] + (e[t] - f[t])
  BY <1>1, <1>2, SumUpdate, TasksAssumption
<1>. QED
  BY <1>1, <1>2, <1>3 DEF Total

\* A task owes something only between its critical section and its adjustment.
Settled == \A t \in Tasks : pc[t] # "gauge" => owed[t] = 0

\* The step of a task changes the load by what it adds to the gauge and by what
\* it comes to owe, and nobody else's debt.
Balanced(t) ==
  /\ \A u \in Tasks : u # t => owed'[u] = owed[u]
  /\ Load' = Load + (count' - count) + (owed'[t] - owed[t])

LEMMA BalancedStep ==
  ASSUME IInv, Settled, [Next]_vars
  PROVE  Settled' /\ (UNCHANGED vars \/ \E t \in Tasks : Balanced(t))
<1>1. /\ TypeOK /\ list \in Seq(Msgs) /\ Len(list) \in Nat /\ num_reserved \in Nat
      /\ count \in Int /\ owed \in [Tasks -> Int] /\ pc \in [Tasks -> {"idle", "reserved", "gauge", "updating"}]
  BY LenProperties DEF IInv, TypeOK
<1>2. CASE UNCHANGED vars
  BY <1>2 DEF vars, Settled
<1>3. ASSUME NEW t \in Tasks, Reserve(t) PROVE Settled' /\ Balanced(t)
  BY <1>1, <1>3 DEF Reserve, Settled, Balanced, Load
<1>4. ASSUME NEW t \in Tasks, Redeem(t) PROVE Settled' /\ Balanced(t)
  <2>1. PICK m \in held[t] : list' = Append(list, m)
    BY <1>4 DEF Redeem
  <2>2. Len(list') = Len(list) + 1
    BY <1>1, <2>1, AppendProperties DEF TypeOK
  <2>3. Settled'
    BY <1>1, <1>4 DEF Redeem, Redeemed, Settled
  <2>. QED
    BY <1>1, <1>4, <2>2, <2>3 DEF Redeem, Balanced, Load
<1>5. ASSUME NEW t \in Tasks, DropReservation(t) PROVE Settled' /\ Balanced(t)
  BY <1>1, <1>5 DEF DropReservation, Settled, Balanced, Load
<1>6. ASSUME NEW t \in Tasks, Push(t) PROVE Settled' /\ Balanced(t)
  <2>1. PICK m \in held[t] : list' = Append(list, m)
    BY <1>6 DEF Push
  <2>2. Len(list') = Len(list) + 1
    BY <1>1, <2>1, AppendProperties DEF TypeOK
  <2>3. Settled'
    BY <1>1, <1>6 DEF Push, Settled
  <2>4. owed[t] = 0 /\ owed' = [owed EXCEPT ![t] = 1] /\ UNCHANGED <<num_reserved, count>>
    BY <1>6 DEF Push, Settled
  <2>. QED
    BY <1>1, <2>2, <2>3, <2>4 DEF Balanced, Load
<1>7. ASSUME NEW t \in Tasks, Pop(t) PROVE Settled' /\ Balanced(t)
  <2>1. Len(list') = Len(list) - 1
    <3>1. list # <<>> /\ list' = Tail(list) /\ list \in Seq(Msgs)
      BY <1>1, <1>7 DEF Pop
    <3>. QED
      BY <3>1, HeadTailProperties
  <2>2. Settled'
    BY <1>1, <1>7 DEF Pop, Settled
  <2>3. owed[t] = 0 /\ owed' = [owed EXCEPT ![t] = -1] /\ UNCHANGED <<num_reserved, count>>
    BY <1>7 DEF Pop, OwePop, Settled
  <2>. QED
    BY <1>1, <2>1, <2>2, <2>3 DEF Balanced, Load
<1>8. ASSUME NEW t \in Tasks, TakeList(t) PROVE Settled' /\ Balanced(t)
  <2>1. Len(list') = 0
    BY <1>8 DEF TakeList
  <2>. QED
    BY <1>1, <1>8, <2>1 DEF TakeList, Settled, Balanced, Load
<1>9. ASSUME NEW t \in Tasks, AdjustGauge(t) PROVE Settled' /\ Balanced(t)
  BY <1>1, <1>9 DEF AdjustGauge, Settled, Balanced, Load
<1>10. ASSUME NEW t \in Tasks, NEW c \in Capacities, UpdateCapacityCheck(t, c) PROVE Settled' /\ Balanced(t)
  BY <1>1, <1>10 DEF UpdateCapacityCheck, Settled, Balanced, Load
<1>11. ASSUME NEW t \in Tasks, UpdateCapacity(t) PROVE Settled' /\ Balanced(t)
  <2> DEFINE k == Kept(newcap[t])
  <2>1. newcap[t] \in Nat /\ k \in 0..Len(list)
    BY <1>1, <1>11, CapacitiesAssumption DEF UpdateCapacity, Kept, TypeOK
  <2>2. Len(list') = k
    BY <1>1, <1>11, <2>1 DEF UpdateCapacity
  <2>3. count' = count - (Len(list) - k) /\ UNCHANGED <<num_reserved, owed>>
    BY <1>11 DEF UpdateCapacity
  <2>4. Settled'
    BY <1>1, <1>11 DEF UpdateCapacity, Settled
  <2> HIDE DEF k
  <2>. QED
    BY <1>1, <2>1, <2>2, <2>3, <2>4 DEF Balanced, Load
<1>. QED
  BY <1>2, <1>3, <1>4, <1>5, <1>6, <1>7, <1>8, <1>9, <1>10, <1>11 DEF Next

\* The gauge never drifts: with any number of tasks that adjust it after they
\* have left the mutex, in any order, it differs from the load of the Fifo by
\* exactly the adjustments that are still to be made.
THEOREM GaugeTheorem == Spec => []GaugeBalance
<1>1. Init => Settled /\ GaugeBalance
  <2> SUFFICES ASSUME Init PROVE Settled /\ GaugeBalance
    OBVIOUS
  <2>1. PICK g : g = (CHOOSE k : Sums(k, owed, Tasks)) /\ Sums(g, owed, Tasks)
    BY SumsExist, TasksAssumption
  <2>2. g[Tasks] = 0
    <3> DEFINE T == {s \in SUBSET Tasks : g[s] # 0}
    <3>1. g[{}] = 0 /\ \A s \in SUBSET Tasks : s # {} => g[s] = Plus(owed, g, s)
      BY <2>1, SumsRec
    <3>2. T = {}
      <4> SUFFICES ASSUME T # {} PROVE FALSE
        OBVIOUS
      <4>1. PICK x \in T : \A y \in T : y \subseteq x => y = x
        <5>1. T \in SUBSET (SUBSET Tasks)
          OBVIOUS
        <5> HIDE DEF T
        <5>. QED
          BY <5>1, MinimalSubset, TasksAssumption
      <4>2. x # {} /\ x \in SUBSET Tasks
        BY <3>1, <4>1
      <4>3. PICK p : p = Pick(x)
        OBVIOUS
      <4>4. p \in Tasks /\ x \ {p} \in SUBSET Tasks /\ x \ {p} \notin T
        BY <4>1, <4>2, <4>3, Picked
      <4>5. g[x] = owed[p] + g[x \ {p}] /\ g[x \ {p}] = 0 /\ owed[p] = 0
        BY <3>1, <4>2, <4>3, <4>4 DEF Plus, Init
      <4>. QED
        BY <4>1, <4>5
    <3>. QED
      BY <3>2
  <2>3. count + Total(owed) = Load
    BY <2>1, <2>2 DEF Init, Total, Load
  <2>. QED
    BY <2>3, BalanceIsTotal DEF Init, Settled
<1>2. IInv /\ Settled /\ GaugeBalance /\ [Next]_vars => (Settled /\ GaugeBalance)'
  <2> SUFFICES ASSUME IInv, Settled, GaugeBalance, [Next]_vars PROVE Settled' /\ GaugeBalance'
    OBVIOUS
  <2>1. Settled'
    BY BalancedStep
  <2>2. /\ owed \in [Tasks -> Int] /\ owed' \in [Tasks -> Int] /\ count \in Int /\ count' \in Int
        /\ Load \in Int /\ Load' \in Int
    <3>1. TypeOK /\ TypeOK'
      BY NextTypeOK DEF IInv
    <3>2. Len(list) \in Nat /\ Len(list') \in Nat
      BY <3>1, LenProperties DEF TypeOK
    <3>. QED
      BY <3>1, <3>2 DEF TypeOK, Load
  <2>3. count + Total(owed) = Load
    BY BalanceIsTotal
  <2>4. ASSUME UNCHANGED vars PROVE GaugeBalance'
    <3>1. owed' = owed /\ count' = count /\ Load' = Load
      BY <2>4 DEF vars, Load
    <3>2. count' + Total(owed') = Load'
      BY <2>3, <3>1
    <3>. QED
      BY <3>2, BalanceIsTotal
  <2>5. ASSUME NEW t \in Tasks, Balanced(t) PROVE GaugeBalance'
    <3>1. Total(owed) \in Int /\ Total(owed') = Total(owed) + (owed'[t] - owed[t])
      BY <2>2, <2>5, TotalUpdate DEF Balanced
    <3>2. owed[t] \in Int /\ owed'[t] \in Int
      BY <2>2
    <3>3. count' + Total(owed') = Load'
      BY <2>2, <2>3, <2>5, <3>1, <3>2 DEF Balanced
    <3>. QED
      BY <3>3, BalanceIsTotal
  <2>. QED
    BY <2>1, <2>4, <2>5, BalancedStep
<1>. QED
  BY <1>1, <1>2, Inductive, PTL DEF Spec
=============================================================================
