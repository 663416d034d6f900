------------------------------- MODULE TimeQ -------------------------------
(***************************************************************************)
(* The hierarchical timer wheel of crates/message/src/timeq.rs, which the  *)
(* SingletonTimerWheelV2 strategy of the scheduled queues uses.            *)
(*                                                                         *)
(* Time is counted in units since the creation of the wheel, Resolution of *)
(* them to a tick.  A wheel has Tiers tiers of Size lists each (3 and 256  *)
(* in production).  The vectors of a list are sets here: their order only  *)
(* decides in which order one pop returns its messages.                    *)
(***************************************************************************)
EXTENDS Integers, FiniteSets, FiniteSetsExt

CONSTANTS
  Msgs,        \* messages
  NoMsg,       \* not a message
  Ids,         \* bound: entry slots alive at one time
  NoEntry,     \* not an entry slot
  Resolution,  \* tick_resolution
  Size,        \* WHEEL_SIZE
  Tiers,       \* SLOTS
  MaxDiff,     \* u32::MAX, the largest distance of a due time in ticks
  MaxTime,     \* bound on the time
  MaxDelay,    \* bound on the delay of a message
  MaxLag       \* bound: how long a pop can be overdue

ASSUME TimeQAssumption ==
  /\ {Resolution, Size, Tiers, MaxDiff, MaxTime, MaxDelay} \subseteq Nat \ {0}
  /\ MaxLag \in Nat
  /\ NoMsg \notin Msgs \cup Nat /\ NoEntry \notin Ids

VARIABLES
  now,       \* the clock
  next_run,
  last_dispatched,
  lists,     \* buckets[tier].lists[i]
  owner,     \* entry_slot_to_id
  entry,     \* entry_by_id: the current entry slot of a message
  due,       \* the due time of a message in the wheel
  out        \* the messages a pop has just returned, or NoMsg after another step

wheelVars == <<now, next_run, last_dispatched, lists, owner, entry, due, out>>

Places == (0 .. Tiers - 1) \X (0 .. Size - 1)

WheelInit ==
  /\ now = 0
  /\ next_run = Resolution
  /\ last_dispatched = 0
  /\ lists = [p \in Places |-> {}]
  /\ owner = [e \in Ids |-> NoMsg]
  /\ entry = [m \in Msgs |-> NoEntry]
  /\ due = [m \in Msgs |-> 0]
  /\ out = NoMsg

----------------------------------------------------------------------------
\* The ticks that one list of tier k stands for: 1 << (k * WHEEL_BITS).
Span[k \in 0 .. Tiers] == IF k = 0 THEN 1 ELSE Size * Span[k - 1]

Up(t) == (t + Resolution - 1) \div Resolution
Down(t) == t \div Resolution

\* compute_list: the lists for a message of tick d when the wheel runs next at
\* tick n; none when it is in the past.
ListsFor(n, d) ==
  LET diff == d - n
      fits == {k \in 0 .. Tiers - 1 : diff < Span[k + 1]}
      tier == IF fits = {} THEN Tiers - 1 ELSE Min(fits)
      tick == IF diff > MaxDiff THEN n + MaxDiff ELSE d
  IN  IF d < n THEN {} ELSE {<<tier, (tick \div Span[tier]) % Size>>}

\* Entry slots in no list and in no map.
FreeIds == {e \in Ids : /\ owner[e] = NoMsg
                        /\ \A p \in Places : e \notin lists[p]
                        /\ \A m \in Msgs : entry[m] # e}
NewId == CHOOSE e \in FreeIds : TRUE

\* TimeQ::insert: rounds up.
InsertOk(m, d) ==
  /\ d > now
  /\ FreeIds # {}
  /\ \E p \in ListsFor(Up(next_run), Up(d)) :
       lists' = [lists EXCEPT ![p] = @ \cup {NewId}]
  /\ owner' = [owner EXCEPT ![NewId] = m]
  /\ entry' = [entry EXCEPT ![m] = NewId]
  /\ due' = [due EXCEPT ![m] = d]
  /\ out' = NoMsg
  /\ UNCHANGED <<now, next_run, last_dispatched>>

\* Its caller has the message ready at once.
InsertRefused(m, d) ==
  /\ d <= now \/ ListsFor(Up(next_run), Up(d)) = {}
  /\ out' = NoMsg
  /\ UNCHANGED <<now, next_run, last_dispatched, lists, owner, entry, due>>

\* A message in the wheel may be inserted again with the due time it has.
Insert(m, d) ==
  /\ d <= now + MaxDelay
  /\ entry[m] = NoEntry \/ d = due[m]
  /\ InsertOk(m, d) \/ InsertRefused(m, d)

\* cancel leaves the entry slot in its list.
Cancel(m) ==
  /\ entry[m] # NoEntry
  /\ owner' = [owner EXCEPT ![entry[m]] = NoMsg]
  /\ entry' = [entry EXCEPT ![m] = NoEntry]
  /\ due' = [due EXCEPT ![m] = 0]
  /\ out' = NoMsg
  /\ UNCHANGED <<now, next_run, last_dispatched, lists>>

\* retain with a keeper that keeps S; drain keeps nothing.
Retain(S) ==
  LET valid == {e \in Ids : owner[e] # NoMsg /\ entry[owner[e]] = e}
      kept == {e \in valid : owner[e] \in S}
  IN  /\ lists' = [p \in Places |-> lists[p] \cap kept]
      /\ owner' = [e \in Ids |-> IF e \in kept THEN owner[e] ELSE NoMsg]
      /\ entry' = [m \in Msgs |-> IF m \in S THEN entry[m] ELSE NoEntry]
      /\ due' = [m \in Msgs |-> IF m \in S THEN due[m] ELSE 0]
      /\ out' = NoMsg
      /\ UNCHANGED <<now, next_run, last_dispatched>>

----------------------------------------------------------------------------
(* Pop *)

\* The rounding of a message that a pop puts back.
Again(t) == Down(t)

\* The lists to which message m goes back; none when it is ready.
BackTo(m) == IF due[m] <= now THEN {} ELSE ListsFor(Again(next_run), Again(due[m]))

\* All the entry slots of the lists ps are taken out.  A slot that is no longer
\* current is dropped; a message that is not due goes back into the wheel, where
\* its new slot can take the number of the old one; the rest is ready.
VisitLists(w, ps) ==
  LET taken == UNION {w.lists[p] : p \in ps}
      current == {e \in taken : w.owner[e] # NoMsg /\ w.entry[w.owner[e]] = e}
      back == {e \in current : BackTo(w.owner[e]) # {}}
      ready == {w.owner[e] : e \in current \ back}
  IN  [lists |-> [p \in Places |-> (IF p \in ps THEN {} ELSE w.lists[p])
                                     \cup {e \in back : p \in BackTo(w.owner[e])}],
       owner |-> [e \in Ids |-> IF e \in taken \ back THEN NoMsg ELSE w.owner[e]],
       entry |-> [m \in Msgs |-> IF m \in ready THEN NoEntry ELSE w.entry[m]],
       ready |-> w.ready \cup ready]

\* The lists that cascade at tick i: one of the next tier at the end of each
\* revolution, and one of the tier above that when that list is its first.
CascadeOnce(i) == IF i % Size = 0 /\ Tiers > 1 THEN {<<1, (i \div Size) % Size>>} ELSE {}
CascadeLists(i) ==
  {<<k, (i \div Span[k]) % Size>> :
     k \in {k \in 1 .. Tiers - 1 : \A j \in 0 .. k - 1 : (i \div Span[j]) % Size = 0}}

\* The ticks a pop has to catch up with, and how many of them it visits in
\* tier 0: at most one revolution.
Elapsed == Down(now) - Down(last_dispatched)
OneRound == IF Elapsed < Size THEN Elapsed ELSE Size

\* What a pop visits, in turn: the cascades of all elapsed ticks, then the
\* lists of tier 0.
Rounds ==
  LET tick(i) == Down(last_dispatched) + i
  IN  [r \in 1 .. Elapsed + OneRound |->
         IF r <= Elapsed THEN CascadeLists(tick(r)) ELSE {<<0, tick(r - Elapsed) % Size>>}]

\* pop_impl: the wheel after each round.
Visited[r \in 0 .. Elapsed + OneRound] ==
  IF r = 0 THEN [lists |-> lists, owner |-> owner, entry |-> entry, ready |-> {}]
  ELSE VisitLists(Visited[r - 1], Rounds[r])
Popped == Visited[Elapsed + OneRound]

Pop ==
  /\ now >= next_run
  /\ lists' = Popped.lists
  /\ owner' = Popped.owner
  /\ entry' = Popped.entry
  /\ out' = Popped.ready
  /\ due' = [m \in Msgs |-> IF m \in Popped.ready THEN 0 ELSE due[m]]
  /\ last_dispatched' = now
  /\ next_run' = now + Resolution
  /\ UNCHANGED now

Advance ==
  /\ now < MaxTime
  /\ now < next_run + MaxLag
  /\ now' = now + 1
  /\ out' = NoMsg
  /\ UNCHANGED <<next_run, last_dispatched, lists, owner, entry, due>>

WheelNext ==
  \/ Advance
  \/ \E m \in Msgs, d \in 0 .. MaxTime : Insert(m, d)
  \/ \E m \in Msgs : Cancel(m)
  \/ \E S \in SUBSET Msgs : Retain(S)
  \/ Pop

WheelSpec == WheelInit /\ [][WheelNext]_wheelVars

----------------------------------------------------------------------------
\* Types, and: entry_by_id and entry_slot_to_id agree, and the current slot of
\* a message is in exactly one list, where a pop will find it.
WheelTypeOK ==
  /\ {now, next_run, last_dispatched} \subseteq Nat
  /\ lists \in [Places -> SUBSET Ids]
  /\ owner \in [Ids -> Msgs \cup {NoMsg}]
  /\ entry \in [Msgs -> Ids \cup {NoEntry}]
  /\ due \in [Msgs -> Nat]
  /\ out \in (SUBSET Msgs) \cup {NoMsg}
  /\ \A m \in Msgs : entry[m] # NoEntry =>
       /\ owner[entry[m]] = m
       /\ Cardinality({p \in Places : entry[m] \in lists[p]}) = 1

\* The wheel is a timer: it hands a message out once, never before it is due, not
\* after it was cancelled, and at most one revolution of the whole wheel late.
Slack == Span[Tiers] * Resolution

Never == NoMsg

Abstract == INSTANCE Timer WITH
  pending <- [m \in Msgs |-> IF entry[m] = NoEntry THEN Never ELSE due[m]]

ImplementsTimer == Abstract!TimerSpec

\* timeq.rs:209: pop is to "Return all messages that are due at the specified
\* now", and timeq.rs:704 asserts that a message is returned by the end of the
\* tick in which it is due.
PopsAllDue ==
  last_dispatched = now => \A m \in Msgs : entry[m] # NoEntry => now < Up(due[m]) * Resolution
=============================================================================
