---------------------------- MODULE MessageStore ----------------------------
(***************************************************************************)
(* One message and its two spool files: the in-memory Message of           *)
(* crates/message/src/message.rs with its dirty flags, the meta and data   *)
(* spools (crates/spool), and the removal and re-enumeration done by       *)
(* crates/kumod/src/spool.rs.                                              *)
(*                                                                         *)
(* The contents of a part are abstracted to a version number: every edit   *)
(* writes a new one.  A Message is a shared handle, so several tasks may   *)
(* work on it; an action is one lock section of the message, or one        *)
(* operation of one spool.                                                 *)
(***************************************************************************)
EXTENDS Naturals, FiniteSets

CONSTANTS
  Tasks,       \* tasks that hold a handle of the message
  MaxVersion   \* bound: how many versions of a part are written

Parts == {"meta", "data"}

\* No contents: metadata: None, data: NO_DATA, or no file in the spool.
None == 0

\* set_meta and unset_meta; set_sender and set_recipient_list;
\* set_scheduling; assign_data.
EditKinds == {"meta", "envelope", "schedule", "data"}

ASSUME VersionAssumption == MaxVersion \in Nat \ {0}

VARIABLES
  live,     \* a Message object for this id exists
  mem,      \* inner.metadata and inner.data
  dirty,    \* META_DIRTY and DATA_DIRTY of inner.flags
  disk,     \* the files of the meta and of the data spool
  pc,       \* where each task stands in an operation
  snap,     \* the copies a task's save or load works with
  todo,     \* the parts a task's save or removal has still to handle
  stored,   \* the parts a task's save has stored
  clock,    \* history: the last version number given out
  covered,  \* history: the newest version of each part that its flag covers
  acked,    \* history: the covered versions that a save reporting Ok has promised
  gone,     \* history: the parts remove_from_spool has removed
  spent     \* history: the metadata was removed and nobody has it left to save

vars == <<live, mem, dirty, disk, pc, snap, todo, stored, clock, covered, acked, gone, spent>>

Nothing == [p \in Parts |-> None]

\* Message::new_dirty: everything is in memory and nothing is saved.
Init ==
  /\ live = TRUE
  /\ mem = [p \in Parts |-> 1]
  /\ dirty = Parts
  /\ disk = Nothing
  /\ pc = [t \in Tasks |-> "idle"]
  /\ snap = [t \in Tasks |-> Nothing]
  /\ todo = [t \in Tasks |-> {}]
  /\ stored = [t \in Tasks |-> {}]
  /\ clock = 1
  /\ covered = [p \in Parts |-> 1]
  /\ acked = Nothing
  /\ gone = {}
  /\ spent = FALSE

Idle(t) == live /\ pc[t] = "idle"
-----------------------------------------------------------------------------
\* The part a setter changes: sender, recipients and schedule are fields of
\* the MetaData that the meta spool stores.
Changes(k) == IF k = "data" THEN "data" ELSE "meta"

\* The flag each setter raises.
DirtiedBy(k) == CASE k = "meta" -> {"meta"}
                  [] k = "envelope" -> {"data"}
                  [] k = "schedule" -> {}
                  [] k = "data" -> {"data"}

\* No other task stands between the first and the last lock section of a save
\* or a load.
Alone(t) == \A u \in Tasks \ {t} : pc[u] \notin {"saving", "loading"}

\* set_meta, unset_meta, set_sender, set_recipient_list, set_scheduling and
\* assign_data.  All but the last refuse when the metadata is not loaded.
\* History: the new version is covered when the flag of its part is up
\* afterwards and no save or load of another task is under way.
Edit(t, k) ==
  LET p == Changes(k) IN
  /\ Idle(t)
  /\ p = "meta" => mem[p] # None
  /\ clock < MaxVersion
  /\ clock' = clock + 1
  /\ mem' = [mem EXCEPT ![p] = clock + 1]
  /\ dirty' = dirty \cup DirtiedBy(k)
  /\ covered' = IF p \in dirty' /\ Alone(t) THEN [covered EXCEPT ![p] = clock + 1] ELSE covered
  /\ spent' = (spent /\ "meta" \notin dirty')
  /\ UNCHANGED <<live, disk, pc, snap, todo, stored, acked, gone>>

\* get_data_if_dirty and get_meta_if_dirty: a copy of each dirty part.
SnapAll == mem
SnapDirty == [p \in Parts |-> IF p \in dirty THEN mem[p] ELSE None]

\* Message::save_to, up to the two store calls.  Dirty data that is empty is
\* refused before anything is stored.
SaveStart(t) ==
  /\ Idle(t)
  /\ ~("data" \in dirty /\ mem["data"] = None)
  /\ snap' = [snap EXCEPT ![t] = SnapDirty]
  /\ todo' = [todo EXCEPT ![t] = {p \in Parts : SnapDirty[p] # None}]
  /\ stored' = [stored EXCEPT ![t] = {}]
  /\ pc' = [pc EXCEPT ![t] = "saving"]
  /\ UNCHANGED <<live, mem, dirty, disk, clock, covered, acked, gone, spent>>

\* Spool::store: a temporary file is written and renamed, so the spool holds
\* the old or the new version, never a part of one.
Store(t, p) ==
  /\ pc[t] = "saving"
  /\ p \in todo[t]
  /\ disk' = [disk EXCEPT ![p] = snap[t][p]]
  /\ todo' = [todo EXCEPT ![t] = @ \ {p}]
  /\ stored' = [stored EXCEPT ![t] = @ \cup {p}]
  /\ UNCHANGED <<live, mem, dirty, pc, snap, clock, covered, acked, gone, spent>>

StoreFails(t, p) ==
  /\ pc[t] = "saving"
  /\ p \in todo[t]
  /\ todo' = [todo EXCEPT ![t] = @ \ {p}]
  /\ UNCHANGED <<live, mem, dirty, disk, pc, snap, stored, clock, covered, acked, gone, spent>>

\* The flags cleared once both stores have returned: one for each success,
\* whatever became of the other.
ClearedIfAny(t) == IF stored[t] # {} THEN Parts ELSE {}
Cleared(t) == stored[t]

\* tokio::join! returns when both stores have, not at the first failure.
BothDone(t) == todo[t] = {}

\* The end of save_to.  It reports Ok when no store failed.
SaveFinish(t) ==
  /\ pc[t] = "saving"
  /\ BothDone(t)
  /\ dirty' = dirty \ Cleared(t)
  /\ acked' = IF \A p \in Parts : snap[t][p] # None => p \in stored[t] THEN covered ELSE acked
  /\ snap' = [snap EXCEPT ![t] = Nothing]
  /\ stored' = [stored EXCEPT ![t] = {}]
  /\ pc' = [pc EXCEPT ![t] = "idle"]
  /\ UNCHANGED <<live, mem, disk, todo, clock, covered, gone, spent>>
-----------------------------------------------------------------------------
\* The parts a shrink may release: none of them may be dirty.
OnlyDataMatters(ps) == "data" \notin dirty
Shrinkable(ps) == ps \cap dirty = {}

\* Message::shrink.
Shrink(t) ==
  /\ Idle(t)
  /\ Shrinkable(Parts)
  /\ mem' = Nothing
  /\ UNCHANGED <<live, dirty, disk, pc, snap, todo, stored, clock, covered, acked, gone, spent>>

\* Message::shrink_data.
ShrinkData(t) ==
  /\ Idle(t)
  /\ Shrinkable({"data"})
  /\ mem' = [mem EXCEPT !["data"] = None]
  /\ UNCHANGED <<live, dirty, disk, pc, snap, todo, stored, clock, covered, acked, gone, spent>>

\* load_meta_if_needed and load_data_if_needed: the test and the read of the
\* spool.  A missing file is an error that changes nothing.
LoadStart(t, p) ==
  /\ Idle(t)
  /\ mem[p] = None
  /\ disk[p] # None
  /\ snap' = [snap EXCEPT ![t] = [Nothing EXCEPT ![p] = disk[p]]]
  /\ pc' = [pc EXCEPT ![t] = "loading"]
  /\ UNCHANGED <<live, mem, dirty, disk, todo, stored, clock, covered, acked, gone, spent>>

\* load_meta_from and load_data_from, after the read: the part is replaced.
LoadFinish(t) ==
  /\ pc[t] = "loading"
  /\ mem' = [p \in Parts |-> IF snap[t][p] # None THEN snap[t][p] ELSE mem[p]]
  /\ snap' = [snap EXCEPT ![t] = Nothing]
  /\ pc' = [pc EXCEPT ![t] = "idle"]
  /\ UNCHANGED <<live, dirty, disk, todo, stored, clock, covered, acked, gone, spent>>
-----------------------------------------------------------------------------
\* SpoolManager::remove_from_spool begins.  It takes an id: whoever has a
\* handle of the message keeps it and may go on working with it.
RemoveStart(t) ==
  /\ Idle(t)
  /\ todo' = [todo EXCEPT ![t] = Parts]
  /\ pc' = [pc EXCEPT ![t] = "removing"]
  /\ UNCHANGED <<live, mem, dirty, disk, snap, stored, clock, covered, acked, gone, spent>>

\* The data file is removed first, then the metadata.
RemovalOrder(t, p) == p = "meta" => "data" \notin todo[t]

\* The metadata is in nobody's save: its flag is down and no save has a copy.
NobodySaves == "meta" \notin dirty /\ \A u \in Tasks : pc[u] = "saving" => "meta" \notin todo[u]

\* Spool::remove; a failure, a missing file included, is logged and the next
\* spool is still tried.
Remove(t, p) ==
  /\ pc[t] = "removing"
  /\ p \in todo[t]
  /\ RemovalOrder(t, p)
  /\ todo' = [todo EXCEPT ![t] = @ \ {p}]
  /\ \/ /\ disk[p] # None
        /\ disk' = [disk EXCEPT ![p] = None]
        /\ gone' = gone \cup {p}
        /\ spent' = IF p = "meta" THEN NobodySaves ELSE spent
     \/ UNCHANGED <<disk, gone, spent>>
  /\ UNCHANGED <<live, mem, dirty, pc, snap, stored, clock, covered, acked>>

\* remove_from_spool returns, and reports Ok whatever failed.
RemoveFinish(t) ==
  /\ pc[t] = "removing"
  /\ todo[t] = {}
  /\ pc' = [pc EXCEPT ![t] = "idle"]
  /\ UNCHANGED <<live, mem, dirty, disk, snap, todo, stored, clock, covered, acked, gone, spent>>

\* The process stops at any moment, or the last handle is dropped: what is
\* left is the files.
Crash ==
  /\ live
  /\ live' = FALSE
  /\ mem' = Nothing
  /\ dirty' = {}
  /\ pc' = [t \in Tasks |-> "idle"]
  /\ snap' = [t \in Tasks |-> Nothing]
  /\ todo' = [t \in Tasks |-> {}]
  /\ stored' = [t \in Tasks |-> {}]
  /\ covered' = disk
  /\ UNCHANGED <<disk, clock, acked, gone, spent>>

\* The metadata read by enumeration, new_from_spool: nothing is dirty.
Enumerated == [Nothing EXCEPT !["meta"] = disk["meta"]]

\* Restart: only the meta spool is enumerated.
Restart ==
  /\ ~live
  /\ disk["meta"] # None
  /\ live' = TRUE
  /\ mem' = Enumerated
  /\ UNCHANGED <<dirty, disk, pc, snap, todo, stored, clock, covered, acked, gone, spent>>

Next ==
  \/ \E t \in Tasks :
       \/ \E k \in EditKinds : Edit(t, k)
       \/ SaveStart(t) \/ SaveFinish(t)
       \/ \E p \in Parts : Store(t, p) \/ StoreFails(t, p) \/ LoadStart(t, p) \/ Remove(t, p)
       \/ Shrink(t) \/ ShrinkData(t) \/ LoadFinish(t)
       \/ RemoveStart(t) \/ RemoveFinish(t)
  \/ Crash
  \/ Restart

Spec == Init /\ [][Next]_vars
-----------------------------------------------------------------------------
Version == 0..MaxVersion

TypeOK ==
  /\ live \in BOOLEAN
  /\ mem \in [Parts -> Version]
  /\ dirty \in SUBSET Parts
  /\ disk \in [Parts -> Version]
  /\ pc \in [Tasks -> {"idle", "saving", "loading", "removing"}]
  /\ snap \in [Tasks -> [Parts -> Version]]
  /\ todo \in [Tasks -> SUBSET Parts]
  /\ stored \in [Tasks -> SUBSET Parts]
  /\ \A t \in Tasks : /\ pc[t] \in {"idle", "loading"} => todo[t] = {}
                      /\ pc[t] # "saving" => stored[t] = {}
  /\ clock \in 1..MaxVersion
  /\ covered \in [Parts -> Version]
  /\ acked \in [Parts -> Version]
  /\ gone \in SUBSET Parts
  /\ spent \in BOOLEAN

\* No sequence of failed saves, shrinks, loads, late stores of another task
\* and restarts takes a reader, from memory or through a load, behind a
\* covered change.  Every setter is in Edit: set_sender, set_recipient_list
\* and set_scheduling do not raise META_DIRTY, so what they write is covered
\* only while an earlier set_meta (or new_dirty) still has the flag up.
NoCoveredChangeLost ==
  live /\ gone = {} =>
    \A p \in Parts : covered[p] <= IF mem[p] # None THEN mem[p] ELSE disk[p]

\* A save that reported Ok is durable, also when it followed a save of which
\* only one store succeeded or ran beside another task's: until a file is
\* removed, every crash leaves what the save covered of each part, or a newer
\* version.
AckedSurvives == gone = {} => \A p \in Parts : acked[p] <= disk[p]

\* A message removed when nothing of its metadata was left to save is not
\* enumerated and delivered again: although remove_from_spool leaves the
\* handles, no save, load, shrink or change of the envelope or the schedule
\* by a holder, and no crash, brings the metadata file back.
RemovedStaysRemoved == spent => disk["meta"] = None

\* A part whose flag is down has every covered change in the spool, so
\* needs_save and shrink may go by the flags.
CleanMeansSaved == gone = {} => \A p \in Parts \ dirty : covered[p] <= disk[p]

\* META_DIRTY is never up without metadata in memory, where
\* get_meta_if_dirty would find nothing and the save report Ok.  Not so for
\* DATA_DIRTY: set_recipient_list raises it when the data is not loaded.
MetaIsHeld == "meta" \in dirty => mem["meta"] # None

\* The flags cover every change.  Does not hold: after a save, the next
\* set_recipient_list changes the metadata and leaves META_DIRTY down.
FlagsCoverChanges ==
  live /\ gone = {} => \A p \in Parts : mem[p] # None /\ p \notin dirty => disk[p] = mem[p]
=============================================================================
