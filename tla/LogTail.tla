------------------------------- MODULE LogTail -------------------------------
(***************************************************************************)
(* Log segments and the tailer that hands their records to consumers:      *)
(* the producers are kumod's log thread (logging/files.rs, and log.rs of   *)
(* kumo-server-common) and LogWriter (kumo-jsonl/src/writer.rs), the reader *)
(* is MultiConsumerTailer (tailer.rs, decompress.rs, checkpoint.rs,        *)
(* batch.rs), of which LogTailer is the case of one consumer.              *)
(*                                                                         *)
(* A segment is a file named after the time it was opened, so segments are *)
(* numbered in the order of their names.  What a line says is left out: it *)
(* parses ("rec") or it does not ("junk").  A position <<f, l>> is the end *)
(* of line l of segment f, and stands for that line as well.  What the      *)
(* application does with a batch is up to it: it may commit its batches in  *)
(* any order, and leave one uncommitted while it goes on.                  *)
(***************************************************************************)
EXTENDS Integers, Sequences, FiniteSets, FiniteSetsExt

CONSTANTS
  Consumers,
  BatchSize,      \* max_batch_size of each consumer
  Filtered,       \* the consumers that have a filter
  MaxLines,       \* lines at which max_file_size is reached
  Kinds,          \* the lines to consider: "rec", "junk"
  MaxOpen,        \* segments open at a time: one for each suffix of the log
  MaxSegments,    \* bound on the segments written
  MaxWritten,     \* bound on the lines of all segments
  MaxCrashes,     \* bound on crashes of the producer and of the tailer
  NoCheckpoint

ASSUME LogAssumption ==
  /\ BatchSize \in [Consumers -> Nat \ {0}]
  /\ Filtered \subseteq Consumers
  /\ Kinds \subseteq {"rec", "junk"}
  /\ MaxLines \in Nat \ {0} /\ MaxOpen \in Nat /\ MaxSegments \in Nat /\ MaxWritten \in Nat
  /\ MaxCrashes \in Nat
  /\ NoCheckpoint \notin Nat \X Nat

VARIABLES
  seg,         \* the segments: their lines, how many are readable, their state
  checkpoint,  \* the checkpoint file of each consumer
  tailer,      \* the control state of the tailer, below
  batch,       \* what is being collected for each consumer
  out,         \* the batches that each consumer was handed and has not committed
  crashes,
  done,        \* (history) what each consumer has committed or its filter refused
  handed,      \* (history) what each consumer was handed by this run of the tailer
  unread,      \* (history) what the tailer passed over at the end of a file
  skipped,     \* (history) what was before the start of a consumer without checkpoint
  passed       \* (history) what was handed over and overtaken by a later commit

history == <<done, handed, unread, skipped, passed>>
tailVars == <<seg, checkpoint, tailer, batch, out, crashes, history>>

\* pc "down", "plan", "read", "eof", "flush", "yielded" or "panicked"; plan: the
\* segments still to read; line: lines_consumed of the first of them; eof: its
\* saw_eof; skip: consumer_skip; last, lastLine: last_processed and last_lines_consumed; bad:
\* bad_files; from: the checkpoints that have not been applied to a plan yet.
Down == [pc |-> "down", plan |-> {}, line |-> 0, eof |-> FALSE, skip |-> [c \in Consumers |-> 0],
         last |-> 0, lastLine |-> 0, bad |-> {}, from |-> [c \in Consumers |-> NoCheckpoint]]

TailInit ==
  /\ seg = <<>>
  /\ checkpoint = [c \in Consumers |-> NoCheckpoint]
  /\ tailer = Down
  /\ batch = [c \in Consumers |-> {}]
  /\ out = [c \in Consumers |-> {}]
  /\ crashes = 0
  /\ done = [c \in Consumers |-> {}]
  /\ handed = [c \in Consumers |-> {}]
  /\ unread = [c \in Consumers |-> {}]
  /\ skipped = [c \in Consumers |-> {}]
  /\ passed = [c \in Consumers |-> {}]
-----------------------------------------------------------------------------
(* The producer. *)

Last == Len(seg)
OpenSegs == {f \in 1..Last : seg[f].state = "open"}

\* The lines in all segments.
AllLines == {r \in (1..Last) \X (1..MaxLines) : r[2] <= Len(seg[r[1]].lines)}

\* A full segment is finished at once.
WithLine(s, k) ==
  LET lines == Append(s.lines, k)
      full  == Len(lines) >= MaxLines
  IN  [lines |-> lines, visible |-> IF full THEN Len(lines) ELSE s.visible,
       state |-> IF full THEN "closed" ELSE "open"]

\* do_record and write_line: the line goes to an open segment, or to a new one.
\* That older segments are finished or marked is not asked for.
WriteLine(k) ==
  /\ Cardinality(AllLines) < MaxWritten
  /\ \/ \E f \in OpenSegs : seg' = [seg EXCEPT ![f] = WithLine(seg[f], k)]
     \/ /\ Cardinality(OpenSegs) < MaxOpen /\ Last < MaxSegments
        /\ seg' = Append(seg, WithLine([lines |-> <<>>, visible |-> 0, state |-> "open"], k))
  /\ UNCHANGED <<checkpoint, tailer, batch, out, crashes, history>>

\* The encoder writes a block when its buffer is full.
Flush(f) ==
  /\ f \in OpenSegs /\ seg[f].visible < Len(seg[f].lines)
  /\ seg' = [seg EXCEPT ![f].visible = Len(seg[f].lines)]
  /\ UNCHANGED <<checkpoint, tailer, batch, out, crashes, history>>

\* expire, maintain, close and low memory: the stream is finished ...
Finish(f) ==
  /\ f \in OpenSegs
  /\ seg' = [seg EXCEPT ![f].visible = Len(seg[f].lines), ![f].state = "closed"]
  /\ UNCHANGED <<checkpoint, tailer, batch, out, crashes, history>>

\* ... and then the segment is marked as done.  A mark may fail, and that error
\* is dropped; what is not marked is marked when the producer starts the next
\* time, but LogWriter does not look for it.
MarkDone(f) ==
  /\ f \in 1..Last /\ seg[f].state = "closed"
  /\ seg' = [seg EXCEPT ![f].state = "done"]
  /\ UNCHANGED <<checkpoint, tailer, batch, out, crashes, history>>

\* The producer is killed: what the encoders have not written is lost.
ProducerCrash ==
  /\ crashes < MaxCrashes /\ OpenSegs # {}
  /\ crashes' = crashes + 1
  /\ seg' = [f \in 1..Last |-> IF f \in OpenSegs
               THEN [seg[f] EXCEPT !.lines = SubSeq(@, 1, seg[f].visible), !.state = "closed"]
               ELSE seg[f]]
  /\ UNCHANGED <<checkpoint, tailer, batch, out, history>>
-----------------------------------------------------------------------------
(* The tailer. *)

Before(p, q) == p[1] < q[1] \/ (p[1] = q[1] /\ p[2] < q[2])
AtOrBefore(p, q) == p = q \/ Before(p, q)

\* The earliest of the checkpoints that exist.
Latest(cps) == CHOOSE p \in cps : \A q \in cps : AtOrBefore(q, p)
Earliest(cps) == CHOOSE p \in cps : \A q \in cps : AtOrBefore(p, q)

Existing(cp) == {cp[c] : c \in Consumers} \ {NoCheckpoint}

\* Every line up to a position.
UpTo(p) == {r \in (1..Last) \X (1..MaxLines) : AtOrBefore(r, p)}

\* What has become of the lines that consumer c will not be handed any more.
AccountedFor(c) == done[c] \cup unread[c] \cup skipped[c] \cup passed[c]

\* build: the checkpoints are loaded; a consumer that has none does not take
\* part in the choice of where to start, and what is before the others' is not
\* for it, also if an earlier run handed it over.
Start ==
  /\ tailer.pc = "down"
  /\ tailer' = [Down EXCEPT !.pc = "plan", !.from = checkpoint]
  /\ handed' = [c \in Consumers |-> {}]
  /\ skipped' = [c \in Consumers |->
       IF checkpoint[c] = NoCheckpoint /\ Existing(checkpoint) # {}
       THEN skipped[c] \cup (UpTo(Earliest(Existing(checkpoint))) \ AccountedFor(c)) ELSE skipped[c]]
  /\ UNCHANGED <<seg, checkpoint, batch, out, crashes, done, unread, passed>>

\* build_plan: the segments after the last one completed, or from the earliest
\* checkpoint on.
ForgetsCompleted ==
  {f \in (1..Last) \ tailer.bad :
     Existing(tailer.from) # {} => f >= Earliest(Existing(tailer.from))[1]}
Plan ==
  {f \in (1..Last) \ tailer.bad :
     IF tailer.last # 0 THEN f > tailer.last
     ELSE Existing(tailer.from) # {} => f >= Earliest(Existing(tailer.from))[1]}

\* The line at which checkpoint p enters a plan: only its first file counts.
SkipsIn(p, plan) == IF p # NoCheckpoint /\ Min(plan) = p[1] THEN p[2] ELSE 0

BuildPlan ==
  /\ tailer.pc = "plan"
  /\ Plan # {}
  /\ LET cps == Existing(tailer.from)
     IN  tailer' = [tailer EXCEPT
           !.pc = "read", !.plan = Plan, !.lastLine = 0,
           !.line = SkipsIn(IF cps = {} THEN NoCheckpoint ELSE Earliest(cps), Plan),
           !.skip = [c \in Consumers |-> SkipsIn(tailer.from[c], Plan)],
           !.from = [c \in Consumers |-> NoCheckpoint]]
  /\ UNCHANGED <<seg, checkpoint, batch, out, crashes, history>>

Cur == Min(tailer.plan)
Full(c) == Cardinality(batch[c]) >= BatchSize[c]
Filling == tailer.pc = "read" /\ \A c \in Consumers : ~Full(c)

\* The next file of the plan, or the end of it.
Advance(t) ==
  LET plan == t.plan \ {Min(t.plan)}
  IN  [t EXCEPT !.plan = plan, !.line = 0, !.eof = FALSE, !.skip = [c \in Consumers |-> 0],
                !.pc = IF plan = {} THEN "flush" ELSE "read"]

\* The consumers that a line is for: not those that are ahead of it.
SkipsOneMore == {c \in Consumers : tailer.line > tailer.skip[c]}
Offered == {c \in Consumers : tailer.line >= tailer.skip[c]}

\* A line that parses goes to the consumers whose filter, if any, accepts it.
ReadLine ==
  /\ Filling /\ ~tailer.eof
  /\ tailer.line < seg[Cur].visible
  /\ seg[Cur].lines[tailer.line + 1] = "rec"
  /\ LET r == <<Cur, tailer.line + 1>>
     IN  \E accept \in {Offered, Offered \ Filtered} :
           /\ batch' = [c \in Consumers |-> IF c \in accept THEN batch[c] \cup {r} ELSE batch[c]]
           /\ done' = [c \in Consumers |-> IF c \in Offered \ accept THEN done[c] \cup {r} ELSE done[c]]
  /\ tailer' = [tailer EXCEPT !.line = @ + 1]
  /\ UNCHANGED <<seg, checkpoint, out, crashes, handed, unread, skipped, passed>>

\* A line that does not parse: the rest of the file is skipped, and the file is
\* not looked at again by this run.
ReadJunk ==
  /\ Filling /\ ~tailer.eof
  /\ tailer.line < seg[Cur].visible
  /\ seg[Cur].lines[tailer.line + 1] = "junk"
  /\ tailer' = Advance([tailer EXCEPT !.bad = @ \cup {Cur}])
  /\ UNCHANGED <<seg, checkpoint, batch, out, crashes, history>>

\* next_line has nothing more to return, or it has said so before and has not
\* been told to look again (reset_eof) ...
Eof ==
  /\ Filling
  /\ tailer.line = seg[Cur].visible \/ tailer.eof
  /\ tailer' = [tailer EXCEPT !.pc = "eof", !.eof = TRUE]
  /\ UNCHANGED <<seg, checkpoint, batch, out, crashes, history>>

\* ... and then is_file_done is asked: the file is complete, or it is tried
\* again after a while.
IsFileDone ==
  /\ tailer.pc = "eof"
  /\ IF seg[Cur].state = "done"
     THEN /\ tailer' = Advance([tailer EXCEPT !.last = Cur, !.lastLine = tailer.line])
          /\ unread' = [c \in Consumers |->
               unread[c] \cup {<<Cur, l>> : l \in (tailer.line + 1)..seg[Cur].visible}]
     ELSE /\ tailer' = [tailer EXCEPT !.pc = "read", !.eof = FALSE]
          /\ unread' = unread
  /\ UNCHANGED <<seg, checkpoint, batch, out, crashes, done, handed, skipped, passed>>

\* The position that a batch commits.
CommitAt ==
  IF tailer.pc = "flush" THEN <<tailer.last, tailer.lastLine>> ELSE <<Cur, tailer.line>>

\* Full batches and those whose deadline has passed are handed over, also while
\* the tailer waits at the end of a file, and then eof stays set; at the end of
\* the plan all of them are, and one that has no completed file to commit is
\* taken to be impossible.
MoreMayCome == tailer.pc = "eof" /\ seg[Cur].state # "done"
Yield(ready) ==
  /\ \/ tailer.pc = "flush" /\ ready = {c \in Consumers : batch[c] # {}}
     \/ /\ tailer.pc = "read" \/ MoreMayCome
        /\ ready # {}
        /\ \A c \in Consumers : (Full(c) => c \in ready) /\ (c \in ready => batch[c] # {})
  /\ IF tailer.pc = "flush" /\ ready # {} /\ tailer.last = 0
     THEN /\ tailer' = [Down EXCEPT !.pc = "panicked"]
          /\ batch' = [c \in Consumers |-> {}]
          /\ UNCHANGED <<out, handed>>
     ELSE /\ tailer' = [tailer EXCEPT !.pc = IF ready = {} THEN "plan" ELSE "yielded"]
          /\ out' = [c \in Consumers |->
                       IF c \in ready THEN out[c] \cup {[recs |-> batch[c], at |-> CommitAt]} ELSE out[c]]
          /\ batch' = [c \in Consumers |-> IF c \in ready THEN {} ELSE batch[c]]
          /\ handed' = [c \in Consumers |-> IF c \in ready THEN handed[c] \cup batch[c] ELSE handed[c]]
  /\ UNCHANGED <<seg, checkpoint, crashes, done, unread, skipped, passed>>

\* LogBatch::commit, which replaces the checkpoint file atomically, wherever
\* the other batches of the consumer stand.
Commit(c, b) ==
  /\ b \in out[c]
  /\ checkpoint' = [checkpoint EXCEPT ![c] = b.at]
  /\ done' = [done EXCEPT ![c] = @ \cup b.recs]
  /\ out' = [out EXCEPT ![c] = @ \ {b}]
  /\ passed' = [passed EXCEPT ![c] =
       @ \cup {r \in UNION {o.recs : o \in out[c] \ {b}} : AtOrBefore(r, b.at)}]
  /\ UNCHANGED <<seg, tailer, batch, crashes, handed, unread, skipped>>

\* The application polls the stream again.
Poll ==
  /\ tailer.pc = "yielded"
  /\ tailer' = [tailer EXCEPT !.pc = IF tailer.plan = {} THEN "plan" ELSE "read"]
  /\ UNCHANGED <<seg, checkpoint, batch, out, crashes, history>>

\* The tailer is closed, is killed, or has panicked: what is not committed is
\* forgotten.
Stop ==
  /\ \/ tailer.pc = "panicked" /\ crashes' = crashes
     \/ tailer.pc \notin {"down", "panicked"} /\ crashes < MaxCrashes /\ crashes' = crashes + 1
  /\ tailer' = Down
  /\ batch' = [c \in Consumers |-> {}]
  /\ out' = [c \in Consumers |-> {}]
  /\ UNCHANGED <<seg, checkpoint, history>>

TailerStep ==
  \/ Start \/ BuildPlan \/ ReadLine \/ ReadJunk \/ Eof \/ IsFileDone \/ Poll
  \/ \E ready \in SUBSET Consumers : Yield(ready)

TailNext ==
  \/ \E k \in Kinds : WriteLine(k)
  \/ \E f \in 1..Last : Flush(f) \/ Finish(f) \/ MarkDone(f)
  \/ ProducerCrash
  \/ TailerStep \/ Stop
  \/ \E c \in Consumers : \E b \in out[c] : Commit(c, b)

TailSpec == TailInit /\ [][TailNext]_tailVars

\* The tailer runs, is polled and is restarted, and deadlines pass while it
\* waits for more lines; the application commits its batches in the end.  The
\* producer may stop for good at any point.
TailFairSpec ==
  /\ TailSpec
  /\ WF_tailVars(TailerStep \/ (tailer.pc = "panicked" /\ Stop))
  /\ SF_tailVars(\E ready \in SUBSET Consumers : Yield(ready))
  /\ \A c \in Consumers : WF_tailVars(\E b \in out[c] : Commit(c, b))
-----------------------------------------------------------------------------
Positions == (0..MaxSegments) \X (0..MaxLines)
Checkpoints == Positions \cup {NoCheckpoint}

\* Files, positions, checkpoints and what each consumer holds have their types.
TailTypeOK ==
  /\ seg \in Seq([lines : Seq(Kinds), visible : 0..MaxLines,
                  state : {"open", "closed", "done"}])
  /\ checkpoint \in [Consumers -> Checkpoints]
  /\ tailer \in [pc : {"down", "plan", "read", "eof", "flush", "yielded", "panicked"},
                 plan : SUBSET (1..MaxSegments), line : 0..MaxLines,
                 eof : BOOLEAN, skip : [Consumers -> 0..MaxLines], last : 0..MaxSegments,
                 lastLine : 0..MaxLines, bad : SUBSET (1..MaxSegments),
                 from : [Consumers -> Checkpoints]]
  /\ batch \in [Consumers -> SUBSET Positions]
  /\ out \in [Consumers -> SUBSET [recs : SUBSET Positions, at : Positions]]
  /\ crashes \in 0..MaxCrashes
  /\ done \in [Consumers -> SUBSET Positions]
  /\ handed \in [Consumers -> SUBSET Positions]
  /\ unread \in [Consumers -> SUBSET Positions]
  /\ skipped \in [Consumers -> SUBSET Positions]
  /\ passed \in [Consumers -> SUBSET Positions]

\* A line that the tailer can get to: nothing before it in its file is junk.
Readable(r) ==
  /\ r[1] \in DOMAIN seg /\ r[2] \in 1..seg[r[1]].visible
  /\ \A l \in 1..r[2] : seg[r[1]].lines[l] = "rec"

\* Whatever is before a consumer's checkpoint was committed, or refused by its
\* filter, in this run or an earlier one, with three exceptions that are kept
\* apart: lines that the tailer passed over at the end of a file that was done
\* by then, without looking again (unread); lines before the place at which it
\* started a consumer that had no checkpoint, which an earlier run may have
\* handed over (skipped); and records of a batch that its consumer left
\* uncommitted and overtook with a later commit (passed).  Crashes, batches of
\* several files, and consumers that are ahead of each other lose nothing else.
Accounted ==
  \A c \in Consumers : checkpoint[c] # NoCheckpoint =>
    \A r \in UpTo(checkpoint[c]) : Readable(r) => r \in AccountedFor(c)

\* The contract of commit ("If commit is not called the checkpoint remains at
\* its prior position, so the records in this batch will be re-read on the next
\* run"): whatever is before a consumer's checkpoint was committed or refused.
AtLeastOnce ==
  \A c \in Consumers : checkpoint[c] # NoCheckpoint =>
    \A r \in UpTo(checkpoint[c]) : Readable(r) => r \in done[c]

\* A run of the tailer offers a line to a consumer once: a record is repeated
\* only after a restart, although plans are rebuilt and files are set aside.
NoRepeat ==
  Filling /\ ~tailer.eof /\ tailer.line < seg[Cur].visible =>
    \A c \in Offered : <<Cur, tailer.line + 1>> \notin batch[c] \cup handed[c]

\* A readable line reaches every consumer in the end, across crashes of both
\* sides, or is one of the exceptions of Accounted, provided that every segment
\* before its own is marked as done and that no line of the log is junk: at a
\* segment that is never marked (LogWriter after a crash, or an error while
\* marking) the tailer waits for ever.  What is readable and what is accounted
\* for only grow, and the log is bounded, so this is said of all lines at once.
Delivered ==
  <>[](\/ \A c \in Consumers : \A r \in (1..Last) \X (1..MaxLines) :
            Readable(r) /\ (\A f \in 1..(r[1] - 1) : seg[f].state = "done") => r \in AccountedFor(c)
       \/ \E f \in DOMAIN seg : \E l \in DOMAIN seg[f].lines : seg[f].lines[l] = "junk")
=============================================================================
