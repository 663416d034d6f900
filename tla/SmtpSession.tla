---------------------------- MODULE SmtpSession ----------------------------
(***************************************************************************)
(* Reception by SMTP: SmtpServerSession of kumod/src/smtp_server.rs,       *)
(* with QueueManager::insert_or_unwind, up to the point where the queues   *)
(* have taken over the messages.                                           *)
(*                                                                         *)
(* One connection at a time.  A transaction (MAIL, RCPT, DATA) becomes a   *)
(* list of messages, one for each batch of recipients; the model follows   *)
(* the messages of one transaction, until the next MAIL.  What a policy    *)
(* event decides, and whether a deadline passes first, is a choice.  TLS,  *)
(* AUTH and XCLIENT do not touch the transaction and are left out.         *)
(***************************************************************************)
EXTENDS Naturals, Sequences, FiniteSets, SequencesExt

CONSTANTS
  Rcpts,             \* recipients
  Domain,            \* the domain of each
  MaxPerMessage,     \* max_recipients_per_message
  MaxPerConnection,  \* max_messages_per_connection
  MaxLines,          \* bound: commands that one read returns
  MaxTxns,           \* bound: MAIL commands of the client
  MaxBatches,        \* bound: batches that the policy makes
  MaxCrashes         \* bound: crashes

ASSUME SmtpAssumption ==
  /\ IsFiniteSet(Rcpts) /\ DOMAIN Domain = Rcpts
  /\ {MaxPerMessage, MaxPerConnection, MaxLines, MaxTxns, MaxBatches, MaxCrashes} \subseteq Nat

VARIABLES
  shutting,   \* the process is shutting down
  deferred_spool,  \* parameter of the listener
  pc,         \* where the session stands; "none" without a connection
  buffer,     \* read_buffer: complete lines, and whether a partial one follows
  state,      \* the transaction: whether there is one, and its recipients
  rcpt_count,
  msgs,       \* the messages made of the transaction
  i,          \* the message that the current loop of process_data is at
  failed,     \* the messages whose insertion failed
  answer,     \* what the client is told about its data
  blocked,    \* the client does not read, and the write of an answer waits for it
  txns, crashes,
  promised,   \* history: recipients answered 250 since the last MAIL or RSET
  split,      \* history: the policy chose the batches itself
  stray,      \* history: messages that an error left behind in the spool
  left        \* history: those of them that AcceptError left

bounds == <<txns, crashes>>
mail == <<msgs, i, failed, answer, split, stray, left>>
vars == <<shutting, deferred_spool, pc, buffer, state, rcpt_count, mail, bounds, promised, blocked>>

quiet == <<shutting, deferred_spool, bounds, split, blocked>>

NoLines == [lines |-> 0, partial |-> FALSE]
NoTxn == [open |-> FALSE, recipients |-> {}]

Init ==
  /\ shutting = FALSE
  /\ deferred_spool \in BOOLEAN
  /\ pc = "none" /\ buffer = NoLines /\ state = NoTxn /\ rcpt_count = 0
  /\ msgs = <<>> /\ i = 1 /\ failed = {} /\ answer = "none"
  /\ txns = 0 /\ crashes = 0
  /\ promised = {} /\ split = FALSE /\ stray = {} /\ left = {} /\ blocked = FALSE
-----------------------------------------------------------------------------
(* The connection and its commands: process, read_line, read_data.         *)

\* A session starts, unless the process is shutting down or one of the other
\* gates (memory, disk, spool, policy) turns it away.
Connect ==
  /\ pc = "none" /\ ~shutting
  /\ pc' = "command"
  /\ UNCHANGED <<shutting, deferred_spool, buffer, state, rcpt_count, mail, bounds, promised, blocked>>

\* check_shutdown, which is only asked between bursts of commands.
BetweenCommands == pc = "command" /\ buffer = NoLines

\* The socket is read when there is no complete line in the buffer and the
\* answer to the last command has been written.
Reading == pc = "command" /\ ~blocked /\ buffer.lines = 0

\* The session ends, and what it knows is dropped.
Forgets == buffer' = NoLines /\ state' = NoTxn /\ rcpt_count' = 0 /\ promised' = {}
Over == pc' = "none" /\ blocked' = FALSE /\ Forgets
Close == Over /\ UNCHANGED <<shutting, deferred_spool, mail, bounds>>

\* The session writes a last answer, and ends when it is written.
LastAnswer ==
  /\ pc' = "closing" /\ Forgets
  /\ UNCHANGED <<shutting, deferred_spool, mail, bounds, blocked>>
Closed == pc = "closing" /\ ~blocked /\ Close

\* The client does not read and the socket's buffer is full, so the answer that
\* the session has just given is not written; or it reads again.  Only reads
\* have a timeout: the write and the flush of write_response wait.
ClientReads(b) ==
  /\ pc \in {"command", "body", "closing"}
  /\ blocked' = ~b
  /\ UNCHANGED <<shutting, deferred_spool, pc, buffer, state, rcpt_count, mail, bounds, promised>>

Read ==
  /\ Reading /\ ~(BetweenCommands /\ shutting)
  /\ \E n \in 0..MaxLines, p \in BOOLEAN :
       (n > 0 \/ p) /\ buffer' = [lines |-> n, partial |-> p]
  /\ UNCHANGED <<shutting, deferred_spool, pc, state, rcpt_count, mail, bounds, promised, blocked>>

\* 421: shutting down, before or in the select! of read_line or of read_data.
IgnoresWhenBuffered == BetweenCommands /\ ~blocked /\ shutting
ShutdownSeen == shutting /\ (Reading \/ (pc = "body" /\ ~blocked))
ShuttingDown == ShutdownSeen /\ LastAnswer

\* The peer is gone, was idle too long, quits, or a write failed.
Disconnect == pc \in {"command", "body", "closing"} /\ Close

\* One line of the buffer is taken and answered.
Command ==
  /\ pc = "command" /\ ~blocked /\ buffer.lines > 0
  /\ buffer' = [buffer EXCEPT !.lines = @ - 1]

\* NOOP, HELO, EHLO and commands that are refused without further ado: out of
\* order, malformed, rejected by policy or because of max_recipients_per_message.
Other ==
  /\ Command
  /\ UNCHANGED <<shutting, deferred_spool, pc, state, rcpt_count, mail, bounds, promised, blocked>>

\* A 421, or a rejection that asks for it, closes the connection.
Refused421 == pc = "command" /\ ~blocked /\ buffer.lines > 0 /\ LastAnswer

MailFrom ==
  /\ Command /\ ~state.open /\ txns < MaxTxns
  /\ state' = [NoTxn EXCEPT !.open = TRUE]
  /\ txns' = txns + 1
  /\ promised' = {} /\ msgs' = <<>> /\ failed' = {} /\ answer' = "none" /\ split' = FALSE
  /\ stray' = {} /\ left' = {}
  /\ UNCHANGED <<shutting, deferred_spool, pc, rcpt_count, i, crashes, blocked>>

\* A recipient that passes the checks counts, also if the policy refuses it.
HasRoom ==
  Cardinality(state.recipients) # MaxPerMessage /\ rcpt_count # MaxPerConnection

PushesFirst(r, accepted) ==
  /\ Command /\ state.open /\ HasRoom
  /\ r \notin state.recipients
  /\ rcpt_count' = rcpt_count + 1
  /\ state' = [state EXCEPT !.recipients = @ \cup {r}]
  /\ promised' = IF accepted THEN promised \cup {r} ELSE promised
  /\ UNCHANGED <<shutting, deferred_spool, pc, mail, bounds, blocked>>
RcptTo(r, accepted) ==
  /\ Command /\ state.open /\ HasRoom
  /\ r \notin state.recipients
  /\ rcpt_count' = rcpt_count + 1
  /\ \/ /\ accepted
        /\ state' = [state EXCEPT !.recipients = @ \cup {r}]
        /\ promised' = promised \cup {r}
     \/ ~accepted /\ UNCHANGED <<state, promised>>
  /\ UNCHANGED <<shutting, deferred_spool, pc, mail, bounds, blocked>>

Rset ==
  /\ Command
  /\ state' = NoTxn /\ promised' = {}
  /\ UNCHANGED <<shutting, deferred_spool, pc, rcpt_count, mail, bounds, blocked>>

\* DATA with a transaction and a recipient: 354.
Data ==
  /\ Command /\ state.recipients # {}
  /\ pc' = "body" /\ answer' = "none"
  /\ UNCHANGED <<quiet, state, rcpt_count, msgs, i, failed, stray, left, promised>>

\* Too big, or a line too long: the transaction stays open.
BodyRefused ==
  /\ pc = "body" /\ ~blocked
  /\ pc' = "command" /\ answer' = "refused"
  /\ UNCHANGED <<quiet, buffer, state, rcpt_count, msgs, i, failed, stray, left, promised>>
-----------------------------------------------------------------------------
(* process_data.                                                           *)

Files == {"data", "meta"}
Message(rs) == [rcpts |-> rs, kind |-> "new", spooled |-> {}, at |-> "session", log |-> {}]

session == <<buffer, state, rcpt_count, promised>>
Go(l) == pc' = l /\ i' = 1 /\ UNCHANGED <<answer, session>>

\* The answer to the data: with a 421 or an error the connection closes.
Answer(a, closes) ==
  /\ answer' = a /\ i' = 1
  /\ \/ closes /\ pc' = "closing" /\ Forgets
     \/ ~closes /\ pc' = "command" /\ UNCHANGED session

\* The body is complete: the state is taken and becomes the base message.
BodyRead ==
  /\ pc = "body" /\ ~blocked
  /\ pc' = "split" /\ state' = NoTxn
  /\ msgs' = <<Message(state.recipients)>>
  /\ UNCHANGED <<quiet, buffer, rcpt_count, promised, i, failed, answer, stray, left>>

\* The batches that batch_handling makes.
Batches(rs, batch_handling) ==
  IF batch_handling = "BifurcateAlways" THEN {{r} : r \in rs}
  ELSE {{r \in rs : Domain[r] = Domain[q]} : q \in rs}

\* smtp_server_split_txn may choose other batches, or none.
Split(bs, policy) ==
  /\ pc = "split"
  /\ \/ policy /\ Cardinality(bs) <= MaxBatches
     \/ \E h \in {"BifurcateAlways", "BatchByDomain"} : bs = Batches(msgs[1].rcpts, h)
  /\ msgs' = [n \in 1..Cardinality(bs) |-> Message(SetToSeq(bs)[n])]
  /\ split' = policy
  /\ Go("receive")
  /\ UNCHANGED <<shutting, deferred_spool, bounds, blocked, failed, stray, left>>

\* smtp_server_message_received for every message (unless they are put off to
\* the deferred queue), then QueueManager::resolve for the queue of each.
Received ==
  /\ pc \in {"receive", "resolve"}
  /\ Go(IF pc = "receive" THEN "resolve" ELSE "accept")
  /\ UNCHANGED <<quiet, msgs, failed, stray, left>>

\* A rejection of the data or of any message, the deadline or an error ends the
\* transaction while nothing is in the spool.
Rejected(closes) ==
  /\ pc \in {"split", "receive", "resolve"}
  /\ Answer("refused", closes)
  /\ UNCHANGED <<quiet, msgs, failed, stray, left>>

Accepting == pc = "accept" /\ i <= Len(msgs)
Logged(m, kind) == [m EXCEPT !.kind = kind, !.log = @ \cup {"Reception"}]

\* A message that goes to a queue is saved and its reception is logged; one
\* that is not to be relayed (a report, the null queue, or not permitted) is
\* only logged.
SavesDataOnly(kind) ==
  /\ Accepting
  /\ msgs' = [msgs EXCEPT ![i] = [Logged(@, kind) EXCEPT
       !.spooled = IF kind = "relay" /\ ~deferred_spool THEN {"data"} ELSE {}]]
  /\ i' = i + 1
  /\ UNCHANGED <<quiet, session, pc, failed, answer, stray, left>>
Accept(kind) ==
  /\ Accepting
  /\ msgs' = [msgs EXCEPT ![i] = [Logged(@, kind) EXCEPT
       !.spooled = IF kind = "relay" /\ ~deferred_spool THEN Files ELSE {}]]
  /\ i' = i + 1
  /\ UNCHANGED <<quiet, session, pc, failed, answer, stray, left>>

Relayed(ms) == {n \in 1..Len(ms) : ms[n].kind = "relay"}

\* remove_from_spool, whose failures are ignored: those of `stuck` stay.
RemovedSilently(m, stuck) == [m EXCEPT !.spooled = IF stuck THEN @ ELSE {}]
Removed(m, stuck) == [m EXCEPT !.spooled = IF stuck THEN @ ELSE {}, !.log = @ \cup {"Bounce"}]

\* The save fails, for one file or both: the messages before it are removed
\* again, it itself is not.
UnwindsNothing(got, stuck, closes) ==
  /\ Accepting /\ ~deferred_spool
  /\ msgs' = [msgs EXCEPT ![i].spooled = got]
  /\ stray' = stray \cup stuck \cup (IF "meta" \in got THEN {i} ELSE {})
  /\ Answer("refused", closes)
  /\ UNCHANGED <<quiet, failed, left>>
SaveFails(got, stuck, closes) ==
  /\ Accepting /\ ~deferred_spool /\ stuck \subseteq Relayed(msgs)
  /\ msgs' = [n \in 1..Len(msgs) |->
       IF n = i THEN [msgs[n] EXCEPT !.spooled = got]
       ELSE IF n \in Relayed(msgs) THEN Removed(msgs[n], n \in stuck) ELSE msgs[n]]
  /\ stray' = stray \cup stuck \cup (IF "meta" \in got THEN {i} ELSE {})
  /\ Answer("refused", closes)
  /\ UNCHANGED <<quiet, failed, left>>

\* Any other error of this loop (check_relaying, the trace headers): 421, and
\* the messages before it stay in the spool.
AcceptError ==
  /\ Accepting
  /\ stray' = stray \cup Relayed(msgs) /\ left' = Relayed(msgs)
  /\ Answer("refused", TRUE)
  /\ UNCHANGED <<quiet, msgs, failed>>

AcceptedAll ==
  /\ pc = "accept" /\ i > Len(msgs)
  /\ Go("insert")
  /\ UNCHANGED <<quiet, msgs, failed, stray, left>>

Inserting == pc = "insert" /\ i <= Len(msgs)
Inserted(m, f, s) ==
  /\ msgs' = [msgs EXCEPT ![i] = m] /\ failed' = f /\ stray' = s
  /\ i' = i + 1
  /\ UNCHANGED <<quiet, session, pc, answer, left>>

\* A message that is not relayed is not in the list.
InsertNext == Inserting /\ msgs[i].kind # "relay" /\ Inserted(msgs[i], failed, stray)

\* Queue::insert takes the message, or bounces it by an administrator's order.
InsertOk ==
  /\ Inserting /\ msgs[i].kind = "relay"
  /\ \E at \in (IF shutting THEN {"done"} ELSE {"queue", "done"}) :
       Inserted([msgs[i] EXCEPT !.at = at, !.spooled = IF at = "done" THEN {} ELSE @], failed, stray)

\* During a shutdown it only saves the message; an error is logged.
InsertAtShutdown ==
  /\ Inserting /\ msgs[i].kind = "relay" /\ shutting
  /\ \E got \in {msgs[i].spooled, Files} :
       Inserted([msgs[i] EXCEPT !.at = "shutdown", !.spooled = got], failed, stray)

\* The insertion fails (resolve, throttles, policy, the deadline): unwound.
InsertFails(stuck) ==
  /\ Inserting /\ msgs[i].kind = "relay"
  /\ Inserted(Removed(msgs[i], stuck), failed \cup {i}, IF stuck THEN stray \cup {i} ELSE stray)

\* Nothing that could be accepted, or nothing that was.
Denied == \A n \in 1..Len(msgs) : msgs[n].kind = "denied"
AllFailed == failed # {} /\ Cardinality(failed) = Len(msgs)

FinalAnswer ==
  /\ pc = "insert" /\ i > Len(msgs)
  /\ \/ (Denied \/ AllFailed) /\ \E c \in BOOLEAN : Answer("refused", c)
     \/ ~Denied /\ ~AllFailed /\ Answer("ok", FALSE)
  /\ UNCHANGED <<quiet, msgs, failed, stray, left>>

\* The answer does not reach the client: its write fails.
AnswerLost ==
  /\ pc = "insert" /\ i > Len(msgs)
  /\ Answer("lost", TRUE)
  /\ UNCHANGED <<quiet, msgs, failed, stray, left>>

Executes ==
  \/ MailFrom \/ Rset \/ Data \/ Other \/ Refused421
  \/ \E r \in Rcpts, a \in BOOLEAN : RcptTo(r, a)

Process ==
  \/ Received \/ AcceptError \/ AcceptedAll
  \/ \E p \in BOOLEAN : \E bs \in SUBSET ((SUBSET Rcpts) \ {{}}) : Split(bs, p)
  \/ \E kind \in {"relay", "report", "null", "denied"} : Accept(kind)
  \/ \E c \in BOOLEAN :
       \/ Rejected(c)
       \/ \E got \in (SUBSET Files) \ {Files}, stuck \in SUBSET (1..Len(msgs)) : SaveFails(got, stuck, c)
  \/ InsertNext \/ InsertOk \/ InsertAtShutdown \/ \E b \in BOOLEAN : InsertFails(b)
  \/ FinalAnswer \/ AnswerLost
-----------------------------------------------------------------------------
\* A queue is done with a message: delivered, bounced or expired.
Dispose(n) ==
  /\ n \in 1..Len(msgs) /\ msgs[n].at = "queue"
  /\ msgs' = [msgs EXCEPT ![n].at = "done", ![n].spooled = {}]
  /\ UNCHANGED <<quiet, session, pc, i, failed, answer, stray, left>>

Shutdown ==
  /\ ~shutting
  /\ shutting' = TRUE
  /\ UNCHANGED <<deferred_spool, pc, buffer, state, rcpt_count, mail, bounds, promised, blocked>>

\* The process is killed and starts again: what is in the spool is queued.
Crash ==
  /\ crashes < MaxCrashes
  /\ crashes' = crashes + 1
  /\ shutting' = FALSE /\ Over /\ i' = 1
  /\ answer' = IF pc \in {"none", "command", "closing"} THEN answer ELSE "lost"
  /\ msgs' = [n \in 1..Len(msgs) |->
       [msgs[n] EXCEPT !.at = IF "meta" \in msgs[n].spooled THEN "queue" ELSE IF @ = "done" THEN @ ELSE "lost"]]
  /\ UNCHANGED <<deferred_spool, failed, split, stray, left, txns>>

Next ==
  \/ Connect \/ Read \/ ShuttingDown \/ Disconnect \/ Closed
  \/ \E b \in BOOLEAN : ClientReads(b)
  \/ Executes \/ BodyRefused \/ BodyRead \/ Process
  \/ \E n \in 1..Len(msgs) : Dispose(n)
  \/ Shutdown \/ Crash

Spec == Init /\ [][Next]_vars

\* process_data is bounded by its deadline and by the timeouts of what it
\* calls; commands in the buffer are executed once the answer before them is
\* written.  The select! picks at random among its ready branches, so a client
\* that never stops sending does not win against the shutdown every time.
FairSpec ==
  Spec /\ WF_vars(Process) /\ WF_vars(Executes) /\ WF_vars(Closed) /\ SF_vars(ShuttingDown)
-----------------------------------------------------------------------------
\* Every variable has its type; in particular the recipients of a connection
\* stay within max_messages_per_connection.
TypeOK ==
  /\ shutting \in BOOLEAN /\ deferred_spool \in BOOLEAN
  /\ blocked \in BOOLEAN
  /\ pc \in {"none", "command", "closing", "body", "split", "receive", "resolve", "accept", "insert"}
  /\ buffer \in [lines : 0..MaxLines, partial : BOOLEAN]
  /\ state \in [open : BOOLEAN, recipients : SUBSET Rcpts]
  /\ Cardinality(state.recipients) <= MaxPerMessage
  /\ rcpt_count \in 0..MaxPerConnection
  /\ msgs \in Seq([rcpts : SUBSET Rcpts, kind : {"new", "relay", "report", "null", "denied"},
                   spooled : SUBSET Files, at : {"session", "queue", "shutdown", "done", "lost"},
                   log : SUBSET {"Reception", "Bounce"}])
  /\ i \in 1..(Len(msgs) + 1) /\ failed \cup stray \subseteq 1..Len(msgs) /\ left \subseteq stray
  /\ answer \in {"none", "ok", "refused", "lost"}

\* What a 250 stands for.  A message to be relayed is whole in the spool, or a
\* queue is done with it, or its loss is logged as a bounce; with a deferred
\* spool it may be in memory only, and gone after a shutdown or a crash.  Any
\* other message is dropped: a report, mail for the null queue, and also a
\* batch that may not be relayed when it comes beside one that was accepted
\* (550 is only for a transaction in which every batch is denied).
Kept(n) ==
  IF msgs[n].kind = "relay"
  THEN \/ msgs[n].spooled = Files \/ msgs[n].at = "done"
       \/ "Bounce" \in msgs[n].log
       \/ deferred_spool /\ msgs[n].at \in {"queue", "shutdown", "lost"}
  ELSE /\ msgs[n].kind # "new"
       /\ msgs[n].kind = "denied" => \E m \in 1..Len(msgs) : msgs[m].kind # "denied"

\* A client that has its 250 may forget the mail: whatever happens to the other
\* messages of the transaction, in a shutdown that begins in the middle and in
\* a crash, each message has a reception record, and those to be relayed are
\* kept in one of the ways above.  Not kept are the messages that are not to be
\* relayed, denied batches beside accepted ones included.
AckedIsKept ==
  answer = "ok" => \A n \in 1..Len(msgs) : Kept(n) /\ "Reception" \in msgs[n].log

\* Unless the policy chooses the batches, each recipient that was answered 250
\* since the last MAIL or RSET is in exactly one message, and nobody else is:
\* nothing is left over from a transaction that was reset or whose data were
\* refused, nor from a recipient that the policy refused.
EnvelopeExact ==
  pc \in {"receive", "resolve", "accept", "insert"} /\ ~split =>
    /\ UNION {msgs[n].rcpts : n \in 1..Len(msgs)} = promised
    /\ \A n, m \in 1..Len(msgs) : n # m => msgs[n].rcpts \cap msgs[m].rcpts = {}

\* When the client has been refused and will try again, none of the messages is
\* in the spool or in a queue: every error path undoes what was saved before.
\* The exceptions are the strays: a message whose removal failed, one whose own
\* save failed after its metadata was stored, and those that an error of
\* check_relaying or of the trace headers leaves behind.
RefusedIsUnwound ==
  answer = "refused" =>
    \A n \in 1..Len(msgs) \ stray : "meta" \notin msgs[n].spooled /\ msgs[n].at \in {"session", "lost"}

\* The log accounts for the messages to be relayed, in both directions: one
\* that no queue took is logged as bounced, unless AcceptError left it behind;
\* and one that is logged as bounced was never taken by a queue, unless its
\* removal failed and a restart found it.  A message that is not to be relayed
\* has its reception record (which names the disposition) and never a bounce,
\* also when the client is refused.
ReceptionAccounted ==
  answer \in {"ok", "refused"} =>
    \A n \in 1..Len(msgs) :
      /\ n \in Relayed(msgs) \ left /\ msgs[n].at = "session" => "Bounce" \in msgs[n].log
      /\ "Bounce" \in msgs[n].log =>
           /\ n \in Relayed(msgs) /\ "Reception" \in msgs[n].log
           /\ n \in stray \/ msgs[n].at \in {"session", "lost"}

\* A shutdown ends the session, whatever it is at and however much the client
\* sends, provided that the client reads: a session that waits for the write of
\* an answer sees neither the shutdown nor a timeout.
SessionEnds == shutting ~> (pc = "none" \/ ~shutting \/ blocked)
=============================================================================
