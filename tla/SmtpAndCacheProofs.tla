------------------------- MODULE SmtpAndCacheProofs -------------------------
(***************************************************************************)
(* SmtpSession: what a client may rely on after its data were answered, for *)
(* every number of recipients, batches, transactions and crashes.  A 250   *)
(* means that what is to be relayed is kept, a refusal that it is unwound,  *)
(* and the envelopes are those that were promised.  None of this is        *)
(* inductive by itself, because the answer is given at the end of two loops *)
(* over the messages: the inductive invariant IInv says, for each of the   *)
(* loops, what the messages before and after its index look like.          *)
(*                                                                         *)
(* LruTtl: a key of the cache that the server looks its configuration up in *)
(* is populated by one caller at a time, for every number of keys, callers  *)
(* and capacities.                                                         *)
(***************************************************************************)
EXTENDS SmtpSession, LruTtl, FiniteSetTheorems, SequenceTheorems, TLAPS

-----------------------------------------------------------------------------
(* SmtpSession                                                             *)

Processing == {"split", "receive", "resolve", "accept", "insert"}

\* A message as BodyRead or Split makes it.
Fresh(m) == m.kind = "new" /\ m.spooled = {} /\ m.at = "session" /\ m.log = {}

\* A message that Accept has been at: in the spool if it is to be relayed.
Saved(m) ==
  /\ m.kind # "new" /\ m.at = "session" /\ m.log = {"Reception"}
  /\ m.spooled = IF m.kind = "relay" /\ ~deferred_spool THEN Files ELSE {}

\* A message whose insertion failed: bounced in the log, out of the spool.
Unwound(n) ==
  /\ msgs[n].at = "session" /\ "Bounce" \in msgs[n].log
  /\ n \notin stray => msgs[n].spooled = {}

\* A message that a queue took.
Taken(m) ==
  /\ m.at \in {"queue", "done", "shutdown"}
  /\ m.at # "done" /\ ~deferred_spool => m.spooled = Files

\* A message that the loop of insertions is past.
Settled(n) ==
  /\ msgs[n].kind # "new" /\ "Reception" \in msgs[n].log
  /\ n \notin failed => "Bounce" \notin msgs[n].log
  /\ n \in failed => msgs[n].kind = "relay" /\ Unwound(n)
  /\ n \notin failed /\ msgs[n].kind = "relay" => Taken(msgs[n])
  /\ msgs[n].kind # "relay" => msgs[n].at = "session" /\ msgs[n].spooled = {}

\* Where the session stands, what it holds of the transaction and what the
\* client has been told go together.
Phases ==
  /\ pc \notin {"accept", "insert"} => i = 1
  /\ state.recipients # {} => state.open
  /\ pc = "body" => state.open
  /\ pc \in Processing => ~state.open
  /\ state.open => msgs = <<>> /\ promised = state.recipients
  /\ pc \in Processing \cup {"body"} => answer = "none"

\* What each loop of process_data has done so far.
Stages ==
  /\ pc \in {"split", "receive", "resolve", "accept"} => failed = {} /\ stray = {}
  /\ pc \in {"split", "receive", "resolve"} => \A n \in 1..Len(msgs) : Fresh(msgs[n])
  /\ pc = "accept" => \A n \in 1..Len(msgs) : IF n < i THEN Saved(msgs[n]) ELSE Fresh(msgs[n])
  /\ pc = "insert" => \A n \in 1..Len(msgs) :
       IF n < i THEN Settled(n) ELSE Saved(msgs[n]) /\ n \notin failed /\ n \notin stray
  /\ pc = "split" => Len(msgs) = 1 /\ msgs[1].rcpts = promised

\* A message that a queue is done with has left the spool, and so has one that
\* was bounced, unless it is a stray.
OutOfSpool == \A n \in 1..Len(msgs) :
  /\ msgs[n].at = "done" => msgs[n].spooled = {}
  /\ "Bounce" \in msgs[n].log /\ n \notin stray => "meta" \notin msgs[n].spooled

\* The inductive invariant.
IInv ==
  /\ TypeOK /\ Phases /\ Stages /\ OutOfSpool
  /\ AckedIsKept /\ RefusedIsUnwound /\ ReceptionAccounted /\ EnvelopeExact
-----------------------------------------------------------------------------
(* Lemmas on the operators of the model.                                   *)

MsgType == [rcpts : SUBSET Rcpts, kind : {"new", "relay", "report", "null", "denied"},
            spooled : SUBSET Files, at : {"session", "queue", "shutdown", "done", "lost"},
            log : SUBSET {"Reception", "Bounce"}]

\* SetToSeq lists each member of a finite set once.
LEMMA SetToSeqEnumerates ==
  ASSUME NEW S, IsFiniteSet(S)
  PROVE  /\ Cardinality(S) \in Nat
         /\ SetToSeq(S) \in [1..Cardinality(S) -> S]
         /\ \A a, b \in 1..Cardinality(S) : SetToSeq(S)[a] = SetToSeq(S)[b] => a = b
         /\ \A x \in S : \E a \in 1..Cardinality(S) : SetToSeq(S)[a] = x
<1>1. Cardinality(S) \in Nat /\ ExistsBijection(1..Cardinality(S), S)
  BY FS_CardinalityType
<1>2. \E f \in [1..Cardinality(S) -> S] : IsInjective(f)
  BY <1>1 DEF ExistsBijection, Bijection, Injection
<1>3. SetToSeq(S) \in [1..Cardinality(S) -> S] /\ IsInjective(SetToSeq(S))
  BY <1>2 DEF SetToSeq
<1>4. SetToSeq(S) \in Injection(1..Cardinality(S), S)
  BY <1>3 DEF Injection
<1>5. IsFiniteSet(1..Cardinality(S)) /\ Cardinality(1..Cardinality(S)) = Cardinality(S)
  BY <1>1, FS_Interval
<1>6. SetToSeq(S) \in Surjection(1..Cardinality(S), S)
  BY <1>4, <1>5, FS_Injection
<1> QED
  BY <1>1, <1>3, <1>6 DEF IsInjective, Surjection

\* A set of positions of a sequence is finite, and is all of them when it has
\* as many members.
LEMMA AllPositions ==
  ASSUME NEW n \in Nat, NEW S \in SUBSET (1..n), Cardinality(S) = n
  PROVE  S = 1..n
<1>1. IsFiniteSet(1..n) /\ Cardinality(1..n) = n
  BY FS_Interval
<1> QED
  BY <1>1, FS_Subset

\* One more member adds at most one to the cardinality.
LEMMA CardinalityAdd ==
  ASSUME NEW S, NEW x, IsFiniteSet(S)
  PROVE  Cardinality(S) \in Nat /\ Cardinality(S \cup {x}) \in Nat
         /\ Cardinality(S \cup {x}) <= Cardinality(S) + 1
<1>1. Cardinality(S) \in Nat
  BY FS_CardinalityType
<1>2. Cardinality(S \cup {x}) = IF x \in S THEN Cardinality(S) ELSE Cardinality(S) + 1
  BY FS_AddElement
<1> QED
  BY <1>1, <1>2

\* Both ways of making batches put each recipient into exactly one.
LEMMA BatchesPartition ==
  ASSUME NEW rs \in SUBSET Rcpts, NEW h
  PROVE  /\ Batches(rs, h) \subseteq SUBSET Rcpts
         /\ UNION Batches(rs, h) = rs
         /\ \A b, c \in Batches(rs, h) : b # c => b \cap c = {}
BY DEF Batches
-----------------------------------------------------------------------------
(* The commands: nothing of a finished transaction changes.                *)

\* What was promised about the messages stands as long as they, the answer
\* and the list of strays stay the same.
LEMMA MailUnchanged ==
  ASSUME IInv, UNCHANGED <<msgs, answer, stray, left, deferred_spool>>
  PROVE  OutOfSpool' /\ AckedIsKept' /\ RefusedIsUnwound' /\ ReceptionAccounted'
BY DEF IInv, OutOfSpool, AckedIsKept, Kept, RefusedIsUnwound, ReceptionAccounted, Relayed

\* A session that is between transactions, or about to be, has no stage.
LEMMA NoStage ==
  ASSUME pc' \notin Processing
  PROVE  Stages' /\ EnvelopeExact'
BY DEF Processing, Stages, EnvelopeExact

LEMMA ConnectStep == ASSUME IInv, Connect PROVE IInv'
<1>1. TypeOK' /\ Phases'
  BY DEF IInv, Connect, TypeOK, Phases, Processing, mail, bounds
<1>2. Stages' /\ EnvelopeExact'
  BY NoStage DEF Connect, Processing
<1> QED
  BY <1>1, <1>2, MailUnchanged DEF IInv, Connect, mail

LEMMA ReadStep == ASSUME IInv, Read PROVE IInv'
<1>1. TypeOK' /\ Phases'
  BY DEF IInv, Read, Reading, TypeOK, Phases, Processing, mail, bounds
<1>2. Stages' /\ EnvelopeExact'
  BY NoStage DEF Read, Reading, Processing
<1> QED
  BY <1>1, <1>2, MailUnchanged DEF IInv, Read, mail

\* Used for every way a connection ends between transactions.
LEMMA CloseStep == ASSUME IInv, pc \in {"command", "body", "closing"}, Close PROVE IInv'
<1>1. Cardinality({}) = 0
  BY FS_EmptySet
<1>2. TypeOK'
  <2>1. /\ buffer' = NoLines /\ state' = NoTxn /\ rcpt_count' = 0 /\ pc' = "none" /\ blocked' = FALSE
        /\ UNCHANGED <<shutting, deferred_spool, msgs, i, failed, answer, stray, left>>
    BY DEF Close, Over, Forgets, mail
  <2>2. NoLines \in [lines : 0..MaxLines, partial : BOOLEAN] /\ 0 \in 0..MaxPerConnection
    BY SmtpAssumption DEF NoLines
  <2>3. NoTxn \in [open : BOOLEAN, recipients : SUBSET Rcpts] /\ Cardinality(NoTxn.recipients) <= MaxPerMessage
    BY <1>1, SmtpAssumption DEF NoTxn
  <2> QED
    BY <2>1, <2>2, <2>3 DEF IInv, TypeOK
<1>3. Phases'
  BY DEF IInv, Close, Over, Forgets, Phases, Processing, NoTxn, mail
<1>4. Stages' /\ EnvelopeExact'
  BY NoStage DEF Close, Over, Processing
<1> QED
  BY <1>2, <1>3, <1>4, MailUnchanged DEF IInv, Close, mail

\* Used for every last answer between transactions.
LEMMA LastAnswerStep == ASSUME IInv, pc \in {"command", "body"}, LastAnswer PROVE IInv'
<1>1. Cardinality({}) = 0
  BY FS_EmptySet
<1>2. TypeOK'
  BY <1>1, SmtpAssumption DEF IInv, LastAnswer, Forgets, TypeOK, NoTxn, NoLines, mail
<1>3. Phases'
  BY DEF IInv, LastAnswer, Forgets, Phases, Processing, NoTxn, mail
<1>4. Stages' /\ EnvelopeExact'
  BY NoStage DEF LastAnswer, Processing
<1> QED
  BY <1>2, <1>3, <1>4, MailUnchanged DEF IInv, LastAnswer, mail

LEMMA ClientReadsStep == ASSUME IInv, NEW b \in BOOLEAN, ClientReads(b) PROVE IInv'
<1>1. TypeOK' /\ Phases'
  BY DEF IInv, ClientReads, TypeOK, Phases, Processing, mail, bounds
<1>2. Stages' /\ EnvelopeExact'
  BY NoStage DEF ClientReads, Processing
<1> QED
  BY <1>1, <1>2, MailUnchanged DEF IInv, ClientReads, mail

\* A command takes one line of the buffer.
LEMMA CommandBuffer ==
  ASSUME TypeOK, Command
  PROVE  buffer' \in [lines : 0..MaxLines, partial : BOOLEAN]
<1>1. MaxLines \in Nat
  BY SmtpAssumption
<1>2. buffer.lines \in 0..MaxLines /\ buffer.partial \in BOOLEAN /\ buffer.lines > 0
  BY DEF TypeOK, Command
<1>3. buffer.lines - 1 \in 0..MaxLines
  BY <1>1, <1>2
<1> QED
  BY <1>3 DEF TypeOK, Command

LEMMA OtherStep == ASSUME IInv, Other PROVE IInv'
<1>1. TypeOK' /\ Phases'
  BY CommandBuffer DEF IInv, Other, Command, TypeOK, Phases, Processing, mail, bounds
<1>2. Stages' /\ EnvelopeExact'
  BY NoStage DEF Other, Command, Processing
<1> QED
  BY <1>1, <1>2, MailUnchanged DEF IInv, Other, mail

LEMMA MailFromStep == ASSUME IInv, MailFrom PROVE IInv'
<1>1. Cardinality({}) = 0
  BY FS_EmptySet
<1>2. state' = [open |-> TRUE, recipients |-> {}] /\ MaxPerMessage \in Nat
  BY SmtpAssumption DEF MailFrom, NoTxn
<1>3. i' = 1 /\ msgs' = <<>> /\ failed' \cup stray' = {} /\ left' = {}
  BY DEF IInv, MailFrom, Command, Phases
<1>4. /\ msgs' \in Seq(MsgType)
      /\ i' \in 1..(Len(msgs') + 1) /\ failed' \cup stray' \subseteq 1..Len(msgs') /\ left' \subseteq stray'
  BY <1>3
<1>5. buffer' \in [lines : 0..MaxLines, partial : BOOLEAN]
  BY CommandBuffer DEF IInv, MailFrom
<1>6. state' \in [open : BOOLEAN, recipients : SUBSET Rcpts] /\ Cardinality(state'.recipients) <= MaxPerMessage
  BY <1>1, <1>2
<1>7. answer' = "none" /\ UNCHANGED <<shutting, deferred_spool, pc, rcpt_count, blocked>>
  BY DEF MailFrom
<1>8. TypeOK'
  BY <1>4, <1>5, <1>6, <1>7 DEF IInv, TypeOK, MsgType
<1>9. Phases'
  BY DEF IInv, MailFrom, Command, Phases, Processing, NoTxn
<1>10. Stages' /\ EnvelopeExact'
  BY NoStage DEF MailFrom, Command, Processing
<1>11. OutOfSpool' /\ AckedIsKept' /\ RefusedIsUnwound' /\ ReceptionAccounted'
  BY DEF MailFrom, OutOfSpool, AckedIsKept, RefusedIsUnwound, ReceptionAccounted
<1> QED
  BY <1>8, <1>9, <1>10, <1>11 DEF IInv

\* The limits are tests for equality: they hold because the counts grow by one.
LEMMA RcptToStep ==
  ASSUME IInv, NEW r \in Rcpts, NEW a \in BOOLEAN, RcptTo(r, a) PROVE IInv'
<1>1. IsFiniteSet(Rcpts) /\ MaxPerMessage \in Nat /\ MaxPerConnection \in Nat
  BY SmtpAssumption
<1>2. IsFiniteSet(state.recipients)
  BY <1>1, FS_Subset DEF IInv, TypeOK
<1>3. /\ Cardinality(state.recipients) \in Nat /\ Cardinality(state.recipients \cup {r}) \in Nat
      /\ Cardinality(state.recipients \cup {r}) <= Cardinality(state.recipients) + 1
  BY <1>2, CardinalityAdd
<1>4. /\ state' \in [open : BOOLEAN, recipients : SUBSET Rcpts]
      /\ Cardinality(state'.recipients) <= MaxPerMessage
  <2>1. CASE UNCHANGED state
    BY <2>1 DEF IInv, TypeOK
  <2>2. CASE state' = [state EXCEPT !.recipients = @ \cup {r}]
    <3>1. state'.recipients = state.recipients \cup {r}
      BY <2>2 DEF IInv, TypeOK
    <3>2. Cardinality(state'.recipients) <= MaxPerMessage
      BY <1>1, <1>3, <3>1 DEF IInv, TypeOK, RcptTo, HasRoom
    <3> QED
      BY <2>2, <3>2 DEF IInv, TypeOK
  <2> QED
    BY <2>1, <2>2 DEF RcptTo
<1>5. rcpt_count' \in 0..MaxPerConnection
  BY <1>1 DEF IInv, TypeOK, RcptTo, HasRoom
<1>6. TypeOK'
  BY <1>4, <1>5, CommandBuffer DEF IInv, RcptTo, TypeOK, mail, Command
<1>7. Phases'
  BY DEF IInv, RcptTo, Command, TypeOK, Phases, Processing, mail
<1>8. Stages' /\ EnvelopeExact'
  BY NoStage DEF RcptTo, Command, Processing
<1> QED
  BY <1>6, <1>7, <1>8, MailUnchanged DEF IInv, RcptTo, mail

LEMMA RsetStep == ASSUME IInv, Rset PROVE IInv'
<1>1. Cardinality({}) = 0
  BY FS_EmptySet
<1>2. TypeOK' /\ Phases'
  BY <1>1, SmtpAssumption, CommandBuffer DEF IInv, Rset, Command, TypeOK, Phases, Processing, NoTxn, mail
<1>3. Stages' /\ EnvelopeExact'
  BY NoStage DEF Rset, Command, Processing
<1> QED
  BY <1>2, <1>3, MailUnchanged DEF IInv, Rset, mail

LEMMA DataStep == ASSUME IInv, Data PROVE IInv'
<1>1. TypeOK' /\ Phases'
  BY CommandBuffer DEF IInv, Data, Command, TypeOK, Phases, Processing, quiet
<1>2. Stages' /\ EnvelopeExact'
  BY NoStage DEF Data, Processing
<1>3. OutOfSpool' /\ AckedIsKept' /\ RefusedIsUnwound' /\ ReceptionAccounted'
  BY DEF IInv, Data, OutOfSpool, AckedIsKept, RefusedIsUnwound, ReceptionAccounted
<1> QED
  BY <1>1, <1>2, <1>3 DEF IInv

\* The data are refused while there is no message yet.
LEMMA BodyRefusedStep == ASSUME IInv, BodyRefused PROVE IInv'
<1>1. TypeOK' /\ Phases'
  BY DEF IInv, BodyRefused, TypeOK, Phases, Processing, quiet
<1>2. Stages' /\ EnvelopeExact'
  BY NoStage DEF BodyRefused, Processing
<1>3. msgs' = <<>> /\ answer' = "refused"
  BY DEF IInv, Phases, BodyRefused
<1>4. OutOfSpool' /\ AckedIsKept' /\ RefusedIsUnwound' /\ ReceptionAccounted'
  BY <1>3 DEF OutOfSpool, AckedIsKept, RefusedIsUnwound, ReceptionAccounted, Relayed
<1> QED
  BY <1>1, <1>2, <1>4 DEF IInv

LEMMA ShutdownStep == ASSUME IInv, Shutdown PROVE IInv'
<1>1. TypeOK' /\ Phases'
  BY DEF IInv, Shutdown, TypeOK, Phases, Processing, mail, bounds
<1>2. Stages' /\ EnvelopeExact'
  BY DEF IInv, Shutdown, Stages, EnvelopeExact, Fresh, Saved, Settled, Unwound, Taken, mail
<1> QED
  BY <1>1, <1>2, MailUnchanged DEF IInv, Shutdown, mail
-----------------------------------------------------------------------------
(* The loops of process_data.  While they run the client has no answer.    *)

\* What the messages of the next state have to be for TypeOK.
MailTyped ==
  /\ msgs \in Seq(MsgType)
  /\ failed \cup stray \subseteq 1..Len(msgs) /\ left \subseteq stray

\* The envelopes of the messages stay as they are.
SameEnvelopes ==
  /\ Len(msgs') = Len(msgs)
  /\ \A n \in 1..Len(msgs) : msgs'[n].rcpts = msgs[n].rcpts

LEMMA TypeOKMail == TypeOK => MailTyped
BY DEF TypeOK, MailTyped, MsgType

\* While there is no answer, nothing has been promised.
LEMMA NoAnswerYet ==
  ASSUME IInv, pc \in Processing, UNCHANGED answer
  PROVE  AckedIsKept' /\ RefusedIsUnwound' /\ ReceptionAccounted'
BY DEF IInv, Phases, Processing, AckedIsKept, RefusedIsUnwound, ReceptionAccounted

LEMMA EnvelopesKept ==
  ASSUME IInv, SameEnvelopes, UNCHANGED <<promised, split>>,
         pc \in {"receive", "resolve", "accept", "insert"}
  PROVE  EnvelopeExact'
<1>1. ~split => /\ UNION {msgs[n].rcpts : n \in 1..Len(msgs)} = promised
                /\ \A n, m \in 1..Len(msgs) : n # m => msgs[n].rcpts \cap msgs[m].rcpts = {}
  BY DEF IInv, EnvelopeExact
<1>2. {msgs[n].rcpts : n \in 1..Len(msgs)}' = {msgs[n].rcpts : n \in 1..Len(msgs)}
  BY DEF SameEnvelopes
<1>3. ~split => \A n, m \in 1..Len(msgs') : n # m => msgs'[n].rcpts \cap msgs'[m].rcpts = {}
  BY <1>1 DEF SameEnvelopes
<1> QED
  BY <1>1, <1>2, <1>3 DEF EnvelopeExact

\* From one loop to the next.
LEMMA GoStep ==
  ASSUME IInv, pc \in Processing, NEW l \in Processing, Go(l),
         UNCHANGED <<shutting, deferred_spool, blocked>>, MailTyped'
  PROVE  TypeOK' /\ Phases'
<1>1. TypeOK'
  BY DEF IInv, Go, TypeOK, Processing, MailTyped, MsgType, session
<1>2. Phases'
  BY DEF IInv, Go, Phases, Processing, session
<1> QED
  BY <1>1, <1>2

\* One round of a loop.
LEMMA LoopStep ==
  ASSUME IInv, pc \in {"accept", "insert"}, i <= Len(msgs), i' = i + 1,
         UNCHANGED <<quiet, session, pc, answer>>, MailTyped', SameEnvelopes
  PROVE  TypeOK' /\ Phases' /\ EnvelopeExact'
<1>1. i' \in 1..(Len(msgs') + 1)
  BY DEF IInv, TypeOK, SameEnvelopes
<1>2. TypeOK'
  BY <1>1 DEF IInv, TypeOK, Processing, MailTyped, MsgType, session, quiet
<1>3. Phases'
  BY DEF IInv, Phases, Processing, session, quiet
<1>4. EnvelopeExact'
  BY EnvelopesKept DEF session, quiet
<1> QED
  BY <1>2, <1>3, <1>4

\* The end of a transaction.
LEMMA AnswerStep ==
  ASSUME IInv, pc \in Processing, NEW a \in {"ok", "refused", "lost"}, NEW c \in BOOLEAN,
         Answer(a, c), UNCHANGED <<shutting, deferred_spool, blocked>>, MailTyped'
  PROVE  TypeOK' /\ Phases' /\ Stages' /\ EnvelopeExact'
<1>1. /\ pc' \in {"closing", "command"} /\ i' = 1 /\ answer' = a
      /\ (state' = NoTxn /\ buffer' = NoLines /\ rcpt_count' = 0) \/ UNCHANGED <<state, buffer, rcpt_count>>
  BY DEF Answer, Forgets, session
<1>2. Cardinality({}) = 0 /\ MaxPerMessage \in Nat /\ MaxPerConnection \in Nat /\ MaxLines \in Nat
  BY FS_EmptySet, SmtpAssumption
<1>3. /\ state' \in [open : BOOLEAN, recipients : SUBSET Rcpts] /\ ~state'.open
      /\ Cardinality(state'.recipients) <= MaxPerMessage
      /\ state'.recipients = {}
  BY <1>1, <1>2 DEF IInv, TypeOK, Phases, NoTxn
<1>4. buffer' \in [lines : 0..MaxLines, partial : BOOLEAN] /\ rcpt_count' \in 0..MaxPerConnection
  <2>1. CASE UNCHANGED <<state, buffer, rcpt_count>>
    BY <2>1 DEF IInv, TypeOK
  <2>2. CASE buffer' = NoLines /\ rcpt_count' = 0
    BY <1>2, <2>2 DEF NoLines
  <2> QED
    BY <1>1, <2>1, <2>2
<1>5. i' \in 1..(Len(msgs') + 1)
  BY <1>1 DEF MailTyped
<1>6. TypeOK'
  BY <1>1, <1>3, <1>4, <1>5 DEF IInv, TypeOK, MailTyped, MsgType
<1>7. Phases'
  BY <1>1, <1>3 DEF Phases, Processing
<1> QED
  BY <1>1, <1>6, <1>7, NoStage DEF Processing

LEMMA BodyReadStep == ASSUME IInv, BodyRead PROVE IInv'
<1>1. /\ state.open /\ promised = state.recipients /\ msgs = <<>> /\ i = 1 /\ answer = "none"
      /\ failed = {} /\ stray = {} /\ left = {}
  BY DEF IInv, BodyRead, Phases, Processing, TypeOK
<1>2. msgs' = <<Message(promised)>> /\ Message(promised) \in MsgType
  BY <1>1 DEF IInv, TypeOK, BodyRead, Message, MsgType, Files
<1>3. Len(msgs') = 1 /\ msgs' \in Seq(MsgType) /\ msgs'[1] = Message(promised) /\ 1..Len(msgs') = {1}
  BY <1>2
<1>4. Cardinality({}) = 0 /\ MaxPerMessage \in Nat
  BY FS_EmptySet, SmtpAssumption
<1>5. state' = [open |-> FALSE, recipients |-> {}]
  BY DEF BodyRead, NoTxn
<1>6. i' \in 1..(Len(msgs') + 1) /\ failed' \cup stray' \subseteq 1..Len(msgs') /\ left' \subseteq stray'
  BY <1>1, <1>3 DEF BodyRead
<1>7. TypeOK'
  BY <1>3, <1>4, <1>5, <1>6 DEF IInv, TypeOK, BodyRead, MsgType, quiet
<1>8. Phases'
  BY <1>1, <1>5 DEF Phases, BodyRead, Processing
<1>9. Stages'
  BY <1>1, <1>3 DEF BodyRead, Stages, Fresh, Message
<1>10. OutOfSpool' /\ AckedIsKept' /\ RefusedIsUnwound' /\ ReceptionAccounted' /\ EnvelopeExact'
  BY <1>1, <1>3 DEF BodyRead, OutOfSpool, AckedIsKept, RefusedIsUnwound, ReceptionAccounted,
                    EnvelopeExact, Message
<1> QED
  BY <1>7, <1>8, <1>9, <1>10 DEF IInv

LEMMA SplitStep ==
  ASSUME IInv, NEW p \in BOOLEAN, NEW bs \in SUBSET ((SUBSET Rcpts) \ {{}}), Split(bs, p)
  PROVE  IInv'
<1>1. IsFiniteSet(bs)
  <2>1. IsFiniteSet(SUBSET Rcpts)
    BY SmtpAssumption, FS_SUBSET
  <2> QED
    BY <2>1, FS_Subset
<1> DEFINE k == Cardinality(bs)
<1>2. /\ k \in Nat /\ SetToSeq(bs) \in [1..k -> bs]
      /\ \A a, b \in 1..k : SetToSeq(bs)[a] = SetToSeq(bs)[b] => a = b
      /\ \A x \in bs : \E a \in 1..k : SetToSeq(bs)[a] = x
  BY <1>1, SetToSeqEnumerates
<1>3. msgs' = [n \in 1..k |-> Message(SetToSeq(bs)[n])]
  BY DEF Split
<1> HIDE DEF k
<1>4. \A n \in 1..k : Message(SetToSeq(bs)[n]) \in MsgType
  BY <1>2 DEF Message, MsgType, Files
<1>5. /\ msgs' \in Seq(MsgType) /\ Len(msgs') = k
      /\ \A n \in 1..k : msgs'[n] = Message(SetToSeq(bs)[n])
  BY <1>2, <1>3, <1>4
<1>6. /\ pc = "split" /\ Go("receive") /\ failed = {} /\ stray = {} /\ left = {}
      /\ UNCHANGED <<failed, stray, left>>
  BY DEF Split, IInv, Stages, TypeOK
<1>7. MailTyped'
  BY <1>5, <1>6 DEF MailTyped
<1>8. TypeOK' /\ Phases'
  BY <1>6, <1>7, GoStep DEF Processing, Split
<1>9. Stages'
  BY <1>5, <1>6 DEF Stages, Go, Fresh, Message
<1>10. OutOfSpool'
  BY <1>5 DEF OutOfSpool, Message
<1>11. AckedIsKept' /\ RefusedIsUnwound' /\ ReceptionAccounted'
  BY <1>6, NoAnswerYet DEF Processing, Go
<1>12. EnvelopeExact'
  <2> SUFFICES ASSUME ~split'
               PROVE  /\ UNION {msgs'[n].rcpts : n \in 1..Len(msgs')} = promised'
                      /\ \A n, m \in 1..Len(msgs') : n # m => msgs'[n].rcpts \cap msgs'[m].rcpts = {}
    BY DEF EnvelopeExact
  <2>1. PICK h \in {"BifurcateAlways", "BatchByDomain"} : bs = Batches(msgs[1].rcpts, h)
    BY DEF Split
  <2>2. promised' = promised /\ msgs[1].rcpts = promised /\ Len(msgs) = 1
    BY <1>6 DEF Go, session, IInv, Stages
  <2>3. msgs[1] \in MsgType
    BY <2>2, TypeOKMail DEF IInv, MailTyped
  <2>4. promised' = promised /\ msgs[1].rcpts = promised /\ promised \in SUBSET Rcpts
    BY <2>2, <2>3 DEF MsgType
  <2>5. UNION bs = promised /\ \A b, c \in bs : b # c => b \cap c = {}
    BY <2>1, <2>4, BatchesPartition
  <2>6. \A n \in 1..k : msgs'[n].rcpts = SetToSeq(bs)[n] /\ msgs'[n].rcpts \in bs
    BY <1>2, <1>5 DEF Message
  <2>7. {msgs'[n].rcpts : n \in 1..Len(msgs')} = bs
    BY <1>2, <1>5, <2>6
  <2>8. \A n, m \in 1..k : n # m => msgs'[n].rcpts # msgs'[m].rcpts
    BY <1>2, <2>6
  <2> QED
    BY <1>5, <2>4, <2>5, <2>6, <2>7, <2>8
<1> QED
  BY <1>8, <1>9, <1>10, <1>11, <1>12 DEF IInv

LEMMA ReceivedStep == ASSUME IInv, Received PROVE IInv'
<1>1. MailTyped' /\ SameEnvelopes /\ UNCHANGED <<promised, split, answer>>
  BY TypeOKMail DEF IInv, Received, MailTyped, SameEnvelopes, quiet, Go, session
<1>2. \E l \in {"resolve", "accept"} : Go(l)
  BY DEF Received
<1>3. TypeOK' /\ Phases'
  BY <1>1, <1>2, GoStep DEF Received, Processing, quiet
<1>4. Stages'
  BY <1>2 DEF IInv, TypeOK, Received, Stages, Go, Fresh
<1>5. EnvelopeExact'
  BY <1>1, EnvelopesKept DEF Received
<1>6. OutOfSpool'
  BY DEF IInv, OutOfSpool, Received
<1> QED
  BY <1>1, <1>3, <1>4, <1>5, <1>6, NoAnswerYet DEF IInv, Received, Processing

LEMMA RejectedStep == ASSUME IInv, NEW c \in BOOLEAN, Rejected(c) PROVE IInv'
<1>1. MailTyped' /\ pc \in Processing /\ UNCHANGED <<shutting, deferred_spool, blocked, msgs, stray>>
  BY TypeOKMail DEF IInv, Rejected, MailTyped, quiet, Processing
<1>2. TypeOK' /\ Phases' /\ Stages' /\ EnvelopeExact'
  BY <1>1, AnswerStep DEF Rejected
<1>3. answer' = "refused" /\ \A n \in 1..Len(msgs) : Fresh(msgs[n])
  BY DEF Rejected, Answer, IInv, Stages
<1>4. OutOfSpool' /\ AckedIsKept' /\ RefusedIsUnwound' /\ ReceptionAccounted'
  BY <1>1, <1>3 DEF OutOfSpool, AckedIsKept, RefusedIsUnwound, ReceptionAccounted, Relayed, Fresh
<1> QED
  BY <1>2, <1>4 DEF IInv
-----------------------------------------------------------------------------
(* The loop of saves.                                                      *)

LEMMA AcceptStep ==
  ASSUME IInv, NEW kind \in {"relay", "report", "null", "denied"}, Accept(kind) PROVE IInv'
<1>1. /\ msgs \in Seq(MsgType) /\ failed = {} /\ stray = {} /\ UNCHANGED <<failed, stray, left, deferred_spool, pc>>
      /\ left = {} /\ pc = "accept" /\ i \in 1..Len(msgs) /\ i' = i + 1
      /\ \A n \in 1..Len(msgs) : IF n < i THEN Saved(msgs[n]) ELSE Fresh(msgs[n])
  BY DEF IInv, TypeOK, MsgType, Stages, Accept, Accepting, quiet
<1> DEFINE new == [Logged(msgs[i], kind) EXCEPT
                     !.spooled = IF kind = "relay" /\ ~deferred_spool THEN Files ELSE {}]
<1>2. msgs[i] \in MsgType /\ msgs[i].log = {}
  BY <1>1 DEF Fresh
<1>3. new \in MsgType /\ new.kind = kind /\ new.at = msgs[i].at /\ new.rcpts = msgs[i].rcpts
      /\ new.log = {"Reception"}
      /\ new.spooled = IF kind = "relay" /\ ~deferred_spool THEN Files ELSE {}
  BY <1>2 DEF Logged, MsgType
<1>4. msgs' = [msgs EXCEPT ![i] = new]
  BY DEF Accept
<1> HIDE DEF new
<1>5. /\ msgs' \in Seq(MsgType) /\ Len(msgs') = Len(msgs) /\ msgs'[i] = new
      /\ \A n \in 1..Len(msgs) : n # i => msgs'[n] = msgs[n]
  BY <1>1, <1>3, <1>4
<1>6. MailTyped' /\ SameEnvelopes
  BY <1>1, <1>3, <1>5 DEF MailTyped, SameEnvelopes
<1>7. TypeOK' /\ Phases' /\ EnvelopeExact'
  BY <1>1, <1>6, LoopStep DEF Accept
<1>8. \A n \in 1..Len(msgs') : IF n < i' THEN Saved(msgs[n])' ELSE Fresh(msgs[n])'
  <2> SUFFICES ASSUME NEW n \in 1..Len(msgs') PROVE IF n < i' THEN Saved(msgs[n])' ELSE Fresh(msgs[n])'
    OBVIOUS
  <2>1. CASE n = i
    BY <1>1, <1>3, <1>5, <2>1 DEF Saved, Fresh
  <2>2. CASE n # i
    BY <1>1, <1>5, <2>2 DEF Saved, Fresh
  <2> QED
    BY <2>1, <2>2
<1>9. Stages'
  BY <1>1, <1>8 DEF Stages
<1>10. OutOfSpool'
  BY <1>1, <1>8 DEF OutOfSpool, Saved, Fresh
<1> QED
  BY <1>1, <1>7, <1>9, <1>10, NoAnswerYet DEF IInv, Accept, Processing

\* A failed save unwinds the messages before it: each of them is logged as
\* bounced and is out of the spool, or is a stray.
LEMMA SaveFailsStep ==
  ASSUME IInv, NEW c \in BOOLEAN, NEW got \in (SUBSET Files) \ {Files},
         NEW stuck \in SUBSET (1..Len(msgs)), SaveFails(got, stuck, c)
  PROVE  IInv'
<1>1. /\ msgs \in Seq(MsgType) /\ failed = {} /\ stray = {} /\ left = {}
      /\ UNCHANGED <<failed, left, deferred_spool, shutting, blocked>> /\ pc = "accept" /\ i \in 1..Len(msgs)
      /\ \A n \in 1..Len(msgs) : IF n < i THEN Saved(msgs[n]) ELSE Fresh(msgs[n])
      /\ stray' = stuck \cup (IF "meta" \in got THEN {i} ELSE {})
      /\ Answer("refused", c)
  BY DEF IInv, TypeOK, MsgType, Stages, SaveFails, Accepting, quiet
<1> DEFINE new(n) == IF n = i THEN [msgs[n] EXCEPT !.spooled = got]
                     ELSE IF n \in Relayed(msgs) THEN Removed(msgs[n], n \in stuck) ELSE msgs[n]
<1>2. msgs' = [n \in 1..Len(msgs) |-> new(n)]
  BY DEF SaveFails
<1>3. \A n \in 1..Len(msgs) : msgs[n] \in MsgType
  BY <1>1
<1>4. \A n \in 1..Len(msgs) : new(n) \in MsgType
  BY <1>3 DEF MsgType, Removed
<1>5. \A n \in 1..Len(msgs) : new(n).kind = msgs[n].kind /\ new(n).at = msgs[n].at
  BY <1>3 DEF MsgType, Removed
<1>6. \A n \in 1..Len(msgs) \ stray' :
        /\ "meta" \notin new(n).spooled
        /\ msgs[n].kind = "relay" => "Bounce" \in new(n).log
  <2> SUFFICES ASSUME NEW n \in 1..Len(msgs) \ stray'
               PROVE  /\ "meta" \notin new(n).spooled
                      /\ msgs[n].kind = "relay" => "Bounce" \in new(n).log
    OBVIOUS
  <2>1. msgs[n] \in MsgType
    BY <1>3
  <2>2. CASE n = i
    BY <1>1, <2>1, <2>2 DEF Fresh, MsgType
  <2>3. CASE n # i /\ n \in Relayed(msgs)
    BY <1>1, <2>1, <2>3 DEF Removed, MsgType
  <2>4. CASE n # i /\ n \notin Relayed(msgs)
    BY <1>1, <2>1, <2>4 DEF Relayed, Saved, Fresh
  <2> QED
    BY <2>2, <2>3, <2>4
<1>61. \A n \in 1..Len(msgs) :
         /\ msgs[n].kind = "relay" => n # i /\ "Bounce" \in new(n).log /\ "Reception" \in new(n).log
         /\ "Bounce" \in new(n).log => msgs[n].kind = "relay"
  <2> SUFFICES ASSUME NEW n \in 1..Len(msgs)
               PROVE  /\ msgs[n].kind = "relay" =>
                           n # i /\ "Bounce" \in new(n).log /\ "Reception" \in new(n).log
                      /\ "Bounce" \in new(n).log => msgs[n].kind = "relay"
    OBVIOUS
  <2>1. msgs[n] \in MsgType
    BY <1>3
  <2>2. CASE n = i
    BY <1>1, <2>1, <2>2 DEF Fresh, MsgType
  <2>3. CASE n # i /\ n \in Relayed(msgs)
    BY <1>1, <2>1, <2>3 DEF Removed, MsgType, Relayed, Saved, Fresh
  <2>4. CASE n # i /\ n \notin Relayed(msgs)
    BY <1>1, <2>1, <2>4 DEF Relayed, Saved, Fresh
  <2> QED
    BY <2>2, <2>3, <2>4
<1> HIDE DEF new
<1>7. msgs' \in Seq(MsgType) /\ Len(msgs') = Len(msgs) /\ \A n \in 1..Len(msgs) : msgs'[n] = new(n)
  BY <1>1, <1>2, <1>4
<1>8. MailTyped'
  BY <1>1, <1>7 DEF MailTyped
<1>9. TypeOK' /\ Phases' /\ Stages' /\ EnvelopeExact'
  BY <1>1, <1>8, AnswerStep DEF Processing
<1>10. answer' = "refused" /\ \A n \in 1..Len(msgs) : msgs[n].at = "session"
  BY <1>1 DEF Answer, Saved, Fresh
<1>11. OutOfSpool' /\ AckedIsKept' /\ RefusedIsUnwound' /\ ReceptionAccounted'
  BY <1>5, <1>6, <1>61, <1>7, <1>10
  DEF OutOfSpool, AckedIsKept, RefusedIsUnwound, ReceptionAccounted, Relayed
<1> QED
  BY <1>9, <1>11 DEF IInv

LEMMA AcceptErrorStep == ASSUME IInv, AcceptError PROVE IInv'
<1>1. /\ msgs \in Seq(MsgType) /\ failed = {} /\ stray = {}
      /\ UNCHANGED <<msgs, failed, deferred_spool, shutting, blocked>> /\ pc = "accept"
      /\ \A n \in 1..Len(msgs) : IF n < i THEN Saved(msgs[n]) ELSE Fresh(msgs[n])
      /\ stray' = Relayed(msgs) /\ left' = Relayed(msgs) /\ Answer("refused", TRUE)
  BY DEF IInv, TypeOK, MsgType, Stages, AcceptError, Accepting, quiet
<1>2. MailTyped'
  BY <1>1 DEF MailTyped, Relayed
<1>3. TypeOK' /\ Phases' /\ Stages' /\ EnvelopeExact'
  BY <1>1, <1>2, AnswerStep DEF Processing
<1>4. answer' = "refused" /\ \A n \in 1..Len(msgs) : msgs[n].at = "session"
  BY <1>1 DEF Answer, Saved, Fresh
<1>5. /\ \A n \in 1..Len(msgs) \ stray' : "meta" \notin msgs[n].spooled
      /\ \A n \in 1..Len(msgs) : "Bounce" \notin msgs[n].log
  BY <1>1 DEF Relayed, Saved, Fresh
<1>6. OutOfSpool' /\ AckedIsKept' /\ RefusedIsUnwound' /\ ReceptionAccounted'
  BY <1>1, <1>4, <1>5 DEF OutOfSpool, AckedIsKept, RefusedIsUnwound, ReceptionAccounted, Relayed
<1> QED
  BY <1>3, <1>6 DEF IInv

LEMMA AcceptedAllStep == ASSUME IInv, AcceptedAll PROVE IInv'
<1>1. /\ MailTyped' /\ SameEnvelopes /\ Go("insert")
      /\ UNCHANGED <<promised, split, answer, msgs, failed, stray, left, deferred_spool, shutting, blocked>>
      /\ pc = "accept"
  BY TypeOKMail DEF IInv, AcceptedAll, MailTyped, SameEnvelopes, quiet, Go, session
<1>2. TypeOK' /\ Phases'
  BY <1>1, GoStep DEF Processing
<1>3. \A n \in 1..Len(msgs) : Saved(msgs[n]) /\ n \notin failed /\ n \notin stray
  BY DEF IInv, TypeOK, AcceptedAll, Stages
<1>4. pc' = "insert" /\ i' = 1
  BY <1>1 DEF Go
<1>5. Stages'
  BY <1>1, <1>3, <1>4 DEF Stages, Saved
<1>6. EnvelopeExact' /\ OutOfSpool'
  BY <1>1, EnvelopesKept DEF IInv, OutOfSpool
<1> QED
  BY <1>1, <1>2, <1>5, <1>6, NoAnswerYet DEF IInv, Processing
-----------------------------------------------------------------------------
(* The loop of insertions and the answer.                                  *)

\* One round of the loop: the message at i becomes m, which is settled.
LEMMA InsertedStep ==
  ASSUME IInv, Inserting, NEW m, NEW f, NEW s, Inserted(m, f, s), m \in MsgType,
         m.rcpts = msgs[i].rcpts,
         f \in {failed, failed \cup {i}}, s \in {stray, stray \cup {i}},
         m.kind # "new", "Reception" \in m.log, i \notin f => "Bounce" \notin m.log,
         i \in f => /\ m.kind = "relay" /\ m.at = "session" /\ "Bounce" \in m.log
                    /\ i \notin s => m.spooled = {},
         i \notin f /\ m.kind = "relay" => Taken(m),
         m.kind # "relay" => m.at = "session" /\ m.spooled = {},
         m.at = "done" => m.spooled = {}
  PROVE  IInv'
<1>1. /\ msgs \in Seq(MsgType) /\ pc = "insert" /\ i \in 1..Len(msgs) /\ i' = i + 1
      /\ UNCHANGED <<deferred_spool, pc, left>> /\ left \subseteq stray /\ failed \cup stray \subseteq 1..Len(msgs)
      /\ failed' = f /\ stray' = s /\ msgs' = [msgs EXCEPT ![i] = m]
  BY DEF IInv, TypeOK, MsgType, Inserting, Inserted, quiet
<1>2. /\ msgs' \in Seq(MsgType) /\ Len(msgs') = Len(msgs) /\ msgs'[i] = m
      /\ \A n \in 1..Len(msgs) : n # i => msgs'[n] = msgs[n]
  BY <1>1
<1>3. \A n \in 1..Len(msgs) :
        IF n < i THEN Settled(n) ELSE Saved(msgs[n]) /\ n \notin failed /\ n \notin stray
  BY <1>1 DEF IInv, Stages
<1>4. MailTyped' /\ SameEnvelopes
  BY <1>1, <1>2 DEF MailTyped, SameEnvelopes
<1>5. TypeOK' /\ Phases' /\ EnvelopeExact'
  BY <1>1, <1>4, LoopStep DEF Inserting, Inserted
<1>6. \A n \in 1..Len(msgs') :
        IF n < i' THEN Settled(n)' ELSE Saved(msgs[n])' /\ n \notin failed' /\ n \notin stray'
  <2> SUFFICES ASSUME NEW n \in 1..Len(msgs')
               PROVE  IF n < i' THEN Settled(n)' ELSE Saved(msgs[n])' /\ n \notin failed' /\ n \notin stray'
    OBVIOUS
  <2>1. CASE n = i
    <3>1. Settled(n)'
      BY <1>1, <1>2, <2>1 DEF Settled, Unwound, Taken
    <3> QED
      BY <1>1, <2>1, <3>1
  <2>2. CASE n # i
    <3>1. /\ msgs'[n] = msgs[n] /\ (n \in failed' <=> n \in failed) /\ (n \in stray' <=> n \in stray)
          /\ (n < i' <=> n < i)
      BY <1>1, <1>2, <2>2
    <3> QED
      BY <1>1, <1>2, <1>3, <3>1 DEF Settled, Unwound, Taken, Saved
  <2> QED
    BY <2>1, <2>2
<1>7. Stages'
  BY <1>1, <1>6 DEF Stages
<1>8. OutOfSpool'
  BY <1>1, <1>2 DEF IInv, OutOfSpool
<1> QED
  BY <1>1, <1>5, <1>7, <1>8, NoAnswerYet DEF IInv, Inserted, Processing

\* The message that the loop is at is as it was saved.
LEMMA InsertingSaved ==
  ASSUME IInv, Inserting
  PROVE  /\ i \in 1..Len(msgs) /\ msgs[i] \in MsgType
         /\ Saved(msgs[i]) /\ i \notin failed /\ i \notin stray
<1>1. /\ msgs \in Seq(MsgType) /\ pc = "insert" /\ i \in 1..Len(msgs)
  BY DEF IInv, TypeOK, MsgType, Inserting
<1> QED
  BY <1>1 DEF IInv, Stages

LEMMA InsertNextStep == ASSUME IInv, InsertNext PROVE IInv'
BY InsertingSaved, InsertedStep DEF InsertNext, Saved

LEMMA InsertOkStep == ASSUME IInv, InsertOk PROVE IInv'
<1>1. PICK at \in {"queue", "done"} :
        Inserted([msgs[i] EXCEPT !.at = at, !.spooled = IF at = "done" THEN {} ELSE @], failed, stray)
  BY DEF InsertOk
<1> DEFINE m == [msgs[i] EXCEPT !.at = at, !.spooled = IF at = "done" THEN {} ELSE @]
<1>2. Inserting /\ msgs[i].kind = "relay"
  BY DEF InsertOk
<1>3. /\ m \in MsgType /\ m.kind = "relay" /\ m.at = at /\ m.rcpts = msgs[i].rcpts /\ m.log = msgs[i].log
      /\ m.spooled = IF at = "done" THEN {} ELSE msgs[i].spooled
  BY <1>2, InsertingSaved DEF MsgType
<1>4. Taken(m)
  BY <1>2, <1>3, InsertingSaved DEF Taken, Saved
<1>5. Inserted(m, failed, stray)
  BY <1>1
<1>6. "Reception" \in m.log /\ "Bounce" \notin m.log
  BY <1>2, <1>3, InsertingSaved DEF Saved
<1> HIDE DEF m
<1> QED
  BY <1>2, <1>3, <1>4, <1>5, <1>6, InsertingSaved, InsertedStep

LEMMA InsertAtShutdownStep == ASSUME IInv, InsertAtShutdown PROVE IInv'
<1>1. PICK got \in {msgs[i].spooled, Files} :
        Inserted([msgs[i] EXCEPT !.at = "shutdown", !.spooled = got], failed, stray)
  BY DEF InsertAtShutdown
<1> DEFINE m == [msgs[i] EXCEPT !.at = "shutdown", !.spooled = got]
<1>2. Inserting /\ msgs[i].kind = "relay"
  BY DEF InsertAtShutdown
<1>3. /\ m \in MsgType /\ m.kind = "relay" /\ m.at = "shutdown" /\ m.rcpts = msgs[i].rcpts /\ m.log = msgs[i].log
      /\ m.spooled = got
  BY <1>2, InsertingSaved DEF MsgType
<1>4. Taken(m)
  BY <1>2, <1>3, InsertingSaved DEF Taken, Saved
<1>5. Inserted(m, failed, stray)
  BY <1>1
<1>6. "Reception" \in m.log /\ "Bounce" \notin m.log
  BY <1>2, <1>3, InsertingSaved DEF Saved
<1> HIDE DEF m
<1> QED
  BY <1>2, <1>3, <1>4, <1>5, <1>6, InsertingSaved, InsertedStep

LEMMA InsertFailsStep == ASSUME IInv, NEW b \in BOOLEAN, InsertFails(b) PROVE IInv'
<1> DEFINE m == Removed(msgs[i], b)
           s == IF b THEN stray \cup {i} ELSE stray
<1>1. Inserting /\ msgs[i].kind = "relay" /\ Inserted(m, failed \cup {i}, s)
  BY DEF InsertFails
<1>2. /\ m \in MsgType /\ m.kind = "relay" /\ m.at = "session" /\ m.rcpts = msgs[i].rcpts
      /\ {"Reception", "Bounce"} \subseteq m.log /\ m.spooled = IF b THEN msgs[i].spooled ELSE {}
  BY <1>1, InsertingSaved DEF MsgType, Removed, Saved
<1>3. s \in {stray, stray \cup {i}} /\ (i \notin s => ~b)
  OBVIOUS
<1> HIDE DEF m, s
<1> QED
  BY <1>1, <1>2, <1>3, InsertingSaved, InsertedStep

\* After the last message every one of them is settled.
LEMMA AllSettled ==
  ASSUME IInv, pc = "insert", i > Len(msgs)
  PROVE  \A n \in 1..Len(msgs) : Settled(n)
BY DEF IInv, TypeOK, Stages

LEMMA FinalAnswerStep == ASSUME IInv, FinalAnswer PROVE IInv'
<1>1. /\ MailTyped' /\ pc = "insert" /\ UNCHANGED <<msgs, failed, stray, left, deferred_spool, shutting, blocked>>
      /\ Len(msgs) \in Nat /\ failed \subseteq 1..Len(msgs)
      /\ \A n \in 1..Len(msgs) : Settled(n)
  BY TypeOKMail, AllSettled DEF IInv, FinalAnswer, MailTyped, quiet
<1>2. OutOfSpool'
  BY <1>1 DEF IInv, OutOfSpool
<1>3. CASE (Denied \/ AllFailed) /\ \E c \in BOOLEAN : Answer("refused", c)
  <2>1. TypeOK' /\ Phases' /\ Stages' /\ EnvelopeExact'
    BY <1>1, <1>3, AnswerStep DEF Processing
  <2>2. answer' = "refused"
    BY <1>3 DEF Answer
  <2>3. CASE Denied
    BY <1>1, <1>2, <2>1, <2>2, <2>3
    DEF Denied, Settled, AckedIsKept, RefusedIsUnwound, ReceptionAccounted, Relayed, IInv
  <2>4. CASE AllFailed
    <3>1. failed = 1..Len(msgs)
      BY <1>1, <2>4, AllPositions DEF AllFailed
    <3>2. \A n \in 1..Len(msgs) : Unwound(n) /\ msgs[n].kind = "relay" /\ "Reception" \in msgs[n].log
      BY <1>1, <3>1 DEF Settled
    <3> QED
      BY <1>1, <1>2, <2>1, <2>2, <3>2
      DEF Unwound, AckedIsKept, RefusedIsUnwound, ReceptionAccounted, Relayed, IInv
  <2> QED
    BY <1>3, <2>3, <2>4
<1>4. CASE ~Denied /\ Answer("ok", FALSE)
  <2>1. TypeOK' /\ Phases' /\ Stages' /\ EnvelopeExact'
    BY <1>1, <1>4, AnswerStep DEF Processing
  <2>2. answer' = "ok"
    BY <1>4 DEF Answer
  <2>3. AckedIsKept'
    BY <1>1, <1>4, <2>2 DEF AckedIsKept, Kept, Settled, Unwound, Taken, Denied
  <2>4. RefusedIsUnwound' /\ ReceptionAccounted'
    BY <1>1, <2>2 DEF RefusedIsUnwound, ReceptionAccounted, Relayed, Settled, Unwound, Taken
  <2> QED
    BY <1>2, <2>1, <2>3, <2>4 DEF IInv
<1> QED
  BY <1>3, <1>4 DEF FinalAnswer

LEMMA AnswerLostStep == ASSUME IInv, AnswerLost PROVE IInv'
<1>1. /\ MailTyped' /\ pc = "insert" /\ UNCHANGED <<msgs, stray, left, deferred_spool, shutting, blocked>>
  BY TypeOKMail DEF IInv, AnswerLost, MailTyped, quiet
<1>2. TypeOK' /\ Phases' /\ Stages' /\ EnvelopeExact'
  BY <1>1, AnswerStep DEF AnswerLost, Processing
<1>3. answer' = "lost"
  BY DEF AnswerLost, Answer
<1> QED
  BY <1>1, <1>2, <1>3 DEF IInv, OutOfSpool, AckedIsKept, RefusedIsUnwound, ReceptionAccounted
-----------------------------------------------------------------------------
(* The queues, and a crash.                                                *)

LEMMA DisposeStep == ASSUME IInv, NEW n \in 1..Len(msgs), Dispose(n) PROVE IInv'
<1> DEFINE new == [msgs[n] EXCEPT !.at = "done", !.spooled = {}]
<1>1. /\ msgs \in Seq(MsgType) /\ msgs[n] \in MsgType /\ msgs[n].at = "queue"
      /\ UNCHANGED <<deferred_spool, pc, i, failed, answer, stray, left, promised, split>>
  BY TypeOKMail DEF IInv, MailTyped, Dispose, quiet, session
<1>2. /\ new \in MsgType /\ new.at = "done" /\ new.spooled = {}
      /\ new.rcpts = msgs[n].rcpts /\ new.kind = msgs[n].kind /\ new.log = msgs[n].log
  BY <1>1 DEF MsgType
<1>3. msgs' = [msgs EXCEPT ![n] = new]
  BY <1>1, <1>2 DEF Dispose, MsgType
<1> HIDE DEF new
<1>4. /\ msgs' \in Seq(MsgType) /\ Len(msgs') = Len(msgs) /\ msgs'[n] = new
      /\ \A k \in 1..Len(msgs) : k # n => msgs'[k] = msgs[k]
  BY <1>1, <1>2, <1>3
<1>5. TypeOK'
  BY <1>4 DEF IInv, TypeOK, MsgType, Dispose, quiet, session
<1>6. Phases'
  BY <1>1, <1>4 DEF IInv, Phases, Dispose, session, Processing
<1>7. Stages'
  BY <1>1, <1>2, <1>4 DEF IInv, Stages, Fresh, Saved, Settled, Unwound, Taken
<1>8. OutOfSpool' /\ AckedIsKept'
  BY <1>1, <1>2, <1>4 DEF IInv, OutOfSpool, AckedIsKept, Kept
<1>9. RefusedIsUnwound' /\ ReceptionAccounted'
  BY <1>1, <1>2, <1>4 DEF IInv, RefusedIsUnwound, ReceptionAccounted, Relayed
<1>10. SameEnvelopes
  BY <1>1, <1>2, <1>4 DEF SameEnvelopes
<1>11. EnvelopeExact'
  BY <1>1, <1>10, EnvelopesKept DEF EnvelopeExact
<1> QED
  BY <1>5, <1>6, <1>7, <1>8, <1>9, <1>11 DEF IInv

\* A restart queues what is in the spool.  What was acknowledged is there, or
\* was done with; what was refused is not.
LEMMA CrashStep == ASSUME IInv, Crash PROVE IInv'
<1> DEFINE at(n) == IF "meta" \in msgs[n].spooled THEN "queue"
                    ELSE IF msgs[n].at = "done" THEN "done" ELSE "lost"
           new(n) == [msgs[n] EXCEPT !.at = at(n)]
<1>1. /\ msgs \in Seq(MsgType) /\ \A n \in 1..Len(msgs) : msgs[n] \in MsgType
      /\ UNCHANGED <<deferred_spool, failed, stray, left>>
  BY TypeOKMail DEF IInv, MailTyped, Crash
<1>2. \A n \in 1..Len(msgs) :
        /\ new(n) \in MsgType /\ new(n).at = at(n) /\ new(n).spooled = msgs[n].spooled
        /\ new(n).kind = msgs[n].kind /\ new(n).log = msgs[n].log
  BY <1>1 DEF MsgType
<1>3. msgs' = [n \in 1..Len(msgs) |-> new(n)]
  BY <1>1 DEF Crash, MsgType
<1> HIDE DEF new
<1>4. msgs' \in Seq(MsgType) /\ Len(msgs') = Len(msgs) /\ \A n \in 1..Len(msgs) : msgs'[n] = new(n)
  BY <1>1, <1>2, <1>3
<1>5. /\ pc' = "none" /\ i' = 1 /\ state' = NoTxn /\ buffer' = NoLines /\ rcpt_count' = 0
      /\ shutting' = FALSE /\ blocked' = FALSE /\ answer' \in {answer, "lost"}
  BY DEF Crash, Over, Forgets
<1>6. Cardinality({}) = 0 /\ MaxPerMessage \in Nat /\ MaxPerConnection \in Nat /\ MaxLines \in Nat
  BY FS_EmptySet, SmtpAssumption
<1>7. /\ state' \in [open : BOOLEAN, recipients : SUBSET Rcpts]
      /\ Cardinality(state'.recipients) <= MaxPerMessage /\ rcpt_count' \in 0..MaxPerConnection
      /\ buffer' \in [lines : 0..MaxLines, partial : BOOLEAN]
  BY <1>5, <1>6 DEF NoTxn, NoLines
<1>8. MailTyped' /\ i' \in 1..(Len(msgs') + 1)
  BY <1>1, <1>4, <1>5, TypeOKMail DEF IInv, MailTyped
<1>9. TypeOK'
  BY <1>1, <1>5, <1>7, <1>8 DEF IInv, TypeOK, MailTyped, MsgType
<1>10. Phases'
  BY <1>5 DEF Phases, Processing, NoTxn
<1>11. Stages' /\ EnvelopeExact'
  BY <1>5, NoStage DEF Processing
<1>12. OutOfSpool'
  BY <1>1, <1>2, <1>4 DEF IInv, OutOfSpool
<1>13. AckedIsKept'
  BY <1>1, <1>2, <1>4, <1>5 DEF IInv, AckedIsKept, OutOfSpool, Kept, Files
<1>14. RefusedIsUnwound' /\ ReceptionAccounted'
  BY <1>1, <1>2, <1>4, <1>5 DEF IInv, OutOfSpool, RefusedIsUnwound, ReceptionAccounted, Relayed
<1> QED
  BY <1>9, <1>10, <1>11, <1>12, <1>13, <1>14 DEF IInv
-----------------------------------------------------------------------------
(* The theorems.                                                           *)

LEMMA InitIInv == Init => IInv
<1> SUFFICES ASSUME Init PROVE IInv
  OBVIOUS
<1>1. Cardinality({}) = 0 /\ MaxPerMessage \in Nat /\ MaxPerConnection \in Nat /\ MaxLines \in Nat
  BY FS_EmptySet, SmtpAssumption
<1>2. /\ state \in [open : BOOLEAN, recipients : SUBSET Rcpts]
      /\ Cardinality(state.recipients) <= MaxPerMessage /\ rcpt_count \in 0..MaxPerConnection
      /\ buffer \in [lines : 0..MaxLines, partial : BOOLEAN]
  BY <1>1 DEF Init, NoTxn, NoLines
<1>3. MailTyped /\ i \in 1..(Len(msgs) + 1)
  BY DEF Init, MailTyped
<1>4. TypeOK
  BY <1>2, <1>3 DEF Init, TypeOK, MailTyped, MsgType
<1> QED
  BY <1>4 DEF Init, IInv, Phases, Processing, Stages, OutOfSpool, AckedIsKept, RefusedIsUnwound,
              ReceptionAccounted, EnvelopeExact, NoTxn

LEMMA StutterIInv == ASSUME IInv, UNCHANGED vars PROVE IInv'
<1>1. UNCHANGED <<shutting, deferred_spool, pc, buffer, state, rcpt_count, msgs, i, failed, answer,
                  split, stray, left, promised, blocked>>
  BY DEF vars, mail
<1>2. TypeOK' /\ Phases'
  BY <1>1 DEF IInv, TypeOK, Phases, Processing
<1>3. Stages' /\ EnvelopeExact'
  BY <1>1 DEF IInv, Stages, EnvelopeExact, Fresh, Saved, Settled, Unwound, Taken
<1> QED
  BY <1>1, <1>2, <1>3, MailUnchanged DEF IInv

LEMMA NextIInv == ASSUME IInv, [Next]_vars PROVE IInv'
<1>1. CASE Connect
  BY <1>1, ConnectStep
<1>2. CASE Read
  BY <1>2, ReadStep
<1>3. CASE ShuttingDown \/ Disconnect \/ Closed
  BY <1>3, CloseStep, LastAnswerStep DEF ShuttingDown, ShutdownSeen, Reading, Disconnect, Closed
<1>10. CASE \E b \in BOOLEAN : ClientReads(b)
  BY <1>10, ClientReadsStep
<1>4. CASE Executes
  <2>1. CASE Refused421
    BY <2>1, LastAnswerStep DEF Refused421
  <2> QED
    BY <1>4, <2>1, MailFromStep, RsetStep, DataStep, OtherStep, RcptToStep DEF Executes
<1>5. CASE BodyRefused \/ BodyRead
  BY <1>5, BodyRefusedStep, BodyReadStep
<1>6. CASE Process
  <2>1. CASE Received \/ AcceptError \/ AcceptedAll
    BY <2>1, ReceivedStep, AcceptErrorStep, AcceptedAllStep
  <2>2. CASE \E p \in BOOLEAN : \E bs \in SUBSET ((SUBSET Rcpts) \ {{}}) : Split(bs, p)
    BY <2>2, SplitStep
  <2>3. CASE \E kind \in {"relay", "report", "null", "denied"} : Accept(kind)
    BY <2>3, AcceptStep
  <2>4. CASE \E c \in BOOLEAN : Rejected(c)
    BY <2>4, RejectedStep
  <2>5. CASE \E c \in BOOLEAN : \E got \in (SUBSET Files) \ {Files}, stuck \in SUBSET (1..Len(msgs)) :
               SaveFails(got, stuck, c)
    BY <2>5, SaveFailsStep
  <2>6. CASE InsertNext \/ InsertOk \/ InsertAtShutdown \/ \E b \in BOOLEAN : InsertFails(b)
    BY <2>6, InsertNextStep, InsertOkStep, InsertAtShutdownStep, InsertFailsStep
  <2>7. CASE FinalAnswer \/ AnswerLost
    BY <2>7, FinalAnswerStep, AnswerLostStep
  <2> QED
    BY <1>6, <2>1, <2>2, <2>3, <2>4, <2>5, <2>6, <2>7 DEF Process
<1>7. CASE \E n \in 1..Len(msgs) : Dispose(n)
  BY <1>7, DisposeStep
<1>8. CASE Shutdown \/ Crash
  BY <1>8, ShutdownStep, CrashStep
<1>9. CASE UNCHANGED vars
  BY <1>9, StutterIInv
<1> QED
  BY <1>1, <1>2, <1>3, <1>4, <1>5, <1>6, <1>7, <1>8, <1>9, <1>10 DEF Next

\* The inductive invariant: in each loop of process_data, the messages before
\* its index are saved or settled and those after it are untouched.
THEOREM SpecIInv == Spec => []IInv
<1>1. Init => IInv
  BY InitIInv
<1>2. IInv /\ [Next]_vars => IInv'
  BY NextIInv
<1> QED
  BY <1>1, <1>2, PTL DEF Spec

\* Every variable of the session keeps its type.  In particular the limits on
\* recipients, which the code tests for equality only, are never passed.
THEOREM TypesHold == Spec => []TypeOK
<1>1. IInv => TypeOK
  BY DEF IInv
<1> QED
  BY <1>1, SpecIInv, PTL

\* A client that has its 250 may forget the mail that is to be relayed:
\* process_data answers "ok" only when each such message is whole in the spool,
\* done with or bounced in the log (or, with a deferred spool, was handed to a
\* queue), and no later step of a queue, a shutdown or a crash undoes it.  The
\* other messages have a reception record and are dropped, among them a denied
\* batch, which only stands beside an accepted one.
THEOREM AcknowledgedMailIsKept == Spec => []AckedIsKept
<1>1. IInv => AckedIsKept
  BY DEF IInv
<1> QED
  BY <1>1, SpecIInv, PTL

\* When the client is refused, process_data has unwound what it saved, and a
\* restart finds nothing to queue, with three kinds of exceptions (stray): a
\* removal that failed, the half saved message itself, and what an error of
\* check_relaying or of the trace headers leaves behind.
THEOREM RefusedMailIsUnwound == Spec => []RefusedIsUnwound
<1>1. IInv => RefusedIsUnwound
  BY DEF IInv
<1> QED
  BY <1>1, SpecIInv, PTL

\* Among the messages to be relayed of a transaction that was answered, those
\* that no queue took are logged as bounced (but for those that AcceptError left
\* behind), and those that are logged as bounced were not taken by a queue (but
\* for strays that a restart finds).  No other message is logged as bounced.
THEOREM ReceptionsAreAccounted == Spec => []ReceptionAccounted
<1>1. IInv => ReceptionAccounted
  BY DEF IInv
<1> QED
  BY <1>1, SpecIInv, PTL

\* Unless the policy chose the batches, the messages of a transaction have
\* exactly the recipients that were answered 250 since the last MAIL or RSET,
\* each in one message.
THEOREM EnvelopesAreExact == Spec => []EnvelopeExact
<1>1. IInv => EnvelopeExact
  BY DEF IInv
<1> QED
  BY <1>1, SpecIInv, PTL
-----------------------------------------------------------------------------
(* LruTtl                                                                  *)

\* An item of the map, which has a semaphore exactly while it is pending.
IsItem(e) ==
  /\ DOMAIN e = {"state", "sema", "expiration"}
  /\ e.expiration \in Nat
  /\ Pending(e) => e.sema \in Semas
  /\ ~Pending(e) => e.sema = None
Items ==
  /\ cache = [k \in Keys |-> cache[k]]
  /\ \A k \in Keys : cache[k] # None => IsItem(cache[k])

\* A call; one in progress is about a key, and it began at deadline - Timeout,
\* which is over.
IsCall(c) ==
  /\ DOMAIN c = {"pc", "key", "deadline", "tries", "sema", "stale"}
  /\ c.pc # "idle" => c.key \in Keys /\ c.deadline \in Nat /\ c.deadline <= now + Timeout
  /\ c.pc \in {"wait", "check", "populate"} => c.sema \in Semas
Calls ==
  /\ task = [t \in Tasks |-> task[t]]
  /\ \A t \in Tasks : IsCall(task[t])

\* The pruner goes by a time that is over, and the samples it has yet to evict
\* are gone or are not pending.
Jobs ==
  /\ DOMAIN job = {"step", "now", "expired", "samples", "target"}
  /\ job.now \in Nat /\ job.now <= now
  /\ \A k \in Keys \cap job.samples : cache[k] = None \/ ~Pending(cache[k])

\* A semaphore has one permit; a task that populates has it; and nobody has
\* closed the semaphore as long as the map has its item.
Permits ==
  /\ \A t \in permit : t \in Tasks /\ task[t].pc \in {"check", "populate"}
  /\ \A t, u \in permit : task[t].sema = task[u].sema => t = u
  /\ \A t \in Tasks : task[t].pc = "populate" => t \in permit
  /\ \A t \in permit : HasItem(t) => task[t].sema \notin closed

CacheIInv == now \in Nat /\ Items /\ Calls /\ Jobs /\ Permits

-----------------------------------------------------------------------------
\* What becomes of the items of the map in a step that stores e under k, and in
\* one that stores nothing: none that is pending goes, but by Removed.
Stored(k, e) ==
  /\ cache' = [x \in Keys |-> cache'[x]]
  /\ \A x \in Keys : LET item == IF x = k THEN e ELSE cache[x]
                     IN  \/ cache'[x] = item
                         \/ cache'[x] = None /\ item # None /\ ~Pending(item)
OnlyRemoved ==
  /\ cache' = [x \in Keys |-> cache'[x]]
  /\ \A x \in Keys : cache'[x] \in {None, cache[x]}

LEMMA SampleIsReady ==
  ASSUME NEW m, NEW order, NEW S, NEW k,
         LET j == Sample(m, order, S)
         IN  k \in j.expired \cup Oldest(order, j.samples, j.target - Cardinality(j.expired))
  PROVE  k \in S /\ ~Pending(m[k])
BY DEF Sample, Oldest

LEMMA PutStores ==
  ASSUME Items, Jobs, NEW k \in Keys, NEW e, NEW evict \in BOOLEAN, Put(k, e, evict)
  PROVE  /\ Stored(k, e)
         /\ job' = [job EXCEPT !.samples = job.samples \ {k}]
<1> DEFINE m == [cache EXCEPT ![k] = e]
           order == Append(Drop(lru, {k}), k)
           victims(j) == j.expired \cup Oldest(order, j.samples, j.target - Cardinality(j.expired))
           Store(g) == /\ cache' = [x \in Keys |-> IF x \in g THEN None ELSE m[x]]
                       /\ lru' = Drop(order, g)
<1>1. IF evict /\ Len(order) > capacity
      THEN \E S \in SampleSets(order) : Store(victims(Sample(m, order, S)))
      ELSE Store({})
  BY Zenon DEF Put
<1>2. job' = [job EXCEPT !.samples = job.samples \ {k}]
  BY DEF Put, Jobs
<1>3. \A x \in Keys : m[x] = IF x = k THEN e ELSE cache[x]
  BY DEF Items
<1>4. ASSUME NEW S, Store(victims(Sample(m, order, S))) PROVE \E g : Store(g) /\ \A x \in g : ~Pending(m[x])
  <2>1. \A x \in victims(Sample(m, order, S)) : ~Pending(m[x])
    BY SampleIsReady
  <2> QED
    BY <1>4, <2>1
<1>5. ASSUME Store({}) PROVE \E g : Store(g) /\ \A x \in g : ~Pending(m[x])
  <2>1. \A x \in {} : ~Pending(m[x])
    OBVIOUS
  <2> HIDE DEF m, order
  <2> QED
    BY <1>5, <2>1
<1>6. PICK g : Store(g) /\ \A x \in g : ~Pending(m[x])
  <2>1. CASE evict /\ Len(order) > capacity
    <3>1. PICK S : Store(victims(Sample(m, order, S)))
      BY <1>1, <2>1, Zenon
    <3> QED
      BY <1>4, <3>1, Zenon
  <2>2. CASE ~(evict /\ Len(order) > capacity)
    <3>1. Store({})
      BY <1>1, <2>2, Zenon
    <3> QED
      BY <1>5, <3>1, Zenon
  <2> QED
    BY <2>1, <2>2
<1> HIDE DEF m, order, victims
<1>7. Stored(k, e)
  BY <1>3, <1>6 DEF Stored
<1> QED
  BY <1>2, <1>7

\* Where the map and the calls are as they are to be, so is the cache.
LEMMA StoreKeeps ==
  ASSUME CacheIInv, now' = now, NEW k \in Keys, NEW e, IsItem(e), Stored(k, e),
         job' = [job EXCEPT !.samples = job.samples \ {k}]
  PROVE  Items' /\ Jobs'
<1>1. Items /\ Jobs
  BY DEF CacheIInv
<1>2. \A x \in Keys : cache'[x] # None => IsItem(cache'[x])
  BY <1>1 DEF Stored, Items
<1>3. Items'
  BY <1>2 DEF Items, Stored, IsItem, Pending
<1>4. \A x \in Keys \ {k} : cache'[x] \in {cache[x], None}
  BY DEF Stored
<1>5. Jobs'
  BY <1>1, <1>4 DEF Jobs, Pending
<1> QED
  BY <1>3, <1>5

LEMMA RemoveKeeps ==
  ASSUME CacheIInv, now' \in {now, now + 1}, OnlyRemoved
  PROVE  Items' /\ (job' = job => Jobs')
<1>1. now \in Nat /\ Items /\ Jobs
  BY DEF CacheIInv
<1>2. Items'
  BY <1>1 DEF Items, OnlyRemoved, IsItem, Pending
<1>3. job' = job => Jobs'
  BY <1>1 DEF Jobs, OnlyRemoved, Pending
<1> QED
  BY <1>2, <1>3

LEMMA CallsStay ==
  ASSUME now \in Nat, Calls, now' \in {now, now + 1},
         task' = task \/ \E t \in Tasks : \E c : task' = [task EXCEPT ![t] = c] /\ IsCall(c)
  PROVE  Calls'
<1>1. Timeout \in Nat
  BY DurationsAssumption
<1>2. ASSUME NEW c, IsCall(c) PROVE IsCall(c)'
  BY <1>1, <1>2 DEF IsCall
<1>3. CASE task' = task
  BY <1>2, <1>3 DEF Calls
<1>4. ASSUME NEW t \in Tasks, NEW c, task' = [task EXCEPT ![t] = c], IsCall(c) PROVE Calls'
  BY <1>2, <1>4 DEF Calls
<1> QED
  BY <1>3, <1>4

\* The items a step may leave in the map; the tasks that keep their permit are
\* left alone; and only who gives up a permit closes its semaphore.
Leaves ==
  \A x \in Keys : cache'[x] # None =>
    cache'[x] = cache[x] \/ cache'[x].sema = None \/ cache'[x].sema \in FreeSemas
Holds ==
  /\ permit' \subseteq permit
  /\ \A t \in permit' : /\ task'[t].sema = task[t].sema /\ task'[t].key = task[t].key
                        /\ task'[t].pc \in {"check", "populate"}
  /\ \A t \in Tasks : task'[t].pc = "populate" => t \in permit'
Closes ==
  \/ \A x \in Keys : cache'[x] = None
  \/ closed' \subseteq closed \cup {task[u].sema : u \in permit \ permit'}

LEMMA PermitsStay ==
  ASSUME CacheIInv, Leaves, Holds, Closes
  PROVE  Permits'
<1>1. Permits /\ Calls /\ Items
  BY DEF CacheIInv
<1>2. \A t \in permit' : t \in Tasks /\ task'[t].pc \in {"check", "populate"}
  BY <1>1 DEF Holds, Permits
<1>3. \A t, u \in permit' : task'[t].sema = task'[u].sema => t = u
  BY <1>1 DEF Holds, Permits
<1>4. ASSUME NEW t \in permit', HasItem(t)' PROVE task'[t].sema \notin closed'
  <2>1. t \in permit /\ t \in Tasks /\ task[t].key \in Keys /\ task[t].sema \in Semas
    BY <1>1 DEF Holds, Permits, Calls, IsCall
  <2>2. /\ task'[t].sema = task[t].sema /\ task'[t].key = task[t].key
        /\ cache'[task[t].key] # None /\ cache'[task[t].key].sema = task[t].sema
    BY <1>4 DEF Holds, HasItem
  <2>3. cache'[task[t].key] = cache[task[t].key]
    <3>1. task[t].sema # None /\ task[t].sema \notin FreeSemas
      BY <2>1, SemasAssumption DEF FreeSemas
    <3> QED
      BY <2>1, <2>2, <3>1 DEF Leaves
  <2>4. task[t].sema \notin closed
    BY <1>1, <2>1, <2>2, <2>3 DEF Permits, HasItem
  <2>5. \A u \in permit \ permit' : task[u].sema # task[t].sema
    BY <1>1, <2>1 DEF Permits
  <2> QED
    BY <2>1, <2>2, <2>4, <2>5 DEF Closes
<1> QED
  BY <1>2, <1>3, <1>4 DEF Permits, Holds

\* clone_item_state keeps an item or gives it the new semaphore; it keeps one
\* that is not pending, and one that has neither been closed nor expired.
LEMMA ClonedItem ==
  ASSUME now \in Nat, NEW e, e # None => IsItem(e), NEW s \in Semas, NEW deadline \in Nat
  PROVE  LET c == Cloned(e, s, deadline)
         IN  /\ IsItem(c)
             /\ (c = e /\ e # None) \/ (Pending(c) /\ c.sema = s)
             /\ e # None /\ Pending(e) /\ e.sema \notin closed /\ ~Expired(e, now) => c = e
<1>1. Timeout \in Nat
  BY DurationsAssumption
<1> DEFINE Good(c) == IsItem(c) /\ Pending(c) /\ c.sema = s
<1>2. Good(Item("Pending", s, deadline)) /\ Good(Item("Pending", s, now + Timeout))
  BY <1>1 DEF Item, IsItem, Pending
<1>3. CASE e = None
  <2>1. Cloned(e, s, deadline) = Item("Pending", s, deadline)
    BY <1>3 DEF Cloned
  <2> QED
    BY <1>2, <1>3, <2>1
<1>4. CASE e # None
  <2>1. Pending(e) => Good([e EXCEPT !.sema = s])
    BY <1>4 DEF IsItem, Pending
  <2>2. Good(Item(IF allow_stale_reads THEN "Refreshing" ELSE "Pending", s, e.expiration))
    BY <1>4 DEF IsItem, Item, Pending
  <2>3. \/ /\ Pending(e) /\ e.sema \in closed
           /\ Cloned(e, s, deadline) = [e EXCEPT !.sema = s]
        \/ /\ Expired(e, now)
           /\ \/ Cloned(e, s, deadline) = Item("Pending", s, now + Timeout)
              \/ Cloned(e, s, deadline) = Item(IF allow_stale_reads THEN "Refreshing" ELSE "Pending", s, e.expiration)
        \/ Cloned(e, s, deadline) = e
    BY <1>4 DEF Cloned, Pending
  <2> HIDE DEF Good
  <2>4. Cloned(e, s, deadline) = e \/ Good(Cloned(e, s, deadline))
    BY <1>2, <2>1, <2>2, <2>3
  <2>5. Pending(e) /\ e.sema \notin closed /\ ~Expired(e, now) => Cloned(e, s, deadline) = e
    BY <2>3
  <2> HIDE DEF Cloned
  <2>6. \/ Cloned(e, s, deadline) = e
        \/ IsItem(Cloned(e, s, deadline)) /\ Pending(Cloned(e, s, deadline)) /\ Cloned(e, s, deadline).sema = s
    BY <2>4 DEF Good
  <2> QED
    BY <1>4, <2>5, <2>6
<1> QED
  BY <1>3, <1>4

LEMMA NewSemaIsFree ==
  ASSUME FreeSemas # {}
  PROVE  NewSema \in FreeSemas /\ NewSema \in Semas
BY DEF NewSema, FreeSemas

LEMMA IdleCall == IsCall(Idle) /\ Idle.pc = "idle"
BY DEF IsCall, Idle

LEMMA CacheInitial == CacheInit => CacheIInv
<1> SUFFICES ASSUME CacheInit PROVE CacheIInv
  OBVIOUS
<1>1. /\ now = 0 /\ cache = [k \in Keys |-> None] /\ task = [t \in Tasks |-> Idle]
      /\ permit = {} /\ job = NoJob
  BY DEF CacheInit
<1>2. Items
  BY <1>1 DEF Items
<1>3. Calls
  BY <1>1, IdleCall DEF Calls
<1>4. Jobs
  BY <1>1 DEF Jobs, NoJob
<1>5. Permits
  BY <1>1, IdleCall DEF Permits
<1> QED
  BY <1>1, <1>2, <1>3, <1>4, <1>5 DEF CacheIInv

-----------------------------------------------------------------------------
\* A step that leaves the permits alone, and the calls of those who hold one.
LEMMA OthersKeep ==
  ASSUME CacheIInv, now' \in {now, now + 1}, Items', Jobs', Leaves,
         permit' = permit, (\A x \in Keys : cache'[x] = None) \/ closed' \subseteq closed,
         \/ task' = task
         \/ \E t \in Tasks \ permit : \E c : /\ task' = [task EXCEPT ![t] = c]
                                             /\ IsCall(c) /\ c.pc # "populate"
  PROVE  CacheIInv'
<1>1. now \in Nat /\ Calls /\ Permits
  BY DEF CacheIInv
<1>2. Calls'
  BY <1>1, CallsStay
<1>3. Holds
  BY <1>1 DEF Holds, Permits, Calls
<1>4. Closes
  BY DEF Closes
<1>5. Permits'
  BY <1>3, <1>4, PermitsStay
<1> QED
  BY <1>1, <1>2, <1>5 DEF CacheIInv

LEMMA NotHolding ==
  ASSUME CacheIInv, NEW t \in Tasks, task[t].pc \notin {"check", "populate"}
  PROVE  t \in Tasks \ permit
BY DEF CacheIInv, Permits

LEMMA CallKeeps ==
  ASSUME CacheIInv, NEW t \in Tasks, NEW k \in Keys, Call(t, k)
  PROVE  CacheIInv'
<1>1. now \in Nat /\ Items /\ Calls /\ Jobs /\ Timeout \in Nat
  BY DurationsAssumption DEF CacheIInv
<1>2. now' = now /\ permit' = permit /\ closed' = closed /\ t \in Tasks \ permit
  BY NotHolding DEF Call
<1>3. CASE Put(k, cache[k], FALSE) /\ cache[k] # None /\ task' = task
  <2>1. Stored(k, cache[k]) /\ IsItem(cache[k]) /\ job' = [job EXCEPT !.samples = job.samples \ {k}]
    BY <1>1, <1>3, PutStores DEF Items
  <2>2. Items' /\ Jobs'
    BY <1>2, <2>1, StoreKeeps
  <2>3. Leaves
    BY <2>1 DEF Leaves, Stored
  <2> QED
    BY <1>2, <1>3, <2>2, <2>3, OthersKeep
<1>4. ASSUME NEW at \in {"expire", "clone"}, cache' = cache, job' = job,
             task' = [task EXCEPT ![t] = [[Idle EXCEPT !.key = k, !.deadline = now + Timeout] EXCEPT !.pc = at]]
      PROVE  CacheIInv'
  <2>1. PICK c : c = [[Idle EXCEPT !.key = k, !.deadline = now + Timeout] EXCEPT !.pc = at]
    OBVIOUS
  <2>2. IsCall(c) /\ c.pc # "populate"
    BY <1>1, <2>1 DEF IsCall, Idle
  <2>3. OnlyRemoved /\ Leaves
    BY <1>1, <1>4 DEF OnlyRemoved, Items, Leaves
  <2>4. Items' /\ Jobs'
    BY <1>2, <1>4, <2>3, RemoveKeeps
  <2> QED
    BY <1>2, <1>4, <2>1, <2>2, <2>3, <2>4, OthersKeep
<1>5. \/ Put(k, cache[k], FALSE) /\ cache[k] # None /\ task' = task
      \/ \E at \in {"expire", "clone"} :
           /\ cache' = cache /\ job' = job
           /\ task' = [task EXCEPT ![t] = [[Idle EXCEPT !.key = k, !.deadline = now + Timeout] EXCEPT !.pc = at]]
  BY Zenon DEF Call
<1> QED
  BY <1>3, <1>4, <1>5

\* A step that takes items out of the map.
LEMMA WithoutRemoves ==
  ASSUME CacheIInv, NEW ks, Without(ks)
  PROVE  OnlyRemoved /\ Leaves
BY DEF OnlyRemoved, Leaves, Without

LEMMA StillKnownOf ==
  ASSUME NEW c, closed' = StillKnown(c)
  PROVE  closed' \subseteq c
BY DEF StillKnown

LEMMA LookupExpireKeeps ==
  ASSUME CacheIInv, NEW t \in Tasks, LookupExpire(t)
  PROVE  CacheIInv'
<1>1. Calls /\ IsCall(task[t]) /\ task[t].pc = "expire" /\ t \in Tasks \ permit
  BY NotHolding DEF CacheIInv, Calls, LookupExpire
<1>2. now' = now /\ permit' = permit /\ job' = job /\ closed' \subseteq closed /\ \E ks : Without(ks)
  BY StillKnownOf DEF LookupExpire
<1>3. OnlyRemoved /\ Leaves
  BY <1>2, WithoutRemoves
<1>4. Items' /\ Jobs'
  BY <1>2, <1>3, RemoveKeeps
<1>5. PICK c : c = [task[t] EXCEPT !.pc = "clone"]
  OBVIOUS
<1>6. IsCall(c) /\ c.pc # "populate"
  BY <1>1, <1>5 DEF IsCall
<1>7. task' = [task EXCEPT ![t] = c]
  BY <1>1, <1>5 DEF LookupExpire, Calls, IsCall
<1> QED
  BY <1>1, <1>2, <1>3, <1>4, <1>6, <1>7, OthersKeep

\* What a step that begins with clone_item_state leaves in the map.
LEMMA CloneStores ==
  ASSUME CacheIInv, NEW t \in Tasks, Clone(t) \/ Check(t),
         NEW k, k = task[t].key, NEW e, e = Cloned(cache[k], NewSema, task[t].deadline)
  PROVE  /\ k \in Keys /\ IsItem(e) /\ Stored(k, e) /\ Items' /\ Jobs' /\ Leaves
         /\ (e = cache[k] /\ cache[k] # None) \/ (Pending(e) /\ e.sema \in FreeSemas)
         /\ cache[k] # None /\ Pending(cache[k]) /\ cache[k].sema \notin closed
              /\ ~Expired(cache[k], now) => e = cache[k]
<1>1. now \in Nat /\ Items /\ Jobs /\ IsCall(task[t]) /\ task[t].pc # "idle" /\ now' = now
  BY DEF CacheIInv, Calls, Clone, Check
<1>2. NewSema \in FreeSemas /\ NewSema \in Semas
  BY NewSemaIsFree DEF Clone, Check
<1>3. k \in Keys /\ task[t].deadline \in Nat
  BY <1>1 DEF IsCall
<1>4. Put(k, e, cache[k] = None)
  BY Zenon DEF Clone, Check
<1>5. cache[k] # None => IsItem(cache[k])
  BY <1>1, <1>3 DEF Items
<1>6. /\ IsItem(e)
      /\ (e = cache[k] /\ cache[k] # None) \/ (Pending(e) /\ e.sema = NewSema)
      /\ cache[k] # None /\ Pending(cache[k]) /\ cache[k].sema \notin closed
           /\ ~Expired(cache[k], now) => e = cache[k]
  BY <1>1, <1>2, <1>3, <1>5, ClonedItem
<1>7. Stored(k, e) /\ job' = [job EXCEPT !.samples = job.samples \ {k}]
  BY <1>1, <1>3, <1>4, PutStores
<1>8. Items' /\ Jobs'
  BY <1>1, <1>3, <1>6, <1>7, StoreKeeps
<1>9. Leaves
  BY <1>2, <1>6, <1>7 DEF Leaves, Stored
<1> QED
  BY <1>2, <1>3, <1>6, <1>7, <1>8, <1>9

LEMMA CloneKeeps ==
  ASSUME CacheIInv, NEW t \in Tasks, Clone(t)
  PROVE  CacheIInv'
<1>1. Calls /\ IsCall(task[t]) /\ task[t].pc = "clone" /\ t \in Tasks \ permit
  BY NotHolding DEF CacheIInv, Calls, Clone
<1>2. PICK k : k = task[t].key
  OBVIOUS
<1>3. PICK e : e = Cloned(cache[k], NewSema, task[t].deadline)
  OBVIOUS
<1>4. IsItem(e) /\ Items' /\ Jobs' /\ Leaves
  BY <1>2, <1>3, CloneStores
<1>5. now' = now /\ permit' = permit /\ closed' \subseteq closed
  <2>1. closed' = StillKnown(Reopened(k, e)) /\ Reopened(k, e) \subseteq closed
    BY <1>2, <1>3 DEF Clone, Reopened
  <2>2. closed' \subseteq closed
    BY <2>1, StillKnownOf
  <2> QED
    BY <2>2 DEF Clone
<1>6. PICK c : c = [task[t] EXCEPT !.pc = "wait", !.sema = e.sema,
                                   !.stale = IF e.state = "Refreshing" THEN e.expiration ELSE None]
  OBVIOUS
<1>7. Pending(e) => IsCall(c) /\ c.pc # "populate"
  BY <1>1, <1>4, <1>6 DEF IsCall, IsItem
<1>8. task' = [task EXCEPT ![t] = IF ~Pending(e) THEN Idle ELSE c]
  BY <1>1, <1>2, <1>3, <1>6 DEF Clone, Calls
<1>9. \E d : task' = [task EXCEPT ![t] = d] /\ IsCall(d) /\ d.pc # "populate"
  BY <1>7, <1>8, IdleCall
<1> QED
  BY <1>1, <1>4, <1>5, <1>9, OthersKeep

LEMMA AcquireKeeps ==
  ASSUME CacheIInv, NEW t \in Tasks, Acquire(t)
  PROVE  CacheIInv'
<1>1. now \in Nat /\ Items /\ Calls /\ Jobs /\ Permits /\ IsCall(task[t]) /\ task[t].pc = "wait"
  BY DEF CacheIInv, Calls, Acquire
<1>2. now' = now /\ cache' = cache /\ closed' = closed /\ job' = job
  BY DEF Acquire
<1>3. PICK c : c = [task[t] EXCEPT !.pc = "check", !.stale = None]
  OBVIOUS
<1>4. IsCall(c) /\ c.pc = "check" /\ c.sema = task[t].sema /\ c.key = task[t].key
  BY <1>1, <1>3 DEF IsCall
<1>5. task' = [task EXCEPT ![t] = c]
  BY <1>1, <1>3 DEF Acquire, Calls, IsCall
<1>6. Items' /\ Jobs'
  <2>1. OnlyRemoved
    BY <1>1, <1>2 DEF OnlyRemoved, Items
  <2> QED
    BY <1>2, <2>1, RemoveKeeps
<1>7. Calls'
  BY <1>1, <1>2, <1>4, <1>5, CallsStay
<1>8. /\ \A u \in Tasks : /\ task'[u].sema = task[u].sema /\ task'[u].key = task[u].key
                          /\ u # t => task'[u] = task[u]
      /\ task'[t].pc = "check"
  BY <1>1, <1>4, <1>5 DEF Calls
<1>9. \A u \in permit' : \/ u \in permit
                         \/ /\ u = t /\ task[t].sema \notin closed
                            /\ \A v \in permit : task[v].sema # task[t].sema
  BY DEF Acquire, Held
<1>10. permit \subseteq permit' /\ t \notin permit
  BY <1>1 DEF Acquire, Permits
<1>11. Permits'
  <2>1. \A u \in permit' : u \in Tasks /\ task'[u].pc \in {"check", "populate"}
    BY <1>1, <1>8, <1>9 DEF Permits
  <2>2. \A u, v \in permit' : task'[u].sema = task'[v].sema => u = v
    BY <1>1, <1>8, <1>9, <2>1 DEF Permits
  <2>3. \A u \in Tasks : task'[u].pc = "populate" => u \in permit'
    BY <1>1, <1>8, <1>10 DEF Permits
  <2>4. \A u \in permit' : HasItem(u)' => task'[u].sema \notin closed'
    BY <1>1, <1>2, <1>8, <1>9, <2>1 DEF Permits, HasItem
  <2> QED
    BY <2>1, <2>2, <2>3, <2>4 DEF Permits
<1> QED
  BY <1>1, <1>2, <1>6, <1>7, <1>11 DEF CacheIInv

\* A step of a task that ends its call or its attempt gives up the permit.
LEMMA GivesUp ==
  ASSUME CacheIInv, NEW t \in Tasks, now' = now, Items', Jobs', Leaves,
         NEW c, task' = [task EXCEPT ![t] = c], IsCall(c), c.pc # "populate",
         permit' = permit \ {t}, closed' \subseteq closed \cup Closing(t)
  PROVE  CacheIInv'
<1>1. now \in Nat /\ Calls /\ Permits
  BY DEF CacheIInv
<1>2. Calls'
  BY <1>1, CallsStay
<1>3. Holds
  BY <1>1 DEF Holds, Permits, Calls
<1>4. Closes
  BY DEF Closes, Closing
<1>5. Permits'
  BY <1>3, <1>4, PermitsStay
<1> QED
  BY <1>1, <1>2, <1>5 DEF CacheIInv

LEMMA CheckKeeps ==
  ASSUME CacheIInv, NEW t \in Tasks, Check(t)
  PROVE  CacheIInv'
<1>1. now \in Nat /\ Calls /\ Permits /\ IsCall(task[t]) /\ task[t].pc = "check" /\ now' = now
  BY DEF CacheIInv, Calls, Check
<1>2. PICK k : k = task[t].key
  OBVIOUS
<1>3. PICK e : e = Cloned(cache[k], NewSema, task[t].deadline)
  OBVIOUS
<1>4. IsItem(e) /\ Items' /\ Jobs' /\ Leaves
  BY <1>2, <1>3, CloneStores
<1> DEFINE mine == t \in permit /\ e.sema = task[t].sema
<1>5. /\ task' = [task EXCEPT ![t] = CASE ~Pending(e) -> Idle
                                       [] Pending(e) /\ mine -> [task[t] EXCEPT !.pc = "populate"]
                                       [] Pending(e) /\ ~mine -> Again(task[t])]
      /\ permit' = IF Pending(e) /\ mine THEN permit ELSE permit \ {t}
      /\ closed' = StillKnown(Reopened(k, e) \cup (IF Pending(e) /\ ~mine THEN Closing(t) ELSE {}))
  BY <1>1, <1>2, <1>3 DEF Check, Calls
<1>6. closed' \subseteq closed \cup (IF Pending(e) /\ ~mine THEN Closing(t) ELSE {})
  <2>1. Reopened(k, e) \subseteq closed
    BY DEF Reopened
  <2>2. closed' \subseteq Reopened(k, e) \cup (IF Pending(e) /\ ~mine THEN Closing(t) ELSE {})
    BY <1>5, StillKnownOf
  <2> QED
    BY <2>1, <2>2
<1>7. CASE Pending(e) /\ mine
  <2>1. PICK c : c = [task[t] EXCEPT !.pc = "populate"]
    OBVIOUS
  <2>2. IsCall(c) /\ c.pc = "populate" /\ c.sema = task[t].sema /\ c.key = task[t].key
    BY <1>1, <2>1 DEF IsCall
  <2>3. task' = [task EXCEPT ![t] = c] /\ permit' = permit /\ closed' \subseteq closed
    BY <1>5, <1>6, <1>7, <2>1
  <2>4. Calls'
    BY <1>1, <2>2, <2>3, CallsStay
  <2>5. Holds /\ Closes
    BY <1>1, <1>7, <2>2, <2>3 DEF Holds, Closes, Permits, Calls
  <2>6. Permits'
    BY <1>4, <2>5, PermitsStay
  <2> QED
    BY <1>1, <1>4, <2>4, <2>6 DEF CacheIInv
<1>8. CASE ~(Pending(e) /\ mine)
  <2>1. PICK c : c = IF Pending(e) THEN Again(task[t]) ELSE Idle
    OBVIOUS
  <2>2. IsCall(c) /\ c.pc # "populate"
    BY <1>1, <2>1, IdleCall DEF Again, IsCall
  <2>3. task' = [task EXCEPT ![t] = c] /\ permit' = permit \ {t}
    BY <1>5, <1>8, <2>1
  <2>4. closed' \subseteq closed \cup Closing(t)
    BY <1>6
  <2> QED
    BY <1>1, <1>4, <2>2, <2>3, <2>4, GivesUp
<1> QED
  BY <1>7, <1>8

\* A value is stored that has just been made.
LEMMA ValueKeeps ==
  ASSUME CacheIInv, now' = now, NEW k \in Keys, NEW ttl \in Nat, NEW st \in {"Present", "Failed"},
         Put(k, Item(st, None, now + ttl), TRUE)
  PROVE  Stored(k, Item(st, None, now + ttl)) /\ Items' /\ Jobs' /\ Leaves
<1>1. PICK e : e = Item(st, None, now + ttl)
  OBVIOUS
<1>2. now \in Nat /\ Items /\ Jobs
  BY DEF CacheIInv
<1>3. IsItem(e) /\ e.sema = None
  BY <1>1, <1>2 DEF IsItem, Item, Pending
<1>4. Stored(k, e) /\ job' = [job EXCEPT !.samples = job.samples \ {k}]
  BY <1>1, <1>2, PutStores
<1>5. Items' /\ Jobs'
  BY <1>3, <1>4, StoreKeeps
<1>6. Leaves
  BY <1>3, <1>4 DEF Leaves, Stored
<1> QED
  BY <1>1, <1>4, <1>5, <1>6

LEMMA PopulateKeeps ==
  ASSUME CacheIInv, NEW t \in Tasks, NEW st \in {"Present", "Failed"}, NEW ttl \in Nat, Populate(t, st, ttl)
  PROVE  CacheIInv'
<1>1. /\ now' = now /\ task' = [task EXCEPT ![t] = Idle] /\ permit' = permit \ {t}
      /\ Put(task[t].key, Item(st, None, now + ttl), TRUE)
      /\ closed' \subseteq closed \cup Closing(t)
  BY StillKnownOf DEF Populate
<1>2. task[t].key \in Keys
  BY DEF CacheIInv, Calls, IsCall, Populate
<1>3. Items' /\ Jobs' /\ Leaves
  BY <1>1, <1>2, ValueKeeps
<1> QED
  BY <1>1, <1>3, IdleCall, GivesUp

LEMMA InsertKeeps ==
  ASSUME CacheIInv, NEW t \in Tasks, NEW k \in Keys, NEW ttl \in Nat, Insert(t, k, ttl)
  PROVE  CacheIInv'
<1>1. /\ now' = now /\ task' = task /\ permit' = permit /\ closed' \subseteq closed
      /\ Put(k, Item("Present", None, now + ttl), TRUE)
  BY StillKnownOf DEF Insert
<1>2. Items' /\ Jobs' /\ Leaves
  BY <1>1, ValueKeeps
<1> QED
  BY <1>1, <1>2, OthersKeep

LEMMA WaitKeeps ==
  ASSUME CacheIInv, NEW t \in Tasks, WaitTimeout(t) \/ Cancel(t)
  PROVE  CacheIInv'
<1>1. now' = now /\ cache' = cache /\ job' = job /\ task' = [task EXCEPT ![t] = Idle]
  BY DEF WaitTimeout, Cancel
<1>2. OnlyRemoved /\ Leaves
  BY <1>1 DEF OnlyRemoved, Leaves, CacheIInv, Items
<1>3. Items' /\ Jobs'
  BY <1>1, <1>2, RemoveKeeps
<1>4. permit' = permit \ {t} /\ closed' \subseteq closed \cup Closing(t)
  <2>1. CASE WaitTimeout(t)
    BY <2>1, NotHolding DEF WaitTimeout
  <2>2. CASE Cancel(t)
    BY <2>2, StillKnownOf DEF Cancel
  <2> QED
    BY <2>1, <2>2
<1> QED
  BY <1>1, <1>2, <1>3, <1>4, IdleCall, GivesUp

\* What the pruner goes by.
LEMMA SampleJob ==
  ASSUME now \in Nat, Items, NEW S, job' = Sample(cache, lru, S), cache' = cache, now' = now
  PROVE  Jobs'
BY DEF Jobs, Sample, Items

LEMMA PrunerKeeps ==
  ASSUME CacheIInv, Collect \/ PruneRemove \/ EvictSample \/ EvictRemove \/ Clear \/ Tick
  PROVE  CacheIInv'
<1>1. now \in Nat /\ Items /\ Jobs
  BY DEF CacheIInv
<1>2. now' \in {now, now + 1} /\ task' = task /\ permit' = permit
  BY DEF Collect, PruneRemove, EvictSample, EvictRemove, Clear, Tick
<1>3. OnlyRemoved /\ Leaves
  <2>1. CASE cache' = cache
    BY <1>1, <2>1 DEF OnlyRemoved, Leaves, Items
  <2>2. CASE \E ks : Without(ks)
    BY <2>2, WithoutRemoves
  <2>3. cache' = cache \/ \E ks : Without(ks)
    BY Zenon DEF Collect, PruneRemove, EvictSample, EvictRemove, Clear, Tick
  <2> QED
    BY <2>1, <2>2, <2>3
<1>4. Items' /\ (job' = job => Jobs')
  BY <1>2, <1>3, RemoveKeeps
<1>5. Jobs'
  <2>1. CASE Collect
    BY <1>1, <2>1 DEF Collect, Jobs, NoJob
  <2>2. CASE PruneRemove \/ EvictRemove
    <3>1. job'.now = 0 /\ job'.samples = {} /\ DOMAIN job' = {"step", "now", "expired", "samples", "target"} /\ now' = now
      BY <2>2 DEF PruneRemove, EvictRemove, NoJob
    <3> QED
      BY <1>1, <3>1 DEF Jobs
  <2>3. CASE EvictSample
    BY <1>1, <2>3, SampleJob DEF EvictSample
  <2>4. CASE Clear \/ Tick
    BY <1>4, <2>4 DEF Clear, Tick
  <2> QED
    BY <2>1, <2>2, <2>3, <2>4
<1>6. (\A x \in Keys : cache'[x] = None) \/ closed' \subseteq closed
  <2>1. CASE Clear
    BY <2>1 DEF Clear, Without
  <2>2. CASE ~Clear
    BY <2>2, StillKnownOf DEF Collect, PruneRemove, EvictSample, EvictRemove, Tick
  <2> QED
    BY <2>1, <2>2
<1> QED
  BY <1>2, <1>3, <1>4, <1>5, <1>6, OthersKeep

LEMMA CacheInductive == CacheIInv /\ [CacheNext]_cacheVars => CacheIInv'
<1> SUFFICES ASSUME CacheIInv, [CacheNext]_cacheVars PROVE CacheIInv'
  OBVIOUS
<1>1. ASSUME NEW t \in Tasks, NEW k \in Keys, Call(t, k) PROVE CacheIInv'
  BY <1>1, CallKeeps
<1>2. ASSUME NEW t \in Tasks, NEW k \in Keys, NEW ttl \in Ttls, Insert(t, k, ttl) PROVE CacheIInv'
  BY <1>2, InsertKeeps, DurationsAssumption
<1>3. ASSUME NEW t \in Tasks, Step(t) PROVE CacheIInv'
  BY <1>3, LookupExpireKeeps, CloneKeeps, AcquireKeeps, WaitKeeps, CheckKeeps DEF Step
<1>4. ASSUME NEW t \in Tasks, Cancel(t) PROVE CacheIInv'
  BY <1>4, WaitKeeps
<1>5. ASSUME NEW t \in Tasks, Populate(t, "Failed", FailTtl) PROVE CacheIInv'
  BY <1>5, PopulateKeeps, DurationsAssumption
<1>6. ASSUME NEW t \in Tasks, NEW ttl \in Ttls, Populate(t, "Present", ttl) PROVE CacheIInv'
  BY <1>6, PopulateKeeps, DurationsAssumption
<1>7. CASE Collect \/ PruneRemove \/ EvictSample \/ EvictRemove \/ Clear \/ Tick
  BY <1>7, PrunerKeeps
<1>8. CASE UNCHANGED cacheVars
  <2>1. UNCHANGED <<now, task, cache, permit, closed, job>>
    BY <1>8 DEF cacheVars
  <2>2. OnlyRemoved /\ Leaves
    BY <2>1 DEF OnlyRemoved, Leaves, CacheIInv, Items
  <2>3. Items' /\ Jobs'
    BY <2>1, <2>2, RemoveKeeps
  <2> QED
    BY <2>1, <2>2, <2>3, OthersKeep
<1> QED
  BY <1>1, <1>2, <1>3, <1>4, <1>5, <1>6, <1>7, <1>8 DEF CacheNext, PruneCollect, UpdateCapacity

\* The inductive invariant: the permit of a semaphore is held once, whoever
\* populates a key holds it, its semaphore is open while the map has the item,
\* and the samples of the pruner are not pending.
THEOREM CacheInvariant == CacheSpec => []CacheIInv
BY CacheInitial, CacheInductive, PTL DEF CacheSpec

-----------------------------------------------------------------------------
\* The two halves of OnePopulator for the task t, which populates k.
Alone(t, k) ==
  \A u \in Tasks \ {t} : task[u].key = k /\ task[u].pc # "populate" => task'[u].pc # "populate"
Loses(t, k) ==
  \/ task'[t] # task[t]
  \/ HasItem(t)'
  \/ Clear
  \/ Expired(cache[k], now)
  \/ \E u \in Tasks, ttl \in Ttls : Insert(u, k, ttl)
  \/ \E u \in Tasks \ {t} : task[u].pc = "populate" /\ ~HasItem(u) /\ task'[u] = Idle

\* Only the check of a task lets it populate, and then it has found its own
\* semaphore in the map.
LEMMA BeginsByCheck ==
  ASSUME CacheIInv, [CacheNext]_cacheVars,
         NEW u \in Tasks, task[u].pc # "populate", task'[u].pc = "populate"
  PROVE  Check(u)
<1>1. task = [w \in Tasks |-> task[w]] /\ Idle.pc = "idle"
  BY IdleCall DEF CacheIInv, Calls
<1>2. ASSUME NEW w \in Tasks, NEW k \in Keys, Call(w, k) PROVE FALSE
  <2>1. \/ task' = task
        \/ \E at \in {"expire", "clone"} :
             task' = [task EXCEPT ![w] = [[Idle EXCEPT !.key = k, !.deadline = now + Timeout] EXCEPT !.pc = at]]
    BY <1>2, Zenon DEF Call
  <2> QED
    BY <1>1, <2>1 DEF Idle
<1>3. ASSUME NEW w \in Tasks, NEW k \in Keys, NEW ttl \in Ttls, Insert(w, k, ttl) PROVE FALSE
  BY <1>3 DEF Insert
<1>4. ASSUME NEW w \in Tasks, Step(w) PROVE Check(u)
  <2>0. IsCall(task[w])
    BY DEF CacheIInv, Calls
  <2>1. CASE LookupExpire(w)
    BY <1>1, <2>0, <2>1 DEF LookupExpire, IsCall
  <2>2. CASE Clone(w)
    <3>1. \E e : task' = [task EXCEPT ![w] = IF ~Pending(e) THEN Idle
              ELSE [task[w] EXCEPT !.pc = "wait", !.sema = e.sema,
                             !.stale = IF e.state = "Refreshing" THEN e.expiration ELSE None]]
      BY <1>1, <2>2 DEF Clone
    <3> QED
      BY <1>1, <2>0, <3>1 DEF IsCall
  <2>3. CASE Check(w)
    <3>1. w # u => task'[u] = task[u]
      BY <1>1, <2>3 DEF Check
    <3> QED
      BY <2>3, <3>1
  <2>4. CASE Acquire(w) \/ WaitTimeout(w)
    BY <1>1, <2>0, <2>4 DEF Acquire, WaitTimeout, IsCall
  <2> QED
    BY <1>4, <2>1, <2>2, <2>3, <2>4 DEF Step
<1>5. ASSUME NEW w \in Tasks, Cancel(w) PROVE FALSE
  BY <1>1, <1>5 DEF Cancel
<1>6. ASSUME NEW w \in Tasks, NEW st, NEW ttl, Populate(w, st, ttl) PROVE FALSE
  BY <1>1, <1>6 DEF Populate
<1>7. CASE Collect \/ PruneRemove \/ EvictSample \/ EvictRemove \/ Clear \/ Tick
  BY <1>7 DEF Collect, PruneRemove, EvictSample, EvictRemove, Clear, Tick
<1>8. CASE UNCHANGED cacheVars
  BY <1>8 DEF cacheVars
<1> QED
  BY <1>2, <1>3, <1>4, <1>5, <1>6, <1>7, <1>8 DEF CacheNext, PruneCollect, UpdateCapacity

LEMMA NobodyElseBegins ==
  ASSUME CacheIInv, [CacheNext]_cacheVars, NEW t \in Tasks, task[t].pc = "populate", HasItem(t)
  PROVE  Alone(t, task[t].key)
<1> SUFFICES ASSUME NEW u \in Tasks \ {t}, task[u].key = task[t].key,
                    task[u].pc # "populate", task'[u].pc = "populate"
             PROVE  FALSE
  BY DEF Alone
<1>1. Check(u) /\ Calls /\ Permits
  BY BeginsByCheck DEF CacheIInv
<1>2. PICK k : k = task[u].key
  OBVIOUS
<1>3. PICK e : e = Cloned(cache[k], NewSema, task[u].deadline)
  OBVIOUS
<1>4. \/ e = cache[k] \/ e.sema \in FreeSemas
  BY <1>1, <1>2, <1>3, CloneStores
<1>5. u \in permit /\ e.sema = task[u].sema
  <2>1. task'[u] = CASE ~Pending(e) -> Idle
                     [] Pending(e) /\ u \in permit /\ e.sema = task[u].sema -> [task[u] EXCEPT !.pc = "populate"]
                     [] Pending(e) /\ ~(u \in permit /\ e.sema = task[u].sema) -> Again(task[u])
    BY <1>1, <1>2, <1>3 DEF Check, Calls
  <2>2. Idle.pc # "populate" /\ Again(task[u]).pc # "populate"
    BY <1>1, IdleCall DEF Again, Calls, IsCall
  <2> QED
    BY <2>1, <2>2
<1>6. e = cache[k]
  BY <1>4, <1>5 DEF FreeSemas
<1>7. task[t].sema = task[u].sema /\ t \in permit
  BY <1>1, <1>2, <1>5, <1>6 DEF HasItem, Permits
<1> QED
  BY <1>1, <1>5, <1>7 DEF Permits

\* A pending item is left alone by whatever is stored under another key.
LEMMA PendingStays ==
  ASSUME NEW t \in Tasks, task[t].key \in Keys, HasItem(t), Pending(cache[task[t].key]), task'[t] = task[t],
         \/ cache' = cache
         \/ \E k \in Keys : \E e : Stored(k, e) /\ (k = task[t].key => e = cache[k])
  PROVE  HasItem(t)'
BY DEF HasItem, Stored

\* What is removed for having expired at a time that is over has expired.
LEMMA LaterExpired ==
  ASSUME now \in Nat, NEW time \in Int, time <= now, NEW e, e.expiration \in Nat, Expired(e, time)
  PROVE  Expired(e, now)
BY DEF Expired

LEMMA LosesOnlySo ==
  ASSUME CacheIInv, [CacheNext]_cacheVars, NEW t \in Tasks, task[t].pc = "populate", HasItem(t)
  PROVE  Loses(t, task[t].key)
<1>1. PICK k : k = task[t].key
  OBVIOUS
<1>2. /\ now \in Nat /\ Items /\ Calls /\ Jobs /\ Permits /\ Timeout \in Nat
      /\ k \in Keys /\ IsCall(task[t]) /\ t \in permit
  BY <1>1, DurationsAssumption DEF CacheIInv, Calls, IsCall, Permits
<1>3. /\ cache[k] # None /\ IsItem(cache[k]) /\ Pending(cache[k]) /\ cache[k].sema = task[t].sema
      /\ cache[k].sema \notin closed
  <2>1. cache[k] # None /\ cache[k].sema = task[t].sema /\ cache[k].sema \notin closed
    BY <1>1, <1>2 DEF HasItem, Permits
  <2>2. IsItem(cache[k]) /\ task[t].sema \in Semas
    BY <1>2, <2>1 DEF Items, IsCall
  <2> QED
    BY <2>1, <2>2, SemasAssumption DEF IsItem
<1> SUFFICES ASSUME task'[t] = task[t], ~Expired(cache[k], now), ~Clear,
                    ~(\E u \in Tasks, ttl \in Ttls : Insert(u, k, ttl)),
                    ~(\E u \in Tasks \ {t} : task[u].pc = "populate" /\ ~HasItem(u) /\ task'[u] = Idle)
             PROVE  HasItem(t)'
  BY <1>1 DEF Loses
<1>4. ASSUME cache' = cache \/ \E x \in Keys : \E e : Stored(x, e) /\ (x = k => e = cache[k]) PROVE HasItem(t)'
  BY <1>1, <1>2, <1>3, <1>4, PendingStays
<1>5. ASSUME NEW ks, Without(ks), k \notin ks PROVE HasItem(t)'
  BY <1>1, <1>2, <1>5 DEF HasItem, Without
<1>6. ASSUME NEW u \in Tasks, NEW x \in Keys, Call(u, x) PROVE HasItem(t)'
  <2>1. cache' = cache \/ Put(x, cache[x], FALSE)
    BY <1>6, Zenon DEF Call
  <2>2. Put(x, cache[x], FALSE) => Stored(x, cache[x])
    BY <1>2, PutStores
  <2> QED
    BY <1>4, <2>1, <2>2
<1>7. ASSUME NEW u \in Tasks, NEW x \in Keys, NEW ttl \in Ttls, Insert(u, x, ttl) PROVE HasItem(t)'
  <2>1. x # k /\ now' = now /\ ttl \in Nat /\ Put(x, Item("Present", None, now + ttl), TRUE)
    BY <1>7, DurationsAssumption DEF Insert
  <2>2. Stored(x, Item("Present", None, now + ttl))
    BY <2>1, ValueKeeps
  <2> QED
    BY <1>4, <2>1, <2>2
<1>8. ASSUME NEW u \in Tasks, Clone(u) \/ Check(u) PROVE HasItem(t)'
  <2>1. PICK x : x = task[u].key
    OBVIOUS
  <2>2. PICK e : e = Cloned(cache[x], NewSema, task[u].deadline)
    OBVIOUS
  <2>3. /\ x \in Keys /\ Stored(x, e)
        /\ cache[x] # None /\ Pending(cache[x]) /\ cache[x].sema \notin closed
             /\ ~Expired(cache[x], now) => e = cache[x]
    BY <1>8, <2>1, <2>2, CloneStores
  <2> QED
    BY <1>3, <1>4, <2>3
<1>9. ASSUME NEW u \in Tasks, LookupExpire(u) PROVE HasItem(t)'
  <2>1. PICK ks : Without(ks) /\ \A x \in ks : cache[x] # None /\ Expired(cache[x], task[u].deadline - Timeout)
    BY <1>9 DEF LookupExpire, Mapped
  <2>2. task[u].deadline \in Nat /\ task[u].deadline <= now + Timeout
    BY <1>2, <1>9 DEF Calls, IsCall, LookupExpire
  <2>3. k \notin ks
    BY <1>2, <1>3, <2>1, <2>2, LaterExpired DEF IsItem
  <2> QED
    BY <1>5, <2>1, <2>3
<1>10. ASSUME NEW u \in Tasks, NEW st \in {"Present", "Failed"}, NEW ttl \in Nat, Populate(u, st, ttl)
       PROVE  HasItem(t)'
  <2>1. /\ task'[u] = Idle /\ task[u].pc = "populate" /\ now' = now /\ u # t
        /\ Put(task[u].key, Item(st, None, now + ttl), TRUE)
    BY <1>2, <1>10, IdleCall DEF Populate, Calls
  <2>2. task[u].key # k
    <3>1. HasItem(u) /\ u \in permit
      BY <1>2, <2>1 DEF Permits
    <3> QED
      BY <1>2, <1>3, <2>1, <3>1 DEF HasItem, Permits
  <2>3. task[u].key \in Keys
    BY <1>2, <2>1 DEF Calls, IsCall
  <2>4. Stored(task[u].key, Item(st, None, now + ttl))
    BY <2>1, <2>3, ValueKeeps
  <2> QED
    BY <1>4, <2>2, <2>3, <2>4
<1>11. CASE PruneRemove
  <2>1. k \notin StillExpired
    BY <1>2, <1>3, LaterExpired DEF StillExpired, Jobs, IsItem
  <2> QED
    BY <1>5, <1>11, <2>1 DEF PruneRemove
<1>12. CASE EvictRemove
  <2>1. k \notin StillExpired
    BY <1>2, <1>3, LaterExpired DEF StillExpired, Jobs, IsItem
  <2>2. k \notin job.samples
    BY <1>2, <1>3 DEF Jobs
  <2>3. k \notin Oldest(lru, job.samples \cap Mapped, job.target - Cardinality(StillExpired))
    BY <2>2 DEF Oldest
  <2> QED
    BY <1>5, <1>12, <2>1, <2>3 DEF EvictRemove
<1>13. ASSUME NEW u \in Tasks, Acquire(u) \/ WaitTimeout(u) \/ Cancel(u) PROVE HasItem(t)'
  BY <1>4, <1>13 DEF Acquire, WaitTimeout, Cancel
<1>14. CASE Collect \/ EvictSample \/ Tick \/ UNCHANGED cacheVars
  BY <1>4, <1>14 DEF Collect, EvictSample, Tick, cacheVars
<1>15. ASSUME NEW u \in Tasks, Step(u) PROVE HasItem(t)'
  BY <1>8, <1>9, <1>13, <1>15 DEF Step
<1>16. FailTtl \in Nat /\ Ttls \subseteq Nat
  BY DurationsAssumption
<1> QED
  BY <1>6, <1>7, <1>10, <1>11, <1>12, <1>13, <1>14, <1>15, <1>16 DEF CacheNext, PruneCollect, UpdateCapacity

\* get_or_try_insert populates a key once at a time, whatever the callers, the
\* pruner and a purge do: a second task only begins when the first has lost its
\* item, and it only loses it to a purge, to a value put in its place, or past
\* its expiration.
THEOREM PopulatedByOne == CacheSpec => OnePopulator
<1>1. CacheIInv /\ [CacheNext]_cacheVars =>
        [\A t \in Tasks : task[t].pc = "populate" /\ HasItem(t) =>
           Alone(t, task[t].key) /\ Loses(t, task[t].key)]_cacheVars
  BY NobodyElseBegins, LosesOnlySo
<1>2. CacheIInv /\ [CacheNext]_cacheVars =>
        [\A t \in Tasks : task[t].pc = "populate" /\ HasItem(t) =>
           /\ \A u \in Tasks \ {t} :
                task[u].key = task[t].key /\ task[u].pc # "populate" => task'[u].pc # "populate"
           /\ \/ task'[t] # task[t]
              \/ HasItem(t)'
              \/ Clear
              \/ Expired(cache[task[t].key], now)
              \/ \E u \in Tasks, ttl \in Ttls : Insert(u, task[t].key, ttl)
              \/ \E u \in Tasks \ {t} : task[u].pc = "populate" /\ ~HasItem(u) /\ task'[u] = Idle]_cacheVars
  BY <1>1 DEF Alone, Loses
<1> QED
  BY <1>2, CacheInvariant, PTL DEF CacheSpec, OnePopulator
=============================================================================
