------------------------------- MODULE Timer -------------------------------
(***************************************************************************)
(* What the scheduled queues need of a timer: a message that was accepted  *)
(* and not taken back is handed out once, never before it is due and never *)
(* more than Slack after that, provided that somebody asks.                *)
(***************************************************************************)
EXTENDS Naturals

CONSTANTS
  Msgs,     \* messages
  Never,    \* the due time of a message that is not in the timer
  Slack     \* how late the timer may be

VARIABLES
  now,      \* the time
  pending,  \* the due times of the messages in the timer
  out       \* the messages a pop has just handed out, or Never after another step

timerVars == <<now, pending, out>>

TimerInit ==
  /\ now = 0
  /\ pending = [m \in Msgs |-> Never]
  /\ out = Never

Pending == {m \in Msgs : pending[m] # Never}

Tick ==
  /\ now' = now + 1
  /\ out' = Never
  /\ UNCHANGED pending

\* A message that is due later is accepted, and this is its only due time.
Put(m) ==
  /\ pending'[m] # Never
  /\ pending'[m] > now
  /\ \A k \in Msgs \ {m} : pending'[k] = pending[k]
  /\ out' = Never
  /\ UNCHANGED now

\* Messages are taken back by cancel, drain or retain.
TakeBack(S) ==
  /\ pending' = [m \in Msgs |-> IF m \in S THEN Never ELSE pending[m]]
  /\ out' = Never
  /\ UNCHANGED now

HandOut(S) ==
  /\ \A m \in S : pending[m] <= now
  /\ \A m \in Pending \ S : pending[m] + Slack > now
  /\ pending' = [m \in Msgs |-> IF m \in S THEN Never ELSE pending[m]]
  /\ out' = S
  /\ UNCHANGED now

TimerNext ==
  \/ Tick
  \/ \E m \in Msgs : Put(m)
  \/ \E S \in SUBSET Pending : TakeBack(S) \/ HandOut(S)

TimerSpec == TimerInit /\ [][TimerNext]_timerVars
=============================================================================
