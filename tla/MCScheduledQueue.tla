-------------------------- MODULE MCScheduledQueue --------------------------
EXTENDS ScheduledQueue
=============================================================================
