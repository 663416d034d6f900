----------------------------- MODULE MCLeaseSet -----------------------------
EXTENDS LeaseSet
=============================================================================
