------------------------------ MODULE MCLruTtl ------------------------------
EXTENDS LruTtl
=============================================================================
