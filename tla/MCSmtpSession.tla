--------------------------- MODULE MCSmtpSession ---------------------------
EXTENDS SmtpSession
CONSTANTS r1, r2
MCDomain == [r \in {r1, r2} |-> "d"]
=============================================================================
