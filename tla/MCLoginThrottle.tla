--------------------------- MODULE MCLoginThrottle ---------------------------
\* Five addresses for a table of four, lockouts after two failures.
EXTENDS LoginThrottle, TLC

Addresses == Permutations(Emails)
=============================================================================
