--------------------------- MODULE MCPlayerDatabase ---------------------------
\* Small instances of PlayerDatabase.
EXTENDS PlayerDatabase

\* SAVE_CONFIG in checks: high 15 seconds, medium 30; low shortened from 4
\* checks to 3, and standby from 20 (5 minutes) to 4.
IntervalValue == [p \in STANDBY .. HIGH |->
                     CASE p = STANDBY -> 4 [] p = LOW -> 3 [] p = MEDIUM -> 2
                       [] p = HIGH -> 1]

=============================================================================
