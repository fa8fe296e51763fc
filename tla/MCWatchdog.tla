------------------------------ MODULE MCWatchdog ------------------------------
(* A supervisor that gives up after three workers, and one that never does.     *)
EXTENDS Watchdog

MCLimits == {0, 3}
=============================================================================
