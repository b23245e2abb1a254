----------------------------- MODULE MCTaskPeriod -----------------------------
(* Periodic tasks with 3-bit ticks (8 values), so that the tick count and *)
(* idate - now wrap within a few ticks.  TM_NOW is 0, as in the Xenomai   *)
(* API this one follows.                                                   *)
EXTENDS TaskPeriod
=============================================================================
