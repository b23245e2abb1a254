-------------------------- MODULE MCGdbRendezvous --------------------------
(* Model-checking instance of GdbRendezvous.                              *)
EXTENDS GdbRendezvous

MCCore2 == {0, 1}
MCCore3 == {0, 1, 2}
MCLate == {2}
=============================================================================
