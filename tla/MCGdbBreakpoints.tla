--------------------------- MODULE MCGdbBreakpoints ---------------------------
(* Small instances of GdbBreakpoints for TLC: two slots and four addresses, *)
(* one of them protected, so the table fills while a fresh address is left. *)
EXTENDS GdbBreakpoints

MCAddr == {1, 2, 3, 4}
MCNoBkpt == {4}
MCWrite == {1}
MCValues == {"v0", "v1"}
MCSetFails == {"set"}
MCAllFail == {"set", "remove"}
=============================================================================
