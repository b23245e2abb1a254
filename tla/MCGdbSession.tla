----------------------------- MODULE MCGdbSession -----------------------------
(* Small instances of GdbSession for TLC: three cores, 4-bit addresses     *)
(* (0 .. 15), the OS section 2 .. 13 holding the stub text 4 .. 9 and the  *)
(* stub data 10 .. 11, a 2-byte breakpoint instruction.                    *)
EXTENDS GdbSession

(* A packet: its first byte, the parsed numbers, the q/H sub-command, the  *)
(* hex byte pairs of an M payload and whether its separators are there.    *)
Pkt(ch, a, b, t, sub, pay, sep) ==
  [ch |-> ch, a |-> a, b |-> b, t |-> t, sub |-> sub, pay |-> pay, sep |-> sep]
Cmd(ch)      == Pkt(ch, 0, 0, 0, "", 0, TRUE)
Mem(ch, a, n, pay) == Pkt(ch, a, n, 0, "", pay, TRUE)
Brk(ch, t, a) == Pkt(ch, a, 0, t, "", 0, TRUE)
Sub(ch, sub, a) == Pkt(ch, a, 0, 0, sub, 0, TRUE)

MCSafetyPackets ==
  { Cmd("chk"), Cmd(""), Cmd("?"), Cmd("g"), Cmd("G"), Cmd("c"), Cmd("s"),
    Cmd("k"), Cmd("j"), Cmd("R"), Cmd("x"),
    Mem("m", 3, 2, 0), Mem("m", 3, OsGdbHex2U64(TRUE, 1), 0),
    Pkt("m", 3, 2, 0, "", 0, FALSE), Mem("m", 0, 1, 0),
    Mem("M", 5, 2, 2), Mem("M", 5, 2, 1), Mem("M", 9, 0, 0),
    Brk("Z", 0, 12), Brk("Z", 0, 6), Brk("Z", 2, 12), Brk("z", 0, 12),
    Brk("Z", 1, 12), Pkt("Z", 12, 0, 0, "", 0, FALSE),
    Sub("q", "fThreadInfo", 0), Sub("q", "sThreadInfo", 0),
    Sub("q", "fOther", 0), Sub("q", "C", 0), Sub("q", "other", 0),
    Sub("H", "g", 1), Sub("H", "g", 2), Sub("H", "c", OsGdbHex2U64(TRUE, 1)),
    Sub("H", "g", 5), Sub("H", "s", 0), Sub("H", "x", 1),
    Sub("T", "", 2), Sub("T", "", 7) }

(* Reads and breakpoints near the ends of the regions: an 'm' whose span  *)
(* wraps past the top of the address space, a Z0 in the last instruction   *)
(* slot of the stub text and one in the stub data.                         *)
MCRegionPackets ==
  { Mem("m", 3, 4, 0), Mem("m", 12, 6, 0),
    Brk("Z", 0, 6), Brk("Z", 0, 9), Brk("Z", 0, 10) }

(* What the host may touch: the packets near the ends of the regions, and *)
(* 'H g -1' next to an explicit 'H g 1'.                                   *)
MCHostPackets ==
  MCRegionPackets \cup
  { Sub("H", "g", OsGdbHex2U64(TRUE, 1)), Sub("H", "g", 1), Cmd("g") }
=============================================================================
