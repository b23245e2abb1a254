---------------------------- MODULE GdbBreakpoints ----------------------------
(***************************************************************************)
(* The software breakpoint table of the gdbstub (g_breaks, GdbSetSwBkpt,   *)
(* GdbRemoveSwBkpt, GdbActivateSwBkpts, GdbDeactivateSwBkpts,              *)
(* GdbResetBkpts) and the memory it patches, as the master core drives it: *)
(* breakpoints are taken out on entry to a session, the host adds and      *)
(* removes breakpoints and writes memory, and c/s put them back in while   *)
(* k resets the table for good.                                            *)
(*                                                                         *)
(* Memory is one instruction per address.  prog[a] is a ghost: what the    *)
(* program holds at a, i.e. what memory would hold with no breakpoint.     *)
(***************************************************************************)
EXTENDS Integers, FiniteSets

CONSTANTS
  NSlots,      \* GDB_MAX_BREAKPOINTS
  Addr,        \* addresses the host names, a finite set of positive naturals
  NoBkptAddr,  \* addresses inside a GDB_MEM_REGION_NO_BKPT region
  WriteAddr,   \* addresses inside a writable region (GdbInvalidWriteAddr)
  Values,      \* instructions a program or the host can put in memory
  ArchFails    \* which of OsGdbArchSetSwBkpt ("set") and
               \* OsGdbArchRemoveSwBkpt ("remove") may return an error

ASSUME BkptAssumption ==
  /\ NSlots \in Nat \ {0}
  /\ IsFiniteSet(Addr) /\ Addr \subseteq Nat \ {0}
  /\ NoBkptAddr \subseteq Addr /\ WriteAddr \subseteq Addr
  /\ Values # {}
  /\ ArchFails \subseteq {"set", "remove"}

Slots == 0 .. NSlots - 1
Trap  == "trap"   \* the breakpoint instruction OsGdbArchSetSwBkpt writes
Zero  == "zero"   \* the zero-initialised saved_instr of an unused slot
Instr == Values \cup {Trap, Zero}

VARIABLES
  state,   \* g_breaks[i].state: "UNDEFINED", "SET", "ACTIVE" or "REMOVED"
  addr,    \* g_breaks[i].addr
  saved,   \* the original instruction the arch layer keeps in g_breaks[i]
  mem,     \* memory contents
  prog,    \* ghost: the program's own contents
  phase,   \* "running", "session" (the master serves the host), "exited"
  ret      \* the result of the last Z0/z0 command

vars == <<state, addr, saved, mem, prog, phase, ret>>

States == {"UNDEFINED", "SET", "ACTIVE", "REMOVED"}
Results == {"none", "ok", "EEXIST", "E2BIG", "EINVAL", "ENOENT"}

Init ==
  /\ state = [i \in Slots |-> "UNDEFINED"]
  /\ addr = [i \in Slots |-> 0]
  /\ saved = [i \in Slots |-> Zero]
  /\ \E v \in Values : prog = [a \in Addr |-> v]
  /\ mem = prog
  /\ phase = "running"
  /\ ret = "none"

-----------------------------------------------------------------------------
(* The arch calls of one sweep that fail: any subset of the slots it       *)
(* visits if that call may fail, none otherwise.                           *)
Failures(call) == IF call \in ArchFails THEN SUBSET Slots ELSE {{}}

(* GdbDeactivateSwBkpts (lines 325-339): every ACTIVE slot is restored by  *)
(* OsGdbArchRemoveSwBkpt and set back to BP_SET, whether or not the call   *)
(* succeeded.  Slots are visited in index order, so where two restores hit *)
(* one address the higher slot's write is the one that stays.              *)
Restored(failed) == {i \in Slots : state[i] = "ACTIVE" /\ i \notin failed}

(* Mutant: OsGdbArchRemoveSwBkpt left out of the sweep.                   *)
DeactivateNoRestore(failed) ==
  /\ state' = [i \in Slots |-> IF state[i] = "ACTIVE" THEN "SET" ELSE state[i]]
  /\ mem' = mem

Deactivate(failed) ==
  /\ state' = [i \in Slots |-> IF state[i] = "ACTIVE" THEN "SET" ELSE state[i]]
  /\ mem' = [a \in Addr |->
               IF \E i \in Restored(failed) : addr[i] = a
                 THEN saved[CHOOSE i \in Restored(failed) :
                              /\ addr[i] = a
                              /\ \A j \in Restored(failed) :
                                   addr[j] = a => j <= i]
                 ELSE mem[a]]

(* GdbActivateSwBkpts (lines 303-323): every SET slot whose                *)
(* OsGdbArchSetSwBkpt succeeds saves the instruction at its address,       *)
(* writes the trap and becomes BP_ACTIVE; a failed slot stays BP_SET.      *)
(* In index order a later slot at an already patched address saves the    *)
(* trap.                                                                   *)
Armed(failed) == {i \in Slots : state[i] = "SET" /\ i \notin failed}

Activate(failed) ==
  /\ state' = [i \in Slots |-> IF i \in Armed(failed) THEN "ACTIVE" ELSE state[i]]
  /\ saved' = [i \in Slots |->
                 IF i \notin Armed(failed) THEN saved[i]
                 ELSE IF \E j \in Armed(failed) : j < i /\ addr[j] = addr[i]
                        THEN Trap
                        ELSE mem[addr[i]]]
  /\ mem' = [a \in Addr |->
               IF \E i \in Armed(failed) : addr[i] = a THEN Trap ELSE mem[a]]

-----------------------------------------------------------------------------
(* OsGdbCpuEnter line 993 (and the single-core OsGdbHandleException, line  *)
(* 1042): once every core is in, take the breakpoints out, then serve.     *)
EnterSession ==
  /\ phase = "running"
  /\ \E failed \in Failures("remove") : Deactivate(failed)
  /\ phase' = "session"
  /\ UNCHANGED <<addr, saved, prog, ret>>

(* OsGdbCpuEnter lines 924-931: after k every entry takes the teardown     *)
(* path, which calls GdbDeactivateSwBkpts again and resumes the core.      *)
ExitEntry ==
  /\ phase = "exited"
  /\ \E failed \in Failures("remove") : Deactivate(failed)
  /\ UNCHANGED <<addr, saved, prog, phase, ret>>

(* GdbSetSwBkpt (lines 266-301).  The duplicate check only looks at        *)
(* BP_SET slots; a BP_REMOVED slot at the same address is reused, else the *)
(* first BP_UNDEFINED slot; with neither the table is full.                *)
ReusableSlots(a) == {i \in Slots : state[i] = "REMOVED" /\ addr[i] = a}
FreeSlots == {i \in Slots : state[i] = "UNDEFINED"}
Least(S) == CHOOSE i \in S : \A j \in S : i <= j

(* Mutant: the duplicate check of lines 271-275 left out.                 *)
SetSwBkptNoDup(a) ==
  IF ReusableSlots(a) \cup FreeSlots = {}
    THEN ret' = "E2BIG" /\ UNCHANGED <<state, addr>>
  ELSE LET k == IF ReusableSlots(a) # {} THEN Least(ReusableSlots(a))
                                         ELSE Least(FreeSlots)
       IN /\ state' = [state EXCEPT ![k] = "SET"]
          /\ addr' = [addr EXCEPT ![k] = a]
          /\ ret' = "ok"

(* Mutant: the breakno == -1 test of line 293 left out: a full table      *)
(* writes g_breaks[-1], outside the table.                                *)
SetSwBkptNoFullCheck(a) ==
  IF \E i \in Slots : state[i] = "SET" /\ addr[i] = a
    THEN ret' = "EEXIST" /\ UNCHANGED <<state, addr>>
  ELSE LET k == IF ReusableSlots(a) # {} THEN Least(ReusableSlots(a))
                ELSE IF FreeSlots # {} THEN Least(FreeSlots) ELSE -1
       IN /\ state' = [i \in Slots \cup {k} |-> IF i = k THEN "SET" ELSE state[i]]
          /\ addr' = [i \in Slots \cup {k} |-> IF i = k THEN a ELSE addr[i]]
          /\ ret' = "ok"

SetSwBkpt(a) ==
  IF \E i \in Slots : state[i] = "SET" /\ addr[i] = a
    THEN ret' = "EEXIST" /\ UNCHANGED <<state, addr>>
  ELSE IF ReusableSlots(a) \cup FreeSlots = {}
    THEN ret' = "E2BIG" /\ UNCHANGED <<state, addr>>
  ELSE LET k == IF ReusableSlots(a) # {} THEN Least(ReusableSlots(a))
                                         ELSE Least(FreeSlots)
       IN /\ state' = [state EXCEPT ![k] = "SET"]
          /\ addr' = [addr EXCEPT ![k] = a]
          /\ ret' = "ok"

(* 'Z0,addr,kind' (GdbCmdBreak -> GdbAddBkpt, lines 373-385 and 501-530):  *)
(* an address in a no-breakpoint region is refused.                        *)
CmdAddSw(a) ==
  /\ phase = "session"
  /\ IF a \in NoBkptAddr THEN ret' = "EINVAL" /\ UNCHANGED <<state, addr>>
                         ELSE SetSwBkpt(a)
  /\ UNCHANGED <<saved, mem, prog, phase>>

(* GdbRemoveSwBkpt (lines 341-353): the first BP_SET slot at the address   *)
(* becomes BP_REMOVED.                                                     *)
RemoveSwBkpt(a) ==
  IF \E i \in Slots : state[i] = "SET" /\ addr[i] = a
    THEN /\ state' = [state EXCEPT
                        ![Least({i \in Slots : state[i] = "SET" /\ addr[i] = a})]
                          = "REMOVED"]
         /\ ret' = "ok"
    ELSE ret' = "ENOENT" /\ UNCHANGED state

(* 'z0,addr,kind' (GdbCmdBreak -> GdbRemoveBkpt, lines 387-399).           *)
CmdRemoveSw(a) ==
  /\ phase = "session"
  /\ IF a \in NoBkptAddr THEN ret' = "EINVAL" /\ UNCHANGED state
                         ELSE RemoveSwBkpt(a)
  /\ UNCHANGED <<addr, saved, mem, prog, phase>>

(* 'M addr,len:val' (GdbCmdMemWrite, lines 475-496): a write to a writable *)
(* address changes the program there.                                      *)
CmdMemWrite(a, v) ==
  /\ phase = "session"
  /\ a \in WriteAddr
  /\ mem' = [mem EXCEPT ![a] = v]
  /\ prog' = [prog EXCEPT ![a] = v]
  /\ UNCHANGED <<state, addr, saved, phase, ret>>

(* 'c' or 's' ends the session; OsGdbCpuEnter line 996 puts the            *)
(* breakpoints back in before the cores resume.                            *)
Resume ==
  /\ phase = "session"
  /\ \E failed \in Failures("set") : Activate(failed)
  /\ phase' = "running"
  /\ UNCHANGED <<addr, prog, ret>>

(* 'k' (GdbCmdExit, lines 771-781): GdbResetBkpts (lines 355-365) marks    *)
(* every slot BP_UNDEFINED; the GdbActivateSwBkpts that follows at line    *)
(* 996 then finds nothing to arm.                                          *)
Kill ==
  /\ phase = "session"
  /\ state' = [i \in Slots |-> "UNDEFINED"]
  /\ phase' = "exited"
  /\ UNCHANGED <<addr, saved, mem, prog, ret>>

Next ==
  \/ EnterSession \/ ExitEntry \/ Resume \/ Kill
  \/ \E a \in Addr : CmdAddSw(a) \/ CmdRemoveSw(a)
  \/ \E a \in Addr, v \in Values : CmdMemWrite(a, v)

Spec == Init /\ [][Next]_vars

-----------------------------------------------------------------------------
TypeOK ==
  /\ state \in [Slots -> States]
  /\ addr \in [Slots -> Addr \cup {0}]
  /\ saved \in [Slots -> Instr]
  /\ mem \in [Addr -> Instr]
  /\ prog \in [Addr -> Values]
  /\ phase \in {"running", "session", "exited"}
  /\ ret \in Results

Live(i) == state[i] \in {"SET", "ACTIVE"}

(* Spec 3: at most one slot is SET or ACTIVE for an address, although the *)
(* duplicate check of GdbSetSwBkpt looks at BP_SET slots only and removed  *)
(* slots are reused.                                                       *)
AtMostOneLive ==
  \A i, j \in Slots : Live(i) /\ Live(j) /\ addr[i] = addr[j] => i = j

(* Spec 4.3 step 7 and the round-trip law of spec 8: memory holds the      *)
(* program everywhere but at an ACTIVE breakpoint, which holds the trap    *)
(* and keeps the program's instruction to put back.  This is about         *)
(* GdbActivateSwBkpts / GdbDeactivateSwBkpts over many sessions, host      *)
(* writes and reuse of slots.                                              *)
MemFaithful ==
  /\ \A a \in Addr :
       mem[a] = IF \E i \in Slots : state[i] = "ACTIVE" /\ addr[i] = a
                  THEN Trap ELSE prog[a]
  /\ \A i \in Slots : state[i] = "ACTIVE" => saved[i] = prog[addr[i]]
=============================================================================
