------------------------ MODULE GdbBreakpoints_proofs ------------------------
(***************************************************************************)
(* Proofs about the breakpoint table, for every table size and address    *)
(* set: at most one live slot per address, and, when                      *)
(* OsGdbArchRemoveSwBkpt does not fail, memory holds the program wherever  *)
(* no breakpoint is armed.                                                 *)
(***************************************************************************)
EXTENDS GdbBreakpoints, WellFoundedInduction, TLAPS

USE BkptAssumption

(* The first-fit searches of GdbSetSwBkpt and GdbRemoveSwBkpt find the   *)
(* lowest matching slot: a nonempty set of naturals has a least element.   *)
LEMMA LeastIn ==
  ASSUME NEW S \in SUBSET Nat, S # {}
  PROVE  Least(S) \in S /\ \A j \in S : Least(S) <= j
<1>1. \E x \in S : \A y \in S : ~(<<y, x>> \in OpToRel(<, Nat))
  BY NatLessThanWellFounded, WFMin
<1>2. OpToRel(<, Nat) = {ss \in Nat \X Nat : ss[1] < ss[2]}
  BY Zenon DEF OpToRel
<1>3. PICK x \in S : \A y \in S : ~(<<y, x>> \in OpToRel(<, Nat))
  BY <1>1
<1>4. \A y \in S : x <= y
  <2>. TAKE y \in S
  <2>1. <<y, x>> \in Nat \X Nat
    OBVIOUS
  <2>2. ~(y < x)
    BY <1>2, <1>3, <2>1
  <2>. QED  BY <2>2
<1>. QED  BY <1>4 DEF Least

(* No slot is ACTIVE while the host is served or after k: the breakpoints  *)
(* were taken out on entry.                                                *)
Quiet == phase # "running" => \A i \in Slots : state[i] # "ACTIVE"

(* A slot that was ever set keeps a real address: GdbSetSwBkpt writes the *)
(* address together with the state, and only GdbResetBkpts clears it.    *)
AddrOK == \A i \in Slots : state[i] # "UNDEFINED" => addr[i] \in Addr

BInv == TypeOK /\ AtMostOneLive /\ Quiet /\ AddrOK

(* The restore that GdbDeactivateSwBkpts leaves at an address is the one   *)
(* of the only live slot there.                                            *)
LEMMA RestoreSource ==
  ASSUME BInv, NEW failed \in SUBSET Slots, NEW a \in Addr,
         NEW i \in Restored(failed), addr[i] = a
  PROVE  (CHOOSE k \in Restored(failed) :
            /\ addr[k] = a
            /\ \A j \in Restored(failed) : addr[j] = a => j <= k) = i
<1>1. \A j \in Restored(failed) : addr[j] = a => j = i
  BY DEF BInv, AtMostOneLive, Live, Restored
<1>2. i \in Slots
  BY DEF Restored
<1>3. /\ addr[i] = a
      /\ \A j \in Restored(failed) : addr[j] = a => j <= i
  BY <1>1, <1>2 DEF Slots
<1>. QED  BY <1>1, <1>3

(* Initially every slot is BP_UNDEFINED.                                   *)
THEOREM BInit == Init => BInv
BY DEF Init, BInv, TypeOK, AtMostOneLive, Live, Quiet, AddrOK, States, Results,
       Instr, Zero

(* Entering a session (EnterSession): every ACTIVE slot becomes SET.       *)
LEMMA BInv_EnterSession ==
  ASSUME BInv, EnterSession PROVE BInv'
<1>1. PICK failed \in Failures("remove") : Deactivate(failed)
  BY DEF EnterSession
<1>2. failed \in SUBSET Slots
  BY DEF Failures
<1>3. mem' \in [Addr -> Instr]
  <2>. SUFFICES ASSUME NEW a \in Addr, \E i \in Restored(failed) : addr[i] = a
                PROVE  saved[CHOOSE k \in Restored(failed) :
                                /\ addr[k] = a
                                /\ \A j \in Restored(failed) :
                                     addr[j] = a => j <= k] \in Instr
    BY <1>1 DEF Deactivate, BInv, TypeOK
  <2>1. PICK i \in Restored(failed) : addr[i] = a
    OBVIOUS
  <2>2. (CHOOSE k \in Restored(failed) :
           /\ addr[k] = a
           /\ \A j \in Restored(failed) : addr[j] = a => j <= k) = i
    BY <1>2, <2>1, RestoreSource
  <2>3. saved[i] \in Instr
    BY <2>1 DEF Restored, BInv, TypeOK
  <2>. QED  BY <2>2, <2>3
<1>4. state' \in [Slots -> States]
  BY <1>1 DEF Deactivate, BInv, TypeOK, States
<1>5. ASSUME NEW i \in Slots
      PROVE  /\ Live(i)' = Live(i)
             /\ state'[i] # "ACTIVE"
             /\ state'[i] # "UNDEFINED" => state[i] # "UNDEFINED"
  BY <1>1 DEF Deactivate, Live
<1>6. AtMostOneLive'
  <2>. SUFFICES ASSUME NEW i \in Slots, NEW j \in Slots,
                      state'[i] \in {"SET", "ACTIVE"},
                      state'[j] \in {"SET", "ACTIVE"}, addr[i] = addr[j]
               PROVE  i = j
    BY DEF EnterSession, AtMostOneLive, Live
  <2>1. Live(i) /\ Live(j)
    BY <1>5 DEF Live
  <2>. QED  BY <2>1 DEF BInv, AtMostOneLive
<1>8. AddrOK'
  <2>. SUFFICES ASSUME NEW i \in Slots, state'[i] # "UNDEFINED"
               PROVE  addr[i] \in Addr
    BY DEF EnterSession, AddrOK
  <2>. QED  BY <1>5 DEF BInv, AddrOK
<1>7. Quiet'
  <2>. SUFFICES ASSUME NEW i \in Slots PROVE state'[i] # "ACTIVE"
    BY DEF Quiet
  <2>. QED  BY <1>5
<1>. QED  BY <1>3, <1>4, <1>6, <1>7, <1>8 DEF EnterSession, BInv, TypeOK

(* The teardown path (ExitEntry) after k finds no ACTIVE slot.             *)
LEMMA BInv_ExitEntry ==
  ASSUME BInv, ExitEntry PROVE BInv'
<1>1. PICK failed \in Failures("remove") : Deactivate(failed)
  BY DEF ExitEntry
<1>2. Restored(failed) = {}
  BY DEF ExitEntry, BInv, Quiet, AddrOK, Restored
<1>3. state' = state /\ mem' = mem
  BY <1>1, <1>2 DEF Deactivate, BInv, Quiet, AddrOK, TypeOK, ExitEntry
<1>. QED  BY <1>3 DEF ExitEntry, BInv, TypeOK, AtMostOneLive, Live, Quiet, AddrOK

(* 'Z0' (CmdAddSw): the duplicate check sees every live slot, because in   *)
(* a session none is ACTIVE.                                               *)
LEMMA BInv_CmdAddSw ==
  ASSUME BInv, NEW a \in Addr, CmdAddSw(a) PROVE BInv'
<1>1. CASE a \in NoBkptAddr
  BY <1>1 DEF CmdAddSw, BInv, TypeOK, AtMostOneLive, Live, Quiet, AddrOK, Results
<1>2. CASE a \notin NoBkptAddr /\ \E i \in Slots : state[i] = "SET" /\ addr[i] = a
  BY <1>2 DEF CmdAddSw, SetSwBkpt, BInv, TypeOK, AtMostOneLive, Live, Quiet, AddrOK,
              Results
<1>3. CASE /\ a \notin NoBkptAddr
           /\ ~\E i \in Slots : state[i] = "SET" /\ addr[i] = a
           /\ ReusableSlots(a) \cup FreeSlots = {}
  BY <1>3 DEF CmdAddSw, SetSwBkpt, BInv, TypeOK, AtMostOneLive, Live, Quiet, AddrOK,
              Results
<1>4. CASE /\ a \notin NoBkptAddr
           /\ ~\E i \in Slots : state[i] = "SET" /\ addr[i] = a
           /\ ReusableSlots(a) \cup FreeSlots # {}
  <2>. DEFINE k == IF ReusableSlots(a) # {} THEN Least(ReusableSlots(a))
                                            ELSE Least(FreeSlots)
  <2>1. k \in Slots /\ state[k] \in {"REMOVED", "UNDEFINED"}
    <3>1. ReusableSlots(a) # {} => Least(ReusableSlots(a)) \in ReusableSlots(a)
      BY LeastIn DEF ReusableSlots, Slots
    <3>2. ReusableSlots(a) = {} => Least(FreeSlots) \in FreeSlots
      BY <1>4, LeastIn DEF FreeSlots, Slots
    <3>. QED  BY <3>1, <3>2 DEF ReusableSlots, FreeSlots
  <2>2. state' = [state EXCEPT ![k] = "SET"] /\ addr' = [addr EXCEPT ![k] = a]
        /\ ret' = "ok"
    BY <1>4 DEF CmdAddSw, SetSwBkpt
  <2>3. \A i \in Slots : Live(i) => addr[i] # a
    BY <1>4 DEF BInv, Quiet, AddrOK, CmdAddSw, Live
  <2>. QED  BY <2>1, <2>2, <2>3 DEF CmdAddSw, BInv, TypeOK, AtMostOneLive,
                                    Live, Quiet, AddrOK, Results, States
<1>. QED  BY <1>1, <1>2, <1>3, <1>4

(* 'z0' (CmdRemoveSw): a SET slot becomes REMOVED.                         *)
LEMMA BInv_CmdRemoveSw ==
  ASSUME BInv, NEW a \in Addr, CmdRemoveSw(a) PROVE BInv'
<1>1. CASE a \notin NoBkptAddr /\ \E i \in Slots : state[i] = "SET" /\ addr[i] = a
  <2>. DEFINE k == Least({i \in Slots : state[i] = "SET" /\ addr[i] = a})
  <2>1. k \in Slots
    BY <1>1, LeastIn DEF Slots
  <2>2. state' = [state EXCEPT ![k] = "REMOVED"] /\ ret' = "ok"
    BY <1>1 DEF CmdRemoveSw, RemoveSwBkpt
  <2>3. state[k] = "SET"
    BY <1>1, LeastIn DEF Slots
  <2>4. state' \in [Slots -> States]
    BY <2>1, <2>2 DEF BInv, TypeOK, States
  <2>5. ASSUME NEW i \in Slots
        PROVE  /\ Live(i)' => Live(i)
               /\ state'[i] # "ACTIVE"
               /\ state'[i] # "UNDEFINED" => state[i] # "UNDEFINED"
    BY <2>1, <2>2, <2>3 DEF BInv, Quiet, CmdRemoveSw, Live
  <2>6. AtMostOneLive'
    <3>. SUFFICES ASSUME NEW i \in Slots, NEW j \in Slots,
                        state'[i] \in {"SET", "ACTIVE"},
                        state'[j] \in {"SET", "ACTIVE"}, addr[i] = addr[j]
                 PROVE  i = j
      BY DEF CmdRemoveSw, AtMostOneLive, Live
    <3>1. Live(i) /\ Live(j)
      BY <2>5 DEF Live
    <3>. QED  BY <3>1 DEF BInv, AtMostOneLive
  <2>7. AddrOK'
    <3>. SUFFICES ASSUME NEW i \in Slots, state'[i] # "UNDEFINED"
                 PROVE  addr[i] \in Addr
      BY DEF CmdRemoveSw, AddrOK
    <3>. QED  BY <2>5 DEF BInv, AddrOK
  <2>8. Quiet'
    <3>. SUFFICES ASSUME NEW i \in Slots PROVE state'[i] # "ACTIVE"
      BY DEF Quiet
    <3>. QED  BY <2>5
  <2>. QED  BY <2>2, <2>4, <2>6, <2>7, <2>8 DEF CmdRemoveSw, BInv, TypeOK, Results
<1>2. CASE ~(a \notin NoBkptAddr /\ \E i \in Slots : state[i] = "SET" /\ addr[i] = a)
  BY <1>2 DEF CmdRemoveSw, RemoveSwBkpt, BInv, TypeOK, AtMostOneLive, Live,
              Quiet, AddrOK, Results
<1>. QED  BY <1>1, <1>2

(* 'M' (CmdMemWrite) changes memory only.                                  *)
LEMMA BInv_CmdMemWrite ==
  ASSUME BInv, NEW a \in Addr, NEW v \in Values, CmdMemWrite(a, v) PROVE BInv'
BY DEF CmdMemWrite, BInv, TypeOK, AtMostOneLive, Live, Quiet, AddrOK, Instr

(* 'c'/'s' (Resume): the SET slots whose arming succeeds become ACTIVE.    *)
LEMMA BInv_Resume ==
  ASSUME BInv, Resume PROVE BInv'
<1>1. PICK failed \in Failures("set") : Activate(failed)
  BY DEF Resume
<1>2. failed \in SUBSET Slots
  BY DEF Failures
<1>3. state' \in [Slots -> States] /\ AtMostOneLive' /\ Quiet' /\ AddrOK'
  BY <1>1 DEF Resume, Activate, Armed, BInv, TypeOK, States, AtMostOneLive,
              Live, Quiet, AddrOK
<1>4. saved' \in [Slots -> Instr]
  <2>1. \A i \in Armed(failed) : mem[addr[i]] \in Instr
    BY DEF Armed, BInv, TypeOK, AddrOK
  <2>. QED  BY <1>1, <2>1 DEF Activate, BInv, TypeOK, Instr
<1>5. mem' \in [Addr -> Instr]
  BY <1>1 DEF Activate, BInv, TypeOK, Instr
<1>. QED  BY <1>3, <1>4, <1>5 DEF Resume, BInv, TypeOK

(* 'k' (Kill): every slot becomes BP_UNDEFINED.                            *)
LEMMA BInv_Kill ==
  ASSUME BInv, Kill PROVE BInv'
BY DEF Kill, BInv, TypeOK, AtMostOneLive, Live, Quiet, AddrOK, States

THEOREM BNext == BInv /\ [Next]_vars => BInv'
<1>. SUFFICES ASSUME BInv, [Next]_vars PROVE BInv'
  OBVIOUS
<1>1. CASE UNCHANGED vars
  BY <1>1 DEF vars, BInv, TypeOK, AtMostOneLive, Live, Quiet, AddrOK
<1>. QED  BY <1>1, BInv_EnterSession, BInv_ExitEntry, BInv_CmdAddSw,
             BInv_CmdRemoveSw, BInv_CmdMemWrite, BInv_Resume, BInv_Kill
          DEF Next

THEOREM BSpec == Spec => []BInv
BY BInit, BNext, PTL DEF Spec

(* Type correctness of the breakpoint table and memory, for every table    *)
(* size.                                                                   *)
THEOREM BkptTypeCorrect == Spec => []TypeOK
BY BSpec, PTL DEF BInv

(* Spec 3: never two live slots for one address, for every table size,    *)
(* although GdbSetSwBkpt's duplicate check only looks at BP_SET slots.     *)
THEOREM OneLivePerAddress == Spec => []AtMostOneLive
BY BSpec, PTL DEF BInv

-----------------------------------------------------------------------------
(* When OsGdbArchRemoveSwBkpt cannot fail, memory stays faithful to the    *)
(* program.  MInv adds MemFaithful to BInv; Quiet is what makes the       *)
(* session steps easy: while the host is served memory equals the program. *)
MInv == BInv /\ MemFaithful

RemoveNeverFails == "remove" \notin ArchFails

(* In a session or after k, memory is the program itself.                 *)
LEMMA QuietMem ==
  ASSUME MInv, phase # "running" PROVE \A a \in Addr : mem[a] = prog[a]
BY DEF MInv, BInv, Quiet, MemFaithful

LEMMA MInit == Init => MInv
<1>. SUFFICES ASSUME Init PROVE MInv
  OBVIOUS
<1>1. BInv
  BY BInit
<1>. QED  BY <1>1 DEF Init, MInv, MemFaithful

(* Entering a session restores every ACTIVE slot's saved instruction.     *)
LEMMA MInv_EnterSession ==
  ASSUME RemoveNeverFails, MInv, EnterSession PROVE MInv'
<1>1. Deactivate({})
  BY DEF EnterSession, Failures, RemoveNeverFails
<1>2. BInv'
  BY BInv_EnterSession DEF MInv
<1>3. ASSUME NEW a \in Addr PROVE mem'[a] = prog[a]
  <2>1. CASE \E i \in Restored({}) : addr[i] = a
    <3>1. PICK i \in Restored({}) : addr[i] = a
      BY <2>1
    <3>2. mem'[a] = saved[i]
      BY <1>1, <2>1, <3>1, RestoreSource DEF Deactivate, MInv
    <3>. QED  BY <3>1, <3>2 DEF Restored, MInv, MemFaithful
  <2>2. CASE ~\E i \in Restored({}) : addr[i] = a
    BY <1>1, <2>2 DEF Deactivate, Restored, MInv, MemFaithful
  <2>. QED  BY <2>1, <2>2
<1>. QED  BY <1>2, <1>3 DEF EnterSession, MInv, BInv, Quiet, MemFaithful

(* Resuming arms every SET slot at a distinct address, saving the program. *)
LEMMA MInv_Resume ==
  ASSUME MInv, Resume PROVE MInv'
<1>1. PICK failed \in Failures("set") : Activate(failed)
  BY DEF Resume
<1>2. BInv'
  BY BInv_Resume DEF MInv
<1>3. \A a \in Addr : mem[a] = prog[a]
  BY QuietMem DEF Resume
<1>4. \A i \in Slots : state'[i] = "ACTIVE" <=> i \in Armed(failed)
  BY <1>1 DEF Activate, Armed, Resume, MInv, BInv, Quiet
<1>5. \A i, j \in Armed(failed) : addr[i] = addr[j] => i = j
  BY DEF Armed, MInv, BInv, AtMostOneLive, Live
<1>6. ASSUME NEW i \in Armed(failed) PROVE saved'[i] = prog[addr[i]]
  <2>1. addr[i] \in Addr
    BY DEF Armed, MInv, BInv, AddrOK
  <2>2. ~\E j \in Armed(failed) : j < i /\ addr[j] = addr[i]
    BY <1>5 DEF Armed, Slots
  <2>. QED  BY <1>1, <1>3, <2>1, <2>2 DEF Activate, Armed
<1>7. ASSUME NEW a \in Addr
      PROVE  mem'[a] = IF \E i \in Slots : state'[i] = "ACTIVE" /\ addr'[i] = a
                         THEN Trap ELSE prog'[a]
  BY <1>1, <1>3, <1>4 DEF Activate, Resume, Armed
<1>. QED  BY <1>2, <1>4, <1>6, <1>7 DEF MInv, MemFaithful, Resume

THEOREM MNext == RemoveNeverFails /\ MInv /\ [Next]_vars => MInv'
<1>. SUFFICES ASSUME RemoveNeverFails, MInv, [Next]_vars PROVE MInv'
  OBVIOUS
<1>1. CASE UNCHANGED vars
  BY <1>1, BNext DEF vars, MInv, MemFaithful
<1>2. CASE EnterSession
  BY <1>2, MInv_EnterSession
<1>3. CASE ExitEntry
  <2>2. mem' = mem /\ \A i \in Slots : state'[i] = state[i]
    BY <1>3 DEF ExitEntry, Deactivate, MInv, BInv, Quiet, Restored, TypeOK
  <2>. QED  BY <1>3, <2>2, BInv_ExitEntry DEF ExitEntry, MInv, MemFaithful
<1>4. CASE Resume
  BY <1>4, MInv_Resume
<1>5. CASE Kill
  BY <1>5, BInv_Kill, QuietMem DEF Kill, MInv, MemFaithful
<1>6. CASE \E a \in Addr : CmdAddSw(a) \/ CmdRemoveSw(a)
  <2>1. PICK a \in Addr : CmdAddSw(a) \/ CmdRemoveSw(a)
    BY <1>6
  <2>2. BInv'
    BY <2>1, BInv_CmdAddSw, BInv_CmdRemoveSw DEF MInv
  <2>3. \A i \in Slots : state'[i] # "ACTIVE"
    BY <2>2, <2>1 DEF BInv, Quiet, CmdAddSw, CmdRemoveSw
  <2>4. mem' = mem /\ prog' = prog /\ phase = "session"
    BY <2>1 DEF CmdAddSw, CmdRemoveSw
  <2>5. \A b \in Addr : mem'[b] = prog'[b]
    BY <2>4, QuietMem
  <2>. QED  BY <2>2, <2>3, <2>5 DEF MInv, MemFaithful
<1>7. CASE \E a \in Addr, v \in Values : CmdMemWrite(a, v)
  <2>1. PICK a \in Addr, v \in Values : CmdMemWrite(a, v)
    BY <1>7
  <2>2. BInv'
    BY <2>1, BInv_CmdMemWrite DEF MInv
  <2>3. \A i \in Slots : state'[i] # "ACTIVE"
    BY <2>1 DEF MInv, BInv, Quiet, CmdMemWrite
  <2>. QED  BY <2>1, <2>2, <2>3, QuietMem DEF CmdMemWrite, MInv, MemFaithful,
                                              BInv, TypeOK
<1>. QED  BY <1>1, <1>2, <1>3, <1>4, <1>5, <1>6, <1>7 DEF Next

(* Spec 4.3 step 7 and the round-trip law of spec 8, for every table size: *)
(* if OsGdbArchRemoveSwBkpt never fails, memory always holds the program   *)
(* except at armed breakpoints, whose saved instruction is the program's.  *)
(* (With a failing remove it does not hold: run breakpoints_restore.)      *)
THEOREM MemoryFaithful == RemoveNeverFails => (Spec => []MemFaithful)
<1>. SUFFICES ASSUME RemoveNeverFails PROVE Spec => []MemFaithful
  OBVIOUS
<1>1. Init => MInv
  BY MInit
<1>2. MInv /\ [Next]_vars => MInv'
  BY MNext
<1>. QED  BY <1>1, <1>2, PTL DEF Spec, MInv
=============================================================================
