------------------------- MODULE GdbRendezvous_proofs -------------------------
(***************************************************************************)
(* Proofs about the gdbstub rendezvous, for every finite set of cores.     *)
(* IInv (GdbRendezvous) is inductive; from it follow the type invariant,   *)
(* the accounting of the atomic counters g_dbgMasters / g_dbgSlaves, and   *)
(* exclusive host access.                                                  *)
(***************************************************************************)
EXTENDS GdbRendezvous, FiniteSetTheorems, TLAPS

USE CoreAssumption

(* The counted sets are finite sets of cores.                              *)
LEMMA CountedFinite ==
  ASSUME pc \in [Core -> PCs], excState \in [Core -> SUBSET {WantMaster, IsSlave}]
  PROVE  /\ IsFiniteSet(MastersIn) /\ Cardinality(MastersIn) \in Nat
         /\ IsFiniteSet(SlavesIn)  /\ Cardinality(SlavesIn) \in Nat
<1>1. MastersIn \subseteq Core /\ SlavesIn \subseteq Core
  BY DEF MastersIn, SlavesIn
<1>2. IsFiniteSet(MastersIn) /\ IsFiniteSet(SlavesIn)
  BY <1>1, FS_Subset
<1>. QED  BY <1>2, FS_CardinalityType

(* Initially no core is in the handler: both counted sets are empty.       *)
THEOREM InitIInv == Init => IInv
<1>. SUFFICES ASSUME Init PROVE IInv
  OBVIOUS
<1>1. TypeOK
  <2>1. Cardinality(Core \ LateCores) \in Nat
    BY FS_Subset, FS_CardinalityType
  <2>. QED  BY <2>1 DEF Init, TypeOK, PCs
<1>2. RoleOK
  <2>. SUFFICES ASSUME NEW c \in Core PROVE pc[c] = "run" /\ excState[c] = {}
    BY DEF RoleOK, MasterPCs
  <2>. QED  BY DEF Init
<1>3. MastersIn = {} /\ SlavesIn = {}
  BY DEF Init, MastersIn, SlavesIn, CountedPCs, MasterPCs
<1>4. CountersAccount
  BY <1>3, FS_EmptySet DEF Init, CountersAccount
<1>5. LockOK
  BY DEF Init, LockOK, MasterPCs
<1>6. SessionOK
  BY DEF Init, SessionOK
<1>. QED  BY <1>1, <1>2, <1>4, <1>5, <1>6 DEF IInv

(* SmpArchInit, OsGdbStubSmpInit: OsGdbSmpArchInit on a late core: no core enters or leaves a counted set. *)
LEMMA IInv_SmpArchInit ==
  ASSUME IInv, NEW c \in Core, SmpArchInit(c)
  PROVE  IInv'
<1>1. TypeOK'
  BY DEF IInv, TypeOK, PCs, SmpArchInit, Goto
<1>2. RoleOK'
  BY DEF IInv, TypeOK, RoleOK, Roles, MasterPCs, SmpArchInit, Goto
<1>3. MastersIn' = MastersIn /\ SlavesIn' = SlavesIn
  BY DEF IInv, TypeOK, MastersIn, SlavesIn, CountedPCs, MasterPCs, SmpArchInit, Goto
<1>4. CountersAccount'
  BY <1>3 DEF IInv, CountersAccount, SmpArchInit
<1>5. LockOK'
  BY DEF IInv, TypeOK, LockOK, MasterPCs, SmpArchInit, Goto
<1>9. SessionOK'
  BY DEF IInv, TypeOK, LockOK, SessionOK, MasterPCs, SmpArchInit, Goto
<1>. QED  BY <1>1, <1>2, <1>4, <1>5, <1>9 DEF IInv

(* SmpRegister, OsGdbStubSmpInit: the late core goes online: no core enters or leaves a counted set. *)
LEMMA IInv_SmpRegister ==
  ASSUME IInv, NEW c \in Core, SmpRegister(c)
  PROVE  IInv'
<1>1. TypeOK'
  BY DEF IInv, TypeOK, PCs, SmpRegister, Goto
<1>2. RoleOK'
  BY DEF IInv, TypeOK, RoleOK, Roles, MasterPCs, SmpRegister, Goto
<1>3. MastersIn' = MastersIn /\ SlavesIn' = SlavesIn
  BY DEF IInv, TypeOK, MastersIn, SlavesIn, CountedPCs, MasterPCs, SmpRegister, Goto
<1>4. CountersAccount'
  BY <1>3 DEF IInv, CountersAccount, SmpRegister
<1>5. LockOK'
  BY DEF IInv, TypeOK, LockOK, MasterPCs, SmpRegister, Goto
<1>9. SessionOK'
  BY DEF IInv, TypeOK, LockOK, SessionOK, MasterPCs, SmpRegister, Goto
<1>. QED  BY <1>1, <1>2, <1>4, <1>5, <1>9 DEF IInv

(* BreakTrap, a breakpoint trap: no core enters or leaves a counted set. *)
LEMMA IInv_BreakTrap ==
  ASSUME IInv, NEW c \in Core, BreakTrap(c)
  PROVE  IInv'
<1>1. TypeOK'
  BY DEF IInv, TypeOK, PCs, BreakTrap, TrapAs, TakeRoundup, Goto
<1>2. RoleOK'
  BY DEF IInv, TypeOK, RoleOK, Roles, MasterPCs, BreakTrap, TrapAs, TakeRoundup, Goto
<1>3. MastersIn' = MastersIn /\ SlavesIn' = SlavesIn
  BY DEF IInv, TypeOK, MastersIn, SlavesIn, CountedPCs, MasterPCs, BreakTrap, TrapAs, TakeRoundup, Goto
<1>4. CountersAccount'
  BY <1>3 DEF IInv, CountersAccount, BreakTrap, TrapAs, TakeRoundup
<1>5. LockOK'
  BY DEF IInv, TypeOK, LockOK, MasterPCs, BreakTrap, TrapAs, TakeRoundup, Goto
<1>9. SessionOK'
  BY DEF IInv, TypeOK, LockOK, SessionOK, MasterPCs, BreakTrap, TrapAs, TakeRoundup, Goto
<1>. QED  BY <1>1, <1>2, <1>4, <1>5, <1>9 DEF IInv

(* StepTrap, a single-step trap: no core enters or leaves a counted set. *)
LEMMA IInv_StepTrap ==
  ASSUME IInv, NEW c \in Core, StepTrap(c)
  PROVE  IInv'
<1>1. TypeOK'
  BY DEF IInv, TypeOK, PCs, StepTrap, TrapAs, TakeRoundup, Goto
<1>2. RoleOK'
  BY DEF IInv, TypeOK, RoleOK, Roles, MasterPCs, StepTrap, TrapAs, TakeRoundup, Goto
<1>3. MastersIn' = MastersIn /\ SlavesIn' = SlavesIn
  BY DEF IInv, TypeOK, MastersIn, SlavesIn, CountedPCs, MasterPCs, StepTrap, TrapAs, TakeRoundup, Goto
<1>4. CountersAccount'
  BY <1>3 DEF IInv, CountersAccount, StepTrap, TrapAs, TakeRoundup
<1>5. LockOK'
  BY DEF IInv, TypeOK, LockOK, MasterPCs, StepTrap, TrapAs, TakeRoundup, Goto
<1>9. SessionOK'
  BY DEF IInv, TypeOK, LockOK, SessionOK, MasterPCs, StepTrap, TrapAs, TakeRoundup, Goto
<1>. QED  BY <1>1, <1>2, <1>4, <1>5, <1>9 DEF IInv

(* ForcedTrap, a round-up trap: no core enters or leaves a counted set. *)
LEMMA IInv_ForcedTrap ==
  ASSUME IInv, NEW c \in Core, ForcedTrap(c)
  PROVE  IInv'
<1>1. TypeOK'
  BY DEF IInv, TypeOK, PCs, ForcedTrap, TrapAs, Goto
<1>2. RoleOK'
  BY DEF IInv, TypeOK, RoleOK, Roles, MasterPCs, ForcedTrap, TrapAs, Goto
<1>3. MastersIn' = MastersIn /\ SlavesIn' = SlavesIn
  BY DEF IInv, TypeOK, MastersIn, SlavesIn, CountedPCs, MasterPCs, ForcedTrap, TrapAs, Goto
<1>4. CountersAccount'
  BY <1>3 DEF IInv, CountersAccount, ForcedTrap, TrapAs
<1>5. LockOK'
  BY DEF IInv, TypeOK, LockOK, MasterPCs, ForcedTrap, TrapAs, Goto
<1>9. SessionOK'
  BY DEF IInv, TypeOK, LockOK, SessionOK, MasterPCs, ForcedTrap, TrapAs, Goto
<1>. QED  BY <1>1, <1>2, <1>4, <1>5, <1>9 DEF IInv

(* CheckExit, the g_exitDbg test: no core enters or leaves a counted set. *)
LEMMA IInv_CheckExit ==
  ASSUME IInv, NEW c \in Core, CheckExit(c)
  PROVE  IInv'
<1>1. TypeOK'
  BY DEF IInv, TypeOK, PCs, CheckExit, Goto
<1>2. RoleOK'
  BY DEF IInv, TypeOK, RoleOK, Roles, MasterPCs, CheckExit, Goto
<1>3. MastersIn' = MastersIn /\ SlavesIn' = SlavesIn
  BY DEF IInv, TypeOK, MastersIn, SlavesIn, CountedPCs, MasterPCs, CheckExit, Goto
<1>4. CountersAccount'
  BY <1>3 DEF IInv, CountersAccount, CheckExit
<1>5. LockOK'
  BY DEF IInv, TypeOK, LockOK, MasterPCs, CheckExit, Goto
<1>9. SessionOK'
  BY DEF IInv, TypeOK, LockOK, SessionOK, MasterPCs, CheckExit, Goto
<1>. QED  BY <1>1, <1>2, <1>4, <1>5, <1>9 DEF IInv

(* ExitPath, the teardown path: no core enters or leaves a counted set. *)
LEMMA IInv_ExitPath ==
  ASSUME IInv, NEW c \in Core, ExitPath(c)
  PROVE  IInv'
<1>1. TypeOK'
  BY DEF IInv, TypeOK, PCs, ExitPath, Goto
<1>2. RoleOK'
  BY DEF IInv, TypeOK, RoleOK, Roles, MasterPCs, ExitPath, Goto
<1>3. MastersIn' = MastersIn /\ SlavesIn' = SlavesIn
  BY DEF IInv, TypeOK, MastersIn, SlavesIn, CountedPCs, MasterPCs, ExitPath, Goto
<1>4. CountersAccount'
  BY <1>3 DEF IInv, CountersAccount, ExitPath
<1>5. LockOK'
  BY DEF IInv, TypeOK, LockOK, MasterPCs, ExitPath, Goto
<1>9. SessionOK'
  BY DEF IInv, TypeOK, LockOK, SessionOK, MasterPCs, ExitPath, Goto
<1>. QED  BY <1>1, <1>2, <1>4, <1>5, <1>9 DEF IInv

(* AcquireMaster, the master trylock: no core enters or leaves a counted set. *)
LEMMA IInv_AcquireMaster ==
  ASSUME IInv, NEW c \in Core, AcquireMaster(c)
  PROVE  IInv'
<1>1. TypeOK'
  BY DEF IInv, TypeOK, PCs, AcquireMaster, Goto
<1>2. RoleOK'
  BY DEF IInv, TypeOK, RoleOK, Roles, MasterPCs, AcquireMaster, Goto
<1>3. MastersIn' = MastersIn /\ SlavesIn' = SlavesIn
  BY DEF IInv, TypeOK, MastersIn, SlavesIn, CountedPCs, MasterPCs, AcquireMaster, Goto
<1>4. CountersAccount'
  BY <1>3 DEF IInv, CountersAccount, AcquireMaster
<1>5. LockOK'
  BY DEF IInv, TypeOK, LockOK, MasterPCs, AcquireMaster, Goto
<1>9. SessionOK'
  BY DEF IInv, TypeOK, LockOK, SessionOK, MasterPCs, AcquireMaster, Goto
<1>. QED  BY <1>1, <1>2, <1>4, <1>5, <1>9 DEF IInv

(* SlaveRelease, a slave seeing g_dbgSlaveLock free: no core enters or leaves a counted set. *)
LEMMA IInv_SlaveRelease ==
  ASSUME IInv, NEW c \in Core, SlaveRelease(c)
  PROVE  IInv'
<1>1. TypeOK'
  BY DEF IInv, TypeOK, PCs, SlaveRelease, Goto
<1>2. RoleOK'
  BY DEF IInv, TypeOK, RoleOK, Roles, MasterPCs, SlaveRelease, Goto
<1>3. MastersIn' = MastersIn /\ SlavesIn' = SlavesIn
  BY DEF IInv, TypeOK, MastersIn, SlavesIn, CountedPCs, MasterPCs, SlaveRelease, Goto
<1>4. CountersAccount'
  BY <1>3 DEF IInv, CountersAccount, SlaveRelease
<1>5. LockOK'
  BY DEF IInv, TypeOK, LockOK, MasterPCs, SlaveRelease, Goto
<1>9. SessionOK'
  BY DEF IInv, TypeOK, LockOK, SessionOK, MasterPCs, SlaveRelease, Goto
<1>. QED  BY <1>1, <1>2, <1>4, <1>5, <1>9 DEF IInv

(* SsCheck, the single-step check: no core enters or leaves a counted set. *)
LEMMA IInv_SsCheck ==
  ASSUME IInv, NEW c \in Core, SsCheck(c)
  PROVE  IInv'
<1>1. TypeOK'
  BY DEF IInv, TypeOK, PCs, SsCheck
<1>2. RoleOK'
  BY DEF IInv, TypeOK, RoleOK, Roles, MasterPCs, SsCheck
<1>3. MastersIn' = MastersIn /\ SlavesIn' = SlavesIn
  BY DEF IInv, TypeOK, MastersIn, SlavesIn, CountedPCs, MasterPCs, SsCheck
<1>4. CountersAccount'
  BY <1>3 DEF IInv, CountersAccount, SsCheck
<1>5. LockOK'
  BY DEF IInv, TypeOK, LockOK, MasterPCs, SsCheck
<1>9. SessionOK'
  BY DEF IInv, TypeOK, LockOK, SessionOK, MasterPCs, SsCheck
<1>. QED  BY <1>1, <1>2, <1>4, <1>5, <1>9 DEF IInv

(* LockSlave, raw_spin_lock(&g_dbgSlaveLock): no core enters or leaves a counted set. *)
LEMMA IInv_LockSlave ==
  ASSUME IInv, NEW c \in Core, LockSlave(c)
  PROVE  IInv'
<1>1. TypeOK'
  BY DEF IInv, TypeOK, PCs, LockSlave, Goto
<1>2. RoleOK'
  BY DEF IInv, TypeOK, RoleOK, Roles, MasterPCs, LockSlave, Goto
<1>3. MastersIn' = MastersIn /\ SlavesIn' = SlavesIn
  BY DEF IInv, TypeOK, MastersIn, SlavesIn, CountedPCs, MasterPCs, LockSlave, Goto
<1>4. CountersAccount'
  BY <1>3 DEF IInv, CountersAccount, LockSlave
<1>5. LockOK'
  BY DEF IInv, TypeOK, LockOK, MasterPCs, LockSlave, Goto
<1>9. SessionOK'
  BY DEF IInv, TypeOK, LockOK, SessionOK, MasterPCs, LockSlave, Goto
<1>. QED  BY <1>1, <1>2, <1>4, <1>5, <1>9 DEF IInv

(* Roundup, GdbRoundupCores: no core enters or leaves a counted set. *)
LEMMA IInv_Roundup ==
  ASSUME IInv, NEW c \in Core, Roundup(c)
  PROVE  IInv'
<1>1. TypeOK'
  BY DEF IInv, TypeOK, PCs, Roundup, RoundupTargets, Goto
<1>2. RoleOK'
  BY DEF IInv, TypeOK, RoleOK, Roles, MasterPCs, Roundup, RoundupTargets, Goto
<1>3. MastersIn' = MastersIn /\ SlavesIn' = SlavesIn
  BY DEF IInv, TypeOK, MastersIn, SlavesIn, CountedPCs, MasterPCs, Roundup, RoundupTargets, Goto
<1>4. CountersAccount'
  BY <1>3 DEF IInv, CountersAccount, Roundup, RoundupTargets
<1>5. LockOK'
  BY DEF IInv, TypeOK, LockOK, MasterPCs, Roundup, RoundupTargets, Goto
<1>9. SessionOK'
  BY DEF IInv, TypeOK, LockOK, SessionOK, MasterPCs, Roundup, RoundupTargets, Goto
<1>. QED  BY <1>1, <1>2, <1>4, <1>5, <1>9 DEF IInv

(* WaitAll, the end of the rendezvous wait: no core enters or leaves a counted set. *)
LEMMA IInv_WaitAll ==
  ASSUME IInv, NEW c \in Core, WaitAll(c)
  PROVE  IInv'
<1>1. TypeOK'
  BY DEF IInv, TypeOK, PCs, WaitAll, Goto
<1>2. RoleOK'
  BY DEF IInv, TypeOK, RoleOK, Roles, MasterPCs, WaitAll, Goto
<1>3. MastersIn' = MastersIn /\ SlavesIn' = SlavesIn
  BY DEF IInv, TypeOK, MastersIn, SlavesIn, CountedPCs, MasterPCs, WaitAll, Goto
<1>4. CountersAccount'
  BY <1>3 DEF IInv, CountersAccount, WaitAll
<1>5. LockOK'
  BY DEF IInv, TypeOK, LockOK, MasterPCs, WaitAll, Goto
<1>9. SessionOK'
  BY DEF IInv, TypeOK, LockOK, SessionOK, MasterPCs, WaitAll, Goto
<1>. QED  BY <1>1, <1>2, <1>4, <1>5, <1>9 DEF IInv

(* CmdContinue, 'c': no core enters or leaves a counted set. *)
LEMMA IInv_CmdContinue ==
  ASSUME IInv, NEW c \in Core, CmdContinue(c)
  PROVE  IInv'
<1>1. TypeOK'
  BY DEF IInv, TypeOK, PCs, CmdContinue, Goto
<1>2. RoleOK'
  BY DEF IInv, TypeOK, RoleOK, Roles, MasterPCs, CmdContinue, Goto
<1>3. MastersIn' = MastersIn /\ SlavesIn' = SlavesIn
  BY DEF IInv, TypeOK, MastersIn, SlavesIn, CountedPCs, MasterPCs, CmdContinue, Goto
<1>4. CountersAccount'
  BY <1>3 DEF IInv, CountersAccount, CmdContinue
<1>5. LockOK'
  BY DEF IInv, TypeOK, LockOK, MasterPCs, CmdContinue, Goto
<1>9. SessionOK'
  BY DEF IInv, TypeOK, LockOK, SessionOK, MasterPCs, CmdContinue, Goto
<1>. QED  BY <1>1, <1>2, <1>4, <1>5, <1>9 DEF IInv

(* CmdStep, 's': no core enters or leaves a counted set. *)
LEMMA IInv_CmdStep ==
  ASSUME IInv, NEW c \in Core, CmdStep(c)
  PROVE  IInv'
<1>1. TypeOK'
  BY DEF IInv, TypeOK, PCs, CmdStep, Goto
<1>2. RoleOK'
  BY DEF IInv, TypeOK, RoleOK, Roles, MasterPCs, CmdStep, Goto
<1>3. MastersIn' = MastersIn /\ SlavesIn' = SlavesIn
  BY DEF IInv, TypeOK, MastersIn, SlavesIn, CountedPCs, MasterPCs, CmdStep, Goto
<1>4. CountersAccount'
  BY <1>3 DEF IInv, CountersAccount, CmdStep
<1>5. LockOK'
  BY DEF IInv, TypeOK, LockOK, MasterPCs, CmdStep, Goto
<1>9. SessionOK'
  BY DEF IInv, TypeOK, LockOK, SessionOK, MasterPCs, CmdStep, Goto
<1>. QED  BY <1>1, <1>2, <1>4, <1>5, <1>9 DEF IInv

(* CmdKill, 'k': no core enters or leaves a counted set. *)
LEMMA IInv_CmdKill ==
  ASSUME IInv, NEW c \in Core, CmdKill(c)
  PROVE  IInv'
<1>1. TypeOK'
  BY DEF IInv, TypeOK, PCs, CmdKill, Goto
<1>2. RoleOK'
  BY DEF IInv, TypeOK, RoleOK, Roles, MasterPCs, CmdKill, Goto
<1>3. MastersIn' = MastersIn /\ SlavesIn' = SlavesIn
  BY DEF IInv, TypeOK, MastersIn, SlavesIn, CountedPCs, MasterPCs, CmdKill, Goto
<1>4. CountersAccount'
  BY <1>3 DEF IInv, CountersAccount, CmdKill
<1>5. LockOK'
  BY DEF IInv, TypeOK, LockOK, MasterPCs, CmdKill, Goto
<1>9. SessionOK'
  BY DEF IInv, TypeOK, LockOK, SessionOK, MasterPCs, CmdKill, Goto
<1>. QED  BY <1>1, <1>2, <1>4, <1>5, <1>9 DEF IInv

(* Activate, GdbActivateSwBkpts and the slave unlock: no core enters or leaves a counted set. *)
LEMMA IInv_Activate ==
  ASSUME IInv, NEW c \in Core, Activate(c)
  PROVE  IInv'
<1>1. TypeOK'
  BY DEF IInv, TypeOK, PCs, Activate, Goto
<1>2. RoleOK'
  BY DEF IInv, TypeOK, RoleOK, Roles, MasterPCs, Activate, Goto
<1>3. MastersIn' = MastersIn /\ SlavesIn' = SlavesIn
  BY DEF IInv, TypeOK, MastersIn, SlavesIn, CountedPCs, MasterPCs, Activate, Goto
<1>4. CountersAccount'
  BY <1>3 DEF IInv, CountersAccount, Activate
<1>5. LockOK'
  BY DEF IInv, TypeOK, LockOK, MasterPCs, Activate, Goto
<1>9. SessionOK'
  BY DEF IInv, TypeOK, LockOK, SessionOK, MasterPCs, Activate, Goto
<1>. QED  BY <1>1, <1>2, <1>4, <1>5, <1>9 DEF IInv

(* WaitSlaves, the wait for the slaves to drain: no core enters or leaves a counted set. *)
LEMMA IInv_WaitSlaves ==
  ASSUME IInv, NEW c \in Core, WaitSlaves(c)
  PROVE  IInv'
<1>1. TypeOK'
  BY DEF IInv, TypeOK, PCs, WaitSlaves, Goto
<1>2. RoleOK'
  BY DEF IInv, TypeOK, RoleOK, Roles, MasterPCs, WaitSlaves, Goto
<1>3. MastersIn' = MastersIn /\ SlavesIn' = SlavesIn
  BY DEF IInv, TypeOK, MastersIn, SlavesIn, CountedPCs, MasterPCs, WaitSlaves, Goto
<1>4. CountersAccount'
  BY <1>3 DEF IInv, CountersAccount, WaitSlaves
<1>5. LockOK'
  BY DEF IInv, TypeOK, LockOK, MasterPCs, WaitSlaves, Goto
<1>9. SessionOK'
  BY DEF IInv, TypeOK, LockOK, SessionOK, MasterPCs, WaitSlaves, Goto
<1>. QED  BY <1>1, <1>2, <1>4, <1>5, <1>9 DEF IInv

(* Unlock, the master unlock: no core enters or leaves a counted set. *)
LEMMA IInv_Unlock ==
  ASSUME IInv, NEW c \in Core, Unlock(c)
  PROVE  IInv'
<1>1. TypeOK'
  BY DEF IInv, TypeOK, PCs, Unlock, Goto
<1>2. RoleOK'
  BY DEF IInv, TypeOK, RoleOK, Roles, MasterPCs, Unlock, Goto
<1>3. MastersIn' = MastersIn /\ SlavesIn' = SlavesIn
  BY DEF IInv, TypeOK, MastersIn, SlavesIn, CountedPCs, MasterPCs, Unlock, Goto
<1>4. CountersAccount'
  BY <1>3 DEF IInv, CountersAccount, Unlock
<1>5. LockOK'
  BY DEF IInv, TypeOK, LockOK, MasterPCs, Unlock, Goto
<1>9. SessionOK'
  BY DEF IInv, TypeOK, LockOK, SessionOK, MasterPCs, Unlock, Goto
<1>. QED  BY <1>1, <1>2, <1>4, <1>5, <1>9 DEF IInv

(* 'H' (CmdSetThread) selects an online core and touches nothing counted.  *)
LEMMA IInv_CmdSetThread ==
  ASSUME IInv, NEW c \in Core, NEW t \in Core \cup {NoCore}, CmdSetThread(c, t)
  PROVE  IInv'
<1>1. TypeOK'
  BY DEF IInv, TypeOK, CmdSetThread
<1>2. RoleOK'
  BY DEF IInv, RoleOK, CmdSetThread
<1>3. MastersIn' = MastersIn /\ SlavesIn' = SlavesIn
  BY DEF MastersIn, SlavesIn, CmdSetThread
<1>4. CountersAccount'
  BY <1>3 DEF IInv, CountersAccount, CmdSetThread
<1>5. LockOK'
  BY DEF IInv, LockOK, CmdSetThread
<1>9. SessionOK'
  BY DEF IInv, TypeOK, LockOK, SessionOK, MasterPCs, CmdSetThread
<1>. QED  BY <1>1, <1>2, <1>4, <1>5, <1>9 DEF IInv

(* atomic_inc (Increment): the core joins the counted set of its role, and *)
(* the counter of that role grows by one.                                  *)
LEMMA IInv_Increment ==
  ASSUME IInv, NEW c \in Core, Increment(c)
  PROVE  IInv'
<1>. USE DEF IInv
<1>1. TypeOK'
  BY DEF TypeOK, PCs, Increment, Goto
<1>2. RoleOK'
  BY DEF TypeOK, RoleOK, Roles, MasterPCs, Increment, Goto
<1>3. c \notin MastersIn /\ c \notin SlavesIn
  BY DEF Increment, Goto, MastersIn, SlavesIn, CountedPCs, MasterPCs
<1>4. /\ IsFiniteSet(MastersIn) /\ Cardinality(MastersIn) \in Nat
      /\ IsFiniteSet(SlavesIn)  /\ Cardinality(SlavesIn) \in Nat
  BY CountedFinite DEF TypeOK
<1>5. CountersAccount'
  <2>1. CASE excState[c] = {WantMaster}
    <3>1. MastersIn' = MastersIn \cup {c} /\ SlavesIn' = SlavesIn
      BY <2>1 DEF TypeOK, MastersIn, SlavesIn, CountedPCs, MasterPCs,
                  Increment, Goto
    <3>2. masters' = masters + 1 /\ slaves' = slaves
      BY <2>1 DEF Increment
    <3>. QED  BY <1>3, <1>4, <3>1, <3>2, FS_AddElement DEF CountersAccount
  <2>2. CASE excState[c] # {WantMaster}
    <3>1. SlavesIn' = SlavesIn \cup {c} /\ MastersIn' = MastersIn
      BY <2>2 DEF TypeOK, MastersIn, SlavesIn, CountedPCs, MasterPCs,
                  Increment, Goto
    <3>2. slaves' = slaves + 1 /\ masters' = masters
      BY <2>2 DEF Increment
    <3>. QED  BY <1>3, <1>4, <3>1, <3>2, FS_AddElement DEF CountersAccount
  <2>. QED  BY <2>1, <2>2
<1>6. LockOK'
  BY DEF TypeOK, LockOK, MasterPCs, Increment, Goto
<1>9. SessionOK'
  BY DEF IInv, TypeOK, LockOK, SessionOK, MasterPCs, Increment, Goto
<1>. QED  BY <1>1, <1>2, <1>5, <1>6, <1>9

(* GdbReturnNormal (ReturnNormal): the slave leaves the counted set and    *)
(* atomic_dec(&g_dbgSlaves) keeps the count; it cannot go below zero.      *)
LEMMA IInv_ReturnNormal ==
  ASSUME IInv, NEW c \in Core, ReturnNormal(c)
  PROVE  IInv'
<1>. USE DEF IInv
<1>1. c \in SlavesIn
  BY DEF TypeOK, RoleOK, ReturnNormal, Goto, SlavesIn, CountedPCs,
         WantMaster, IsSlave
<1>2. /\ IsFiniteSet(SlavesIn) /\ Cardinality(SlavesIn) \in Nat
  BY CountedFinite DEF TypeOK
<1>3. SlavesIn' = SlavesIn \ {c} /\ MastersIn' = MastersIn
  BY DEF TypeOK, RoleOK, MastersIn, SlavesIn, CountedPCs, MasterPCs,
         ReturnNormal, Goto, WantMaster, IsSlave
<1>4. Cardinality(SlavesIn \ {c}) = slaves - 1 /\ slaves - 1 \in Nat
  <2>1. IsFiniteSet(SlavesIn \ {c})
    BY <1>2, FS_RemoveElement
  <2>2. Cardinality(SlavesIn \ {c}) \in Nat
    BY <2>1, FS_CardinalityType
  <2>3. Cardinality(SlavesIn \ {c}) = Cardinality(SlavesIn) - 1
    BY <1>1, <1>2, FS_RemoveElement
  <2>. QED  BY <2>2, <2>3 DEF CountersAccount
<1>5. TypeOK'
  BY <1>4 DEF TypeOK, PCs, ReturnNormal, Goto
<1>6. RoleOK'
  BY DEF TypeOK, RoleOK, Roles, MasterPCs, ReturnNormal, Goto
<1>7. CountersAccount'
  BY <1>3, <1>4 DEF CountersAccount, ReturnNormal
<1>8. LockOK'
  BY DEF TypeOK, LockOK, MasterPCs, ReturnNormal, Goto
<1>9. SessionOK'
  BY DEF IInv, TypeOK, LockOK, SessionOK, MasterPCs, ReturnNormal, Goto
<1>. QED  BY <1>5, <1>6, <1>7, <1>8, <1>9

(* Leaving the handler as master (Leave): the core leaves the counted set  *)
(* and atomic_dec(&g_dbgMasters) keeps the count.                          *)
LEMMA IInv_Leave ==
  ASSUME IInv, NEW c \in Core, Leave(c)
  PROVE  IInv'
<1>. USE DEF IInv
<1>1. c \in MastersIn
  BY DEF TypeOK, RoleOK, Leave, Goto, MastersIn, CountedPCs, MasterPCs
<1>2. /\ IsFiniteSet(MastersIn) /\ Cardinality(MastersIn) \in Nat
  BY CountedFinite DEF TypeOK
<1>3. MastersIn' = MastersIn \ {c} /\ SlavesIn' = SlavesIn
  BY DEF TypeOK, RoleOK, MastersIn, SlavesIn, CountedPCs, MasterPCs,
         Leave, Goto
<1>4. Cardinality(MastersIn \ {c}) = masters - 1 /\ masters - 1 \in Nat
  <2>1. IsFiniteSet(MastersIn \ {c})
    BY <1>2, FS_RemoveElement
  <2>2. Cardinality(MastersIn \ {c}) \in Nat
    BY <2>1, FS_CardinalityType
  <2>3. Cardinality(MastersIn \ {c}) = Cardinality(MastersIn) - 1
    BY <1>1, <1>2, FS_RemoveElement
  <2>. QED  BY <2>2, <2>3 DEF CountersAccount
<1>5. TypeOK'
  BY <1>4 DEF TypeOK, PCs, Leave, Goto
<1>6. RoleOK'
  BY DEF TypeOK, RoleOK, Roles, MasterPCs, Leave, Goto
<1>7. CountersAccount'
  BY <1>3, <1>4 DEF CountersAccount, Leave
<1>8. LockOK'
  BY DEF TypeOK, LockOK, MasterPCs, Leave, Goto
<1>9. SessionOK'
  BY DEF IInv, TypeOK, LockOK, SessionOK, MasterPCs, Leave, Goto
<1>. QED  BY <1>5, <1>6, <1>7, <1>8, <1>9

(* The whole step: IInv is preserved by every step of every core and by a  *)
(* stuttering step.                                                        *)
THEOREM NextIInv == IInv /\ [Next]_vars => IInv'
<1>. SUFFICES ASSUME IInv, [Next]_vars PROVE IInv'
  OBVIOUS
<1>1. ASSUME NEW c \in Core, HandlerStep(c) PROVE IInv'
  BY <1>1, IInv_CheckExit, IInv_ExitPath, IInv_Increment, IInv_AcquireMaster,
     IInv_SlaveRelease, IInv_ReturnNormal, IInv_SsCheck, IInv_LockSlave,
     IInv_Roundup, IInv_WaitAll, IInv_Activate, IInv_WaitSlaves, IInv_Leave,
     IInv_Unlock DEF HandlerStep
<1>2. ASSUME NEW c \in Core, HostCommand(c) PROVE IInv'
  BY <1>2, IInv_CmdSetThread, IInv_CmdContinue, IInv_CmdStep, IInv_CmdKill
  DEF HostCommand
<1>3. ASSUME NEW c \in Core,
             \/ SmpArchInit(c) \/ SmpRegister(c)
             \/ BreakTrap(c) \/ StepTrap(c) \/ ForcedTrap(c)
      PROVE IInv'
  BY <1>3, IInv_SmpArchInit, IInv_SmpRegister, IInv_BreakTrap, IInv_StepTrap,
     IInv_ForcedTrap
<1>4. CASE UNCHANGED vars
  BY <1>4 DEF vars, IInv, TypeOK, RoleOK, CountersAccount, MastersIn,
              SlavesIn, LockOK, SessionOK
<1>. QED  BY <1>1, <1>2, <1>3, <1>4 DEF Next

(* IInv holds in every reachable state.                                    *)
THEOREM SpecIInv == Spec => []IInv
BY InitIInv, NextIInv, PTL DEF Spec

(* The type invariant, for every finite set of cores.                      *)
THEOREM TypeCorrect == Spec => []TypeOK
<1>1. IInv => TypeOK
  BY DEF IInv
<1>. QED  BY SpecIInv, <1>1, PTL

(* g_dbgMasters and g_dbgSlaves always equal the number of cores between   *)
(* their atomic_inc and atomic_dec in OsGdbCpuEnter, for any core count:   *)
(* the rendezvous test masters + slaves = onlineCores counts real cores.   *)
THEOREM CountersExact == Spec => []CountersAccount
<1>1. IInv => CountersAccount
  BY DEF IInv
<1>. QED  BY SpecIInv, <1>1, PTL

(* At most one core serves the host: the g_dbgMasterLock trylock and the   *)
(* give-back on a foreign single step never let two masters through.       *)
THEOREM HostExclusive == Spec => []ExclusiveHost
<1>1. IInv => ExclusiveHost
  BY DEF IInv, LockOK, ExclusiveHost, Serving, MasterPCs
<1>. QED  BY SpecIInv, <1>1, PTL

(* While g_ssCoreId names a core, only that core serves the host.          *)
THEOREM StepExclusiveHolds == Spec => []StepExclusive
<1>1. IInv => StepExclusive
  BY DEF IInv, SessionOK, StepExclusive, Serving
<1>. QED  BY SpecIInv, <1>1, PTL

(* While a master serves the host, g_dbgSlaveLock is held.                 *)
THEOREM SlavesHeldHolds == Spec => []SlavesHeld
<1>1. IInv => SlavesHeld
  BY DEF IInv, SessionOK, SlavesHeld, Serving
<1>. QED  BY SpecIInv, <1>1, PTL
=============================================================================
