---------------------------- MODULE GdbRendezvous ----------------------------
(***************************************************************************)
(* The multi-core stop-the-world rendezvous of the gdbstub                 *)
(* (src/src/component/gdbstub/gdbstub_common.c, OS_OPTION_SMP build).      *)
(*                                                                         *)
(* Every core that takes a debug exception runs OsGdbCpuEnter.  A core     *)
(* that hit a breakpoint (or finished a single step) enters as             *)
(* DCPU_WANT_MASTER, a core forced in by GdbRoundupCores as DCPU_IS_SLAVE. *)
(* The master takes g_dbgMasterLock, takes g_dbgSlaveLock to hold the      *)
(* slaves, rounds up the missing cores, waits until g_dbgMasters +         *)
(* g_dbgSlaves equals the online count it read on entry, serves the host,  *)
(* then releases the slaves and waits for g_dbgSlaves to drain.            *)
(*                                                                         *)
(* One action per step of the C code that touches shared state; pc[c] is   *)
(* the point of OsGdbCpuEnter core c is at ("run" = outside the handler).  *)
(* The host session is abstracted to the commands that change rendezvous   *)
(* state: H (select core), c, s and k.                                     *)
(***************************************************************************)
EXTENDS Naturals, FiniteSets

CONSTANTS
  Core,       \* core ids (OsGdbGetCoreID), a finite set of naturals
  FirstCore,  \* g_firstCoreId = g_cfgPrimaryCore
  LateCores,  \* cores that run OsGdbStubSmpInit after the system started
  NoCore      \* the value -1 of g_ssCoreId: no core is single-stepping

ASSUME CoreAssumption ==
  /\ IsFiniteSet(Core)
  /\ Core \subseteq Nat
  /\ FirstCore \in Core
  /\ LateCores \subseteq Core \ {FirstCore}
  /\ NoCore \notin Core

WantMaster == "WantMaster"   \* DCPU_WANT_MASTER
IsSlave    == "IsSlave"      \* DCPU_IS_SLAVE

VARIABLES
  pc,           \* pc[c]: where core c is in OsGdbHandleException/OsGdbCpuEnter
  excState,     \* g_excState[c]: subset of {WantMaster, IsSlave}
  snap,         \* the local onlineCores read by OsGdbCpuEnter on entry
  mode,         \* how the architecture resumes c: "cont" or "step"
  forced,       \* cores with a pending OsGdbArchForceStep round-up request
  masters,      \* g_dbgMasters
  slaves,       \* g_dbgSlaves
  masterLock,   \* g_dbgMasterLock is locked
  slaveLock,    \* g_dbgSlaveLock is locked
  exitDbg,      \* g_exitDbg
  ssCoreId,     \* g_ssCoreId
  ssFlg,        \* g_ssFlg
  gCoreId,      \* g_coreId: the core the host operates on
  gPrevCoreId,  \* g_prevCoreId: the master of the current session
  archInit,     \* cores on which OsGdbSmpArchInit has run
  online,       \* g_onlineBitmap
  onlineCnt     \* g_onlineCores

vars == <<pc, excState, snap, mode, forced, masters, slaves, masterLock,
          slaveLock, exitDbg, ssCoreId, ssFlg, gCoreId, gPrevCoreId,
          archInit, online, onlineCnt>>

PCs == {"run", "enter", "count", "exit", "acquire", "retNormal", "ssCheck",
        "lockSlave", "roundup", "waitAll", "serve", "activate", "waitSlaves",
        "leave", "unlock"}

(* The points of OsGdbCpuEnter at which a core holds g_dbgMasterLock.      *)
MasterPCs == {"ssCheck", "lockSlave", "roundup", "waitAll", "serve",
              "activate", "waitSlaves", "leave", "unlock"}

(* Points at which a core is inside the handler and counted in one of the  *)
(* two atomic counters (between atomic_inc and atomic_dec).                *)
CountedPCs == {"acquire", "retNormal"} \cup (MasterPCs \ {"unlock"})

(* Cores GdbRoundupCores forces: g_firstCoreId .. OS_MAX_CORE_NUM-1 but c. *)
RoundupTargets(c) == {d \in Core : d >= FirstCore} \ {c}

Goto(c, from, to) ==
  /\ pc[c] = from
  /\ pc' = [pc EXCEPT ![c] = to]

Init ==
  /\ pc = [c \in Core |-> "run"]
  /\ excState = [c \in Core |-> {}]
  /\ snap = [c \in Core |-> 0]
  /\ mode = [c \in Core |-> "cont"]
  /\ forced = {}
  /\ masters = 0
  /\ slaves = 0
  /\ masterLock = FALSE
  /\ slaveLock = FALSE
  /\ exitDbg = FALSE
  /\ ssCoreId = NoCore
  /\ ssFlg = FALSE
  /\ gCoreId = FirstCore
  /\ gPrevCoreId = FirstCore
  /\ archInit = Core \ LateCores
  /\ online = Core \ LateCores
  /\ onlineCnt = Cardinality(Core \ LateCores)

-----------------------------------------------------------------------------
(* OsGdbStubSmpInit on a late core: OsGdbSmpArchInit, then under g_initLock *)
(* atomic_inc(&g_onlineCores) and the bit in g_onlineBitmap.               *)
SmpArchInit(c) ==
  /\ c \in LateCores \ archInit
  /\ pc[c] = "run"
  /\ archInit' = archInit \cup {c}
  /\ UNCHANGED <<pc, excState, snap, mode, forced, masters, slaves, masterLock,
                 slaveLock, exitDbg, ssCoreId, ssFlg, gCoreId, gPrevCoreId,
                 online, onlineCnt>>

SmpRegister(c) ==
  /\ c \in archInit \ online
  /\ pc[c] = "run"
  /\ online' = online \cup {c}
  /\ onlineCnt' = onlineCnt + 1
  /\ UNCHANGED <<pc, excState, snap, mode, forced, masters, slaves, masterLock,
                 slaveLock, exitDbg, ssCoreId, ssFlg, gCoreId, gPrevCoreId,
                 archInit>>

(* OsGdbHandleException -> OsGdbCpuEnter(excState), lines 921-923: the     *)
(* core reads g_onlineCores and ORs its role into g_excState[cid].         *)
TrapAs(c, role) ==
  /\ Goto(c, "run", "enter")
  /\ c \in archInit
  /\ excState' = [excState EXCEPT ![c] = @ \cup {role}]
  /\ snap' = [snap EXCEPT ![c] = onlineCnt]

(* OsGdbArchForceStep is architecture code outside src/.  A request sent   *)
(* to a core that is already in the handler (interrupts masked) is taken   *)
(* after it resumes; the model reads it in the way most favourable to the  *)
(* code: any debug trap of the core consumes a pending request.            *)
TakeRoundup(c) ==
  forced' = forced \ {c}

(* A breakpoint hit or explicit break: the role is WantMaster.             *)
BreakTrap(c) ==
  /\ mode[c] = "cont"
  /\ TrapAs(c, WantMaster)
  /\ TakeRoundup(c)
  /\ UNCHANGED <<mode, masters, slaves, masterLock, slaveLock, exitDbg,
                 ssCoreId, ssFlg, gCoreId, gPrevCoreId, archInit, online,
                 onlineCnt>>

(* A core resumed with OsGdbArchStep traps again after one instruction.    *)
StepTrap(c) ==
  /\ mode[c] = "step"
  /\ TrapAs(c, WantMaster)
  /\ TakeRoundup(c)
  /\ UNCHANGED <<mode, masters, slaves, masterLock, slaveLock, exitDbg,
                 ssCoreId, ssFlg, gCoreId, gPrevCoreId, archInit, online,
                 onlineCnt>>

(* The round-up request sent by OsGdbArchForceStep(cid, true) is taken.    *)
ForcedTrap(c) ==
  /\ c \in forced
  /\ TrapAs(c, IsSlave)
  /\ forced' = forced \ {c}
  /\ UNCHANGED <<mode, masters, slaves, masterLock, slaveLock, exitDbg,
                 ssCoreId, ssFlg, gCoreId, gPrevCoreId, archInit, online,
                 onlineCnt>>

(* Line 924: if (g_exitDbg) take the teardown path, else count the core.   *)
CheckExit(c) ==
  /\ Goto(c, "enter", IF exitDbg THEN "exit" ELSE "count")
  /\ UNCHANGED <<excState, snap, mode, forced, masters, slaves, masterLock,
                 slaveLock, exitDbg, ssCoreId, ssFlg, gCoreId, gPrevCoreId,
                 archInit, online, onlineCnt>>

(* Lines 925-930 under g_dbgLock: GdbDeactivateSwBkpts, invalidate the     *)
(* icache, OsGdbArchContinue(cid), return -1.  g_excState is left set.     *)
ExitPath(c) ==
  /\ Goto(c, "exit", "run")
  /\ mode' = [mode EXCEPT ![c] = "cont"]
  /\ UNCHANGED <<excState, snap, forced, masters, slaves, masterLock, slaveLock,
                 exitDbg, ssCoreId, ssFlg, gCoreId, gPrevCoreId, archInit,
                 online, onlineCnt>>

(* Lines 932-936: atomic_inc of g_dbgMasters or g_dbgSlaves by role.       *)
Increment(c) ==
  /\ Goto(c, "count", "acquire")
  /\ IF excState[c] = {WantMaster}
       THEN masters' = masters + 1 /\ slaves' = slaves
       ELSE slaves' = slaves + 1 /\ masters' = masters
  /\ UNCHANGED <<excState, snap, mode, forced, masterLock, slaveLock, exitDbg,
                 ssCoreId, ssFlg, gCoreId, gPrevCoreId, archInit, online,
                 onlineCnt>>

(* Lines 946-949: a WantMaster core leaves the loop when its               *)
(* raw_spin_trylock(&g_dbgMasterLock) succeeds.                            *)
AcquireMaster(c) ==
  /\ Goto(c, "acquire", "ssCheck")
  /\ WantMaster \in excState[c]
  /\ ~masterLock
  /\ masterLock' = TRUE
  /\ UNCHANGED <<excState, snap, mode, forced, masters, slaves, slaveLock,
                 exitDbg, ssCoreId, ssFlg, gCoreId, gPrevCoreId, archInit,
                 online, onlineCnt>>

(* Lines 950-956: a slave leaves once g_dbgSlaveLock is seen unlocked; a   *)
(* core with neither flag leaves at once.  Both go to GdbReturnNormal.     *)
SlaveRelease(c) ==
  /\ Goto(c, "acquire", "retNormal")
  /\ WantMaster \notin excState[c]
  /\ IsSlave \in excState[c] => ~slaveLock
  /\ UNCHANGED <<excState, snap, mode, forced, masters, slaves, masterLock,
                 slaveLock, exitDbg, ssCoreId, ssFlg, gCoreId, gPrevCoreId,
                 archInit, online, onlineCnt>>

(* Mutant: GdbReturnNormal without its atomic_dec(&g_dbgSlaves).          *)
ReturnNormalNoDec(c) ==
  /\ Goto(c, "retNormal", "run")
  /\ mode' = IF gCoreId = gPrevCoreId \/ c # gCoreId
               THEN [mode EXCEPT ![c] = "cont"] ELSE mode
  /\ excState' = [excState EXCEPT ![c] = {}]
  /\ UNCHANGED <<snap, forced, slaves, masters, masterLock, slaveLock, exitDbg,
                 ssCoreId, ssFlg, gCoreId, gPrevCoreId, archInit, online,
                 onlineCnt>>

(* GdbReturnNormal (lines 907-917): continue the core unless it is the     *)
(* core the host single-steps on behalf of another master, clear the      *)
(* flags, atomic_dec(&g_dbgSlaves).                                        *)
ReturnNormal(c) ==
  /\ Goto(c, "retNormal", "run")
  /\ mode' = IF gCoreId = gPrevCoreId \/ c # gCoreId
               THEN [mode EXCEPT ![c] = "cont"] ELSE mode
  /\ excState' = [excState EXCEPT ![c] = {}]
  /\ slaves' = slaves - 1
  /\ UNCHANGED <<snap, forced, masters, masterLock, slaveLock, exitDbg,
                 ssCoreId, ssFlg, gCoreId, gPrevCoreId, archInit, online,
                 onlineCnt>>

(* Mutant: the single-step check of lines 963-967 left out.               *)
SsCheckNoStep(c) ==
  /\ pc[c] = "ssCheck"
  /\ pc' = [pc EXCEPT ![c] = IF ssFlg THEN "waitAll" ELSE "lockSlave"]
  /\ UNCHANGED <<excState, snap, mode, forced, masters, slaves, masterLock,
                 slaveLock, exitDbg, ssCoreId, ssFlg, gCoreId, gPrevCoreId,
                 archInit, online, onlineCnt>>

(* Lines 963-967: while another core is single-stepping, the master lock   *)
(* is given back and the loop retried (goto acquirelock).                  *)
SsCheck(c) ==
  /\ pc[c] = "ssCheck"
  /\ IF ssCoreId # NoCore /\ ssCoreId # c
       THEN pc' = [pc EXCEPT ![c] = "acquire"] /\ masterLock' = FALSE
       ELSE pc' = [pc EXCEPT ![c] = IF ssFlg THEN "waitAll" ELSE "lockSlave"]
            /\ masterLock' = masterLock
  /\ UNCHANGED <<excState, snap, mode, forced, masters, slaves, slaveLock,
                 exitDbg, ssCoreId, ssFlg, gCoreId, gPrevCoreId, archInit,
                 online, onlineCnt>>

(* Line 974: raw_spin_lock(&g_dbgSlaveLock).                               *)
LockSlave(c) ==
  /\ Goto(c, "lockSlave", "roundup")
  /\ ~slaveLock
  /\ slaveLock' = TRUE
  /\ UNCHANGED <<excState, snap, mode, forced, masters, slaves, masterLock,
                 exitDbg, ssCoreId, ssFlg, gCoreId, gPrevCoreId, archInit,
                 online, onlineCnt>>

(* Lines 977-979 and GdbRoundupCores: if not every online core is counted, *)
(* force every other core into the debugger.                               *)
Roundup(c) ==
  /\ Goto(c, "roundup", "waitAll")
  /\ forced' = IF masters + slaves # snap[c]
                 THEN forced \cup RoundupTargets(c) ELSE forced
  /\ UNCHANGED <<excState, snap, mode, masters, slaves, masterLock, slaveLock,
                 exitDbg, ssCoreId, ssFlg, gCoreId, gPrevCoreId, archInit,
                 online, onlineCnt>>

(* Lines 985-995: once masters + slaves = onlineCores, deactivate the sw   *)
(* breakpoints, clear g_ssFlg and start GdbSerialStub, which sets          *)
(* g_prevCoreId = g_coreId = cid.                                          *)
WaitAll(c) ==
  /\ Goto(c, "waitAll", "serve")
  /\ masters + slaves = snap[c]
  /\ ssFlg' = FALSE
  /\ gCoreId' = c
  /\ gPrevCoreId' = c
  /\ UNCHANGED <<excState, snap, mode, forced, masters, slaves, masterLock,
                 slaveLock, exitDbg, ssCoreId, archInit, online, onlineCnt>>

(* Mutant: 'H' stores the parsed id without mapping -1 to g_firstCoreId.  *)
CmdSetThreadRaw(c, t) ==
  /\ pc[c] = "serve"
  /\ t \in online \cup {NoCore}
  /\ gCoreId' = t
  /\ UNCHANGED <<pc, excState, snap, mode, forced, masters, slaves, masterLock,
                 slaveLock, exitDbg, ssCoreId, ssFlg, gPrevCoreId, archInit,
                 online, onlineCnt>>

(* 'H' (GdbCmdSetThread, lines 639-663): select an online core, -1 meaning *)
(* g_firstCoreId.  Rejected ids only produce an error reply.               *)
CmdSetThread(c, t) ==
  /\ pc[c] = "serve"
  /\ t \in online \cup {NoCore}
  /\ gCoreId' = IF t = NoCore THEN FirstCore ELSE t
  /\ UNCHANGED <<pc, excState, snap, mode, forced, masters, slaves, masterLock,
                 slaveLock, exitDbg, ssCoreId, ssFlg, gPrevCoreId, archInit,
                 online, onlineCnt>>

(* 'c' (GdbCmdContinue, lines 688-708), OsGdbArchContinue succeeding.      *)
CmdContinue(c) ==
  /\ Goto(c, "serve", "activate")
  /\ mode' = [d \in Core |-> IF d \in {gCoreId, gPrevCoreId} THEN "cont"
                                                             ELSE mode[d]]
  /\ ssFlg' = FALSE
  /\ ssCoreId' = NoCore
  /\ UNCHANGED <<excState, snap, forced, masters, slaves, masterLock, slaveLock,
                 exitDbg, gCoreId, gPrevCoreId, archInit, online, onlineCnt>>

(* 's' (GdbCmdStep, lines 714-733), OsGdbArchStep succeeding: the selected *)
(* core steps; if it is not the master, the master is continued and        *)
(* g_ssFlg is cleared again.                                               *)
CmdStep(c) ==
  /\ Goto(c, "serve", "activate")
  /\ mode' = [d \in Core |-> IF d = gCoreId THEN "step"
                             ELSE IF d = gPrevCoreId THEN "cont" ELSE mode[d]]
  /\ ssCoreId' = gCoreId
  /\ ssFlg' = (gPrevCoreId = gCoreId)
  /\ UNCHANGED <<excState, snap, forced, masters, slaves, masterLock, slaveLock,
                 exitDbg, gCoreId, gPrevCoreId, archInit, online, onlineCnt>>

(* 'k' (GdbCmdExit, lines 771-781): reset the breakpoints, continue the    *)
(* selected core, g_exitDbg = 1.                                           *)
CmdKill(c) ==
  /\ Goto(c, "serve", "activate")
  /\ mode' = [mode EXCEPT ![gCoreId] = "cont"]
  /\ exitDbg' = TRUE
  /\ UNCHANGED <<excState, snap, forced, masters, slaves, masterLock, slaveLock,
                 ssCoreId, ssFlg, gCoreId, gPrevCoreId, archInit, online,
                 onlineCnt>>

(* Mutant: g_dbgSlaveLock released whether or not g_ssFlg is set.        *)
ActivateAlwaysUnlock(c) ==
  /\ Goto(c, "activate", IF ssFlg THEN "leave" ELSE "waitSlaves")
  /\ slaveLock' = FALSE
  /\ UNCHANGED <<excState, snap, mode, forced, masters, slaves, masterLock,
                 exitDbg, ssCoreId, ssFlg, gCoreId, gPrevCoreId, archInit,
                 online, onlineCnt>>

(* Lines 996-999: GdbActivateSwBkpts; unless single-stepping on the        *)
(* master, raw_spin_unlock(&g_dbgSlaveLock).                               *)
Activate(c) ==
  /\ Goto(c, "activate", IF ssFlg THEN "leave" ELSE "waitSlaves")
  /\ slaveLock' = (ssFlg /\ slaveLock)
  /\ UNCHANGED <<excState, snap, mode, forced, masters, slaves, masterLock,
                 exitDbg, ssCoreId, ssFlg, gCoreId, gPrevCoreId, archInit,
                 online, onlineCnt>>

(* Lines 1001-1003: wait until every slave has left.                       *)
WaitSlaves(c) ==
  /\ Goto(c, "waitSlaves", "leave")
  /\ slaves = 0
  /\ UNCHANGED <<excState, snap, mode, forced, masters, slaves, masterLock,
                 slaveLock, exitDbg, ssCoreId, ssFlg, gCoreId, gPrevCoreId,
                 archInit, online, onlineCnt>>

(* Mutant: line 1006 left out, the master keeps its g_excState flags.     *)
LeaveKeepFlags(c) ==
  /\ Goto(c, "leave", "unlock")
  /\ masters' = masters - 1
  /\ UNCHANGED <<excState, snap, mode, forced, slaves, masterLock, slaveLock,
                 exitDbg, ssCoreId, ssFlg, gCoreId, gPrevCoreId, archInit,
                 online, onlineCnt>>

(* Lines 1006-1009: clear the flags, atomic_dec(&g_dbgMasters).            *)
Leave(c) ==
  /\ Goto(c, "leave", "unlock")
  /\ excState' = [excState EXCEPT ![c] = {}]
  /\ masters' = masters - 1
  /\ UNCHANGED <<snap, mode, forced, slaves, masterLock, slaveLock, exitDbg,
                 ssCoreId, ssFlg, gCoreId, gPrevCoreId, archInit, online,
                 onlineCnt>>

(* Line 1010: raw_spin_unlock(&g_dbgMasterLock); the core resumes.         *)
Unlock(c) ==
  /\ Goto(c, "unlock", "run")
  /\ masterLock' = FALSE
  /\ UNCHANGED <<excState, snap, mode, forced, masters, slaves, slaveLock,
                 exitDbg, ssCoreId, ssFlg, gCoreId, gPrevCoreId, archInit,
                 online, onlineCnt>>

-----------------------------------------------------------------------------
(* Steps a core takes inside the handler once it has trapped.              *)
HandlerStep(c) ==
  \/ CheckExit(c) \/ ExitPath(c) \/ Increment(c) \/ AcquireMaster(c)
  \/ SlaveRelease(c) \/ ReturnNormal(c) \/ SsCheck(c) \/ LockSlave(c)
  \/ Roundup(c) \/ WaitAll(c) \/ Activate(c) \/ WaitSlaves(c) \/ Leave(c)
  \/ Unlock(c)

(* The host's commands to the master.                                      *)
HostCommand(c) ==
  \/ \E t \in Core \cup {NoCore} : CmdSetThread(c, t)
  \/ CmdContinue(c) \/ CmdStep(c) \/ CmdKill(c)

Next ==
  \E c \in Core :
    \/ SmpArchInit(c) \/ SmpRegister(c)
    \/ BreakTrap(c) \/ StepTrap(c) \/ ForcedTrap(c)
    \/ HandlerStep(c)
    \/ HostCommand(c)

(* A forced or stepping core does trap, a core spinning on a lock that is  *)
(* free infinitely often gets it (strong fairness: the lock is only free   *)
(* intermittently), and the host eventually ends the session.  Breakpoint  *)
(* hits are not assumed.                                                   *)
Fairness ==
  \A c \in Core :
    /\ WF_vars(SmpArchInit(c)) /\ WF_vars(SmpRegister(c))
    /\ WF_vars(StepTrap(c)) /\ WF_vars(ForcedTrap(c))
    /\ WF_vars(CheckExit(c)) /\ WF_vars(ExitPath(c)) /\ WF_vars(Increment(c))
    /\ SF_vars(AcquireMaster(c)) /\ SF_vars(SlaveRelease(c))
    /\ WF_vars(ReturnNormal(c)) /\ WF_vars(SsCheck(c)) /\ SF_vars(LockSlave(c))
    /\ WF_vars(Roundup(c)) /\ WF_vars(WaitAll(c)) /\ WF_vars(Activate(c))
    /\ WF_vars(WaitSlaves(c)) /\ WF_vars(Leave(c)) /\ WF_vars(Unlock(c))
    /\ WF_vars(CmdContinue(c) \/ CmdStep(c) \/ CmdKill(c))

Spec == Init /\ [][Next]_vars

FairSpec == Spec /\ Fairness

-----------------------------------------------------------------------------
TypeOK ==
  /\ pc \in [Core -> PCs]
  /\ excState \in [Core -> SUBSET {WantMaster, IsSlave}]
  /\ snap \in [Core -> Nat]
  /\ mode \in [Core -> {"cont", "step"}]
  /\ forced \subseteq Core
  /\ masters \in Nat
  /\ slaves \in Nat
  /\ masterLock \in BOOLEAN
  /\ slaveLock \in BOOLEAN
  /\ exitDbg \in BOOLEAN
  /\ ssCoreId \in Core \cup {NoCore}
  /\ ssFlg \in BOOLEAN
  /\ gCoreId \in Core
  /\ gPrevCoreId \in Core
  /\ archInit \subseteq Core
  /\ online \subseteq Core
  /\ onlineCnt \in Nat

Serving(c) == pc[c] = "serve"

(* The cores counted in g_dbgMasters and in g_dbgSlaves.                   *)
MastersIn == {c \in Core : pc[c] \in CountedPCs /\ excState[c] = {WantMaster}}
SlavesIn  == {c \in Core : pc[c] \in CountedPCs /\ excState[c] # {WantMaster}}

(* Exclusive host access (spec 4.3): at most one core serves the host at a *)
(* time, although WantMaster cores race on raw_spin_trylock and a master   *)
(* that loses to the single-stepping core gives the lock back and retries. *)
ExclusiveHost ==
  \A c, d \in Core : Serving(c) /\ Serving(d) => c = d

(* The atomic counters g_dbgMasters and g_dbgSlaves always equal the       *)
(* number of cores between their atomic_inc and atomic_dec in each role:   *)
(* the rendezvous condition masters + slaves = onlineCores counts cores,   *)
(* not stale increments.                                                   *)
CountersAccount ==
  /\ masters = Cardinality(MastersIn)
  /\ slaves = Cardinality(SlavesIn)

(* Single-step exclusivity (lines 963-967): while g_ssCoreId names a core, *)
(* only that core can serve the host.                                      *)
StepExclusive ==
  \A c \in Core : Serving(c) /\ ssCoreId # NoCore => c = ssCoreId

(* While a master serves, g_dbgSlaveLock is held, so no parked slave can   *)
(* leave: also in a session entered after a single step on the master,     *)
(* which reuses the slave lock taken by the session before it.             *)
SlavesHeld ==
  \A c \in Core : Serving(c) => slaveLock

(* A core is parked when it is inside the handler and cannot resume        *)
(* before the master releases it.                                          *)
Parked(c) == pc[c] \in {"enter", "count", "acquire", "ssCheck"}

(* Stop-the-world (spec 4.3 step 6, spec 5): while a master serves the     *)
(* host, every other online core is parked in the debugger.                *)
AllParked ==
  \A m \in Core : Serving(m) => \A c \in online \ {m} : Parked(c)

-----------------------------------------------------------------------------
(* The strengthening that makes the properties above inductive.            *)
Roles == {{WantMaster}, {IsSlave}}

(* The flags g_excState[c] holds at each point of the handler: one role    *)
(* from the trap until the flags are cleared on the way out; stale flags   *)
(* are only left by the teardown path once g_exitDbg is set.               *)
RoleOK ==
  \A c \in Core :
    /\ pc[c] \in {"run", "unlock"} => excState[c] = {} \/ exitDbg
    /\ pc[c] = "enter" => excState[c] \in Roles \/ exitDbg
    /\ pc[c] = "exit" => exitDbg
    /\ pc[c] \in {"count", "acquire"} => excState[c] \in Roles
    /\ pc[c] = "retNormal" => excState[c] = {IsSlave}
    /\ pc[c] \in MasterPCs \ {"unlock"} => excState[c] = {WantMaster}

(* g_dbgMasterLock is held by every core past its trylock, and only one    *)
(* core is there.                                                          *)
LockOK ==
  \A c \in Core :
    pc[c] \in MasterPCs =>
      /\ masterLock
      /\ \A d \in Core \ {c} : pc[d] \notin MasterPCs

(* g_ssFlg is only set while g_dbgSlaveLock is kept; the slave lock is     *)
(* held from its acquisition through the session; a core past the          *)
(* single-step check passed it, and g_ssCoreId changes only in a session.  *)
SessionOK ==
  /\ ssFlg => slaveLock
  /\ \A c \in Core :
       /\ pc[c] \in {"roundup", "waitAll", "serve"} => slaveLock
       /\ pc[c] \in {"lockSlave", "roundup", "waitAll", "serve"}
            => ssCoreId \in {NoCore, c}

IInv == TypeOK /\ RoleOK /\ CountersAccount /\ LockOK /\ SessionOK

(* Liveness (spec 8): a core that enters the debugger eventually resumes.  *)
EveryEntryReturns ==
  \A c \in Core : pc[c] = "acquire" ~> pc[c] = "run"
=============================================================================
