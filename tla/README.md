# TLA+ models of the UniProton gdbstub and kernel pieces

This directory holds TLA+ models of parts of this repository, the TLC
configurations that model-check them, and TLAPS proofs. Every definition is
translated from the C source, and `PROJECT.json` maps each one to the lines it
models.

## 1. The system

The repository's largest piece of logic is the in-target GDB stub,
`src/src/component/gdbstub/gdbstub_common.c`. It has five parts:

- **Rendezvous coordinator** (`OsGdbHandleException`, `OsGdbCpuEnter`,
  `GdbReturnNormal`, `GdbRoundupCores`, `OsGdbStubSmpInit`, lines 895-1048).
  - Every core that takes a debug exception enters `OsGdbCpuEnter`.
  - A core that hit a breakpoint (or finished a step) enters as
    `DCPU_WANT_MASTER`. A core forced in by round-up enters as `DCPU_IS_SLAVE`.
  - Masters race `raw_spin_trylock(&g_dbgMasterLock)`. The winner:
    1. gives the lock back while another core owns the single step
       (`g_ssCoreId`);
    2. takes `g_dbgSlaveLock`, which parks the slaves;
    3. forces the missing cores in with `OsGdbArchForceStep`;
    4. waits until `g_dbgMasters + g_dbgSlaves` equals the online count it read
       on entry;
    5. serves the host;
    6. releases the slaves and waits for `g_dbgSlaves` to drain.
  - `g_ssFlg` makes a master that single-steps itself keep the slave lock
    across the step.
- **RSP session** (`GdbSerialStub`, the `GdbCmd*` handlers, the dispatch table).
  It reads a packet, dispatches on its first byte, and loops until `c`, `s` or
  `k`.
- **Breakpoint manager** (`GdbSetSwBkpt` ... `GdbResetBkpts`). A table of
  `GDB_MAX_BREAKPOINTS` slots in states UNDEFINED, SET, ACTIVE and REMOVED.
- **Address validator** (`OsGdbConfigInitMemRegions`, `GdbAddrCheck`). A
  region list that gates memory and breakpoint commands.
- **Single-core fallback**. The non-SMP `OsGdbHandleException`, guarded by
  `g_gdbActive`.

They interact only on the master core. The coordinator calls
`GdbDeactivateSwBkpts`, then the session, then `GdbActivateSwBkpts`. The
session's commands call the breakpoint manager and the validator, and `c`, `s`
and `k` decide how the cores resume.

The armv7-r atomics (`src/src/include/uapi/hw/armv7-r/os_atomic_armv7_r.h`)
are the primitives the kernel and the stub count and lock with:

- `ArchAtomic*` functions, each a `ldrex`/`strex` loop, or `ldrexd`/`strexd`
  on a 64-bit pair;
- `ArchAtomicRead` and `ArchAtomicSet`, a plain load and a plain store;
- the documented `PRT_Atomic*` wrappers around them.

Periodic tasks (`src/src/core/kernel/task/smp/prt_task_period.c`) give a
task a software timer whose callback, `OsDelieverSigPeriod`, sends it
SIGALRM:

- `PRT_TaskSetPeriodic(task, idate, period)` creates the timer once (the
  task's `itimer` and the flag `OS_TSK_SET_PERIODIC`), turns `TM_NOW` into
  now + period, and refuses a date in the past;
- `OsPeriodTimerSetTime` stops the timer, reads the tick again, sets the
  first expiry `idate - now` in U32 arithmetic, and starts the timer;
- `PRT_TaskWaitPeriod` waits for SIGALRM, then reads and clears the timer's
  overrun count.

Any task may reprogram the timer while the periodic task waits, and ticks
fall between all of these steps. The software timer and signal layers they
call are not in the repository.

The other sources are:

- the armv7-r interrupt dispatch (`prt_hwi.c`);
- coredump output;
- headers;
- demos;
- a C++ test suite.

`PROJECT.json` lists each of them with its status.

## 2. Modules

| module | models | status |
|---|---|---|
| `GdbRendezvous` | the SMP rendezvous and the H/c/s/k commands | modelled |
| `MCGdbRendezvous` | small core sets for TLC | - |
| `GdbRendezvous_proofs` | TLAPS proofs about `GdbRendezvous` | proved |
| `GdbBreakpoints` | the software breakpoint table, the memory it patches, Z0/z0/M | modelled |
| `MCGdbBreakpoints` | small address and value sets for TLC | - |
| `GdbBreakpoints_proofs` | TLAPS proofs about `GdbBreakpoints` | proved |
| `GdbSession` | stub init, the RSP packet loop, the dispatch table, every command handler, the address validator | modelled |
| `MCGdbSession` | packet sets and a 4-bit address map for TLC | - |
| `GdbSession_proofs` | TLAPS proofs of `SelectedCoreKnown`, `TypeOK` and `SsFlgOwnStep` | proved |
| `AtomicWord` | W-bit words, pairs of halves, bitwise OR/AND | - |
| `ArmAtomicSpec` | what each atomic promises: its effect in one step | abstract spec |
| `ArmAtomic` | every atomic function as the cores execute it, over exclusive monitors | modelled |
| `MCArmAtomic` | call sets for TLC | - |
| `ArmAtomic_proofs` | TLAPS proofs about `ArmAtomic` | proved |
| `ArmAtomicRefinement_proofs` | TLAPS proof that `ArmAtomic` implements `ArmAtomicSpec` | proved |
| `TaskPeriod` | periodic tasks: set, wait, the timer callback, the tick | modelled |
| `MCTaskPeriod` | 3-bit ticks for TLC | - |
| `TaskPeriod_proofs` | TLAPS proofs about `TaskPeriod` | proved |

### GdbRendezvous: state

| variable | C state |
|---|---|
| `pc[c]` | where core `c` is in `OsGdbCpuEnter` (`"run"` = outside) |
| `excState[c]` | `g_excState[c]` as a subset of {WantMaster, IsSlave} |
| `snap[c]` | the local `onlineCores` read at line 921 |
| `mode[c]` | whether the architecture resumes `c` continuing or stepping |
| `forced` | cores with a pending `OsGdbArchForceStep` request |
| `masters`, `slaves` | `g_dbgMasters`, `g_dbgSlaves` |
| `masterLock`, `slaveLock` | the two spin locks |
| `exitDbg`, `ssCoreId`, `ssFlg` | `g_exitDbg`, `g_ssCoreId` (`NoCore` = -1), `g_ssFlg` |
| `gCoreId`, `gPrevCoreId` | `g_coreId`, `g_prevCoreId` |
| `archInit`, `online`, `onlineCnt` | late `OsGdbStubSmpInit`: arch init done, `g_onlineBitmap`, `g_onlineCores` |

### GdbRendezvous: actions

There is one action per step of the C code that reads or writes shared state,
in the code's order:

- `BreakTrap`, `StepTrap` and `ForcedTrap`, with their shared part `TrapAs`
  (lines 921-923).
- `CheckExit` and `ExitPath` (924-931).
- `Increment` (932-936).
- `AcquireMaster` and `SlaveRelease` (945-958).
- `ReturnNormal` (907-917).
- `SsCheck` (963-967).
- `LockSlave` and `Roundup` (973-979).
- `WaitAll` (985-995, including `g_prevCoreId = g_coreId = cid` of line 858).
- `Activate` (996-999).
- `WaitSlaves` (1001-1003).
- `Leave` (1006-1009).
- `Unlock` (1010).

The host commands are also actions:

- `CmdSetThread`: `H`, over online ids and -1.
- `CmdContinue`: `c`.
- `CmdStep`: `s`.
- `CmdKill`: `k`.

A failing `OsGdbArchContinue` or `OsGdbArchStep` changes nothing and keeps the
session, so it is a stutter. Commands that do not touch rendezvous state (`m`,
`g`, `Z`, ...) are stutters here too.

`OsGdbArchForceStep` is outside the repository, so its effect is modelled from
its use:

- a request is pending until the target core traps;
- a request sent to a core that is already in the handler stays pending until
  that core resumes;
- any debug trap of the core consumes it (`TakeRoundup`), which is the reading
  most favourable to the code.

`g_coreId` and `g_prevCoreId` start at 0 in C. The model starts them at
`FirstCore` (0 in every configuration). Before the first session they are only
compared with each other.

### GdbBreakpoints: state and actions

The breakpoint table is modelled apart from the rendezvous. It only changes on
the master core, between `GdbDeactivateSwBkpts` at entry (line 993) and
`GdbActivateSwBkpts` at exit (line 996), so its interleaving with other cores
does not matter. `phase` records where the master is: `"running"` (cores
resumed), `"session"` (the host is served) or `"exited"` (after `k`).

| variable | C state |
|---|---|
| `state[i]`, `addr[i]` | `g_breaks[i].state`, `g_breaks[i].addr` |
| `saved[i]` | the original instruction `OsGdbArchSetSwBkpt` keeps in the slot |
| `mem[a]` | memory at address `a`, one instruction per address |
| `prog[a]` | ghost: what the program holds at `a` (memory without breakpoints) |
| `ret` | the result of the last Z0/z0 |

The actions are:

- `EnterSession` and `ExitEntry`: the `GdbDeactivateSwBkpts` of a session entry
  and of the teardown path after `k`.
- `Resume`: the `GdbActivateSwBkpts` after `c` or `s`.
- `CmdAddSw` (`GdbAddBkpt` then `GdbSetSwBkpt`) and `CmdRemoveSw`
  (`GdbRemoveBkpt` then `GdbRemoveSwBkpt`).
- `CmdMemWrite`: `M` to a writable address.
- `Kill`: `GdbResetBkpts`.

`OsGdbArchSetSwBkpt` and `OsGdbArchRemoveSwBkpt` are not in the repository.
Each call may fail when its name is in the constant `ArchFails`; `Failures`
picks the set of slots whose call fails in one sweep. The sweeps visit slots in
index order, which `Deactivate` and `Activate` keep: where two slots share an
address, the later restore wins and the later arming saves the trap.

### GdbSession: state and actions

`GdbSession` models one served session at a time. Which core serves the host is
decided by the rendezvous (`GdbRendezvous`). Here any online core may enter
while no session runs, subject to the two gates of `OsGdbCpuEnter`:
`g_exitDbg` must be clear, and while `g_ssCoreId` names a core only that core
may serve. A host packet is a record:

- `ch`, its first byte;
- `a` and `b`, the numbers `OsGdbHex2U64` parsed;
- `t` and `sub`, the Z type and the q/H sub-command;
- `pay`, the byte pairs of an `M` payload;
- `sep`, whether its separators are there.

Each handler casts the numbers as `CHECK_HEX` does, to `uintptr_t` and `int`
of `AW` bits, or to `U8`. The architecture layer's results are free choices.

| variable | C state |
|---|---|
| `inited`, `online`, `onlineCnt`, `firstCoreId` | cores past `OsGdbStubInit`, `g_onlineBitmap`, `g_onlineCores`, `g_firstCoreId` |
| `ready` | `OsGdbStubEarlyInit` got past the ring buffer and registered the die notifier |
| `state`, `self` | `state` of the loop (`"idle"` outside a session), the serving core |
| `notFirstStart`, `coreId`, `prevCoreId`, `thIdx` | `g_notFirstStart`, `g_coreId`, `g_prevCoreId`, `g_thIdx` |
| `exitDbg`, `ssFlg`, `ssCoreId` | `g_exitDbg`, `g_ssFlg`, `g_ssCoreId` |
| `reply` | the packet this step sent (`none` if it sent nothing) |
| `access`, `bkpt` | ghosts: the bytes the last `m`/`M` touched, the address of the last Z that passed the validator |

The actions are:

- `StubInit(c)`: `OsGdbStubInit`. On the primary it is the first part of
  `OsGdbStubEarlyInit`: the ring buffer (which may fail), `g_firstCoreId`
  and the die notifier (lines 1067-1078). Every other core runs
  `OsGdbStubSmpInit`.
- `PrimarySmpInit`: the rest of `OsGdbStubEarlyInit`, the primary's own
  `OsGdbStubSmpInit` (line 1080). Between the two, a secondary can already be
  online and trap into the stub.
- `Enter(c)`: the start of `GdbSerialStub` and `OsGdbCpuEnter`. It clears
  `g_ssFlg` (line 994) and sends a stop reply unless this is the first
  session.
- `Receive(p)`: one turn of the loop. A checksum error is answered `E01`, an
  empty packet is skipped, and anything else goes through `Dispatch` to the
  handler `g_gdbCmdHandlers` holds for its first byte:
  `CmdMemRead`, `CmdMemWrite`, `CmdBreak`, `CmdRegs`, `CmdAllRegs`,
  `CmdStopReply`, `CmdQuery`, `CmdThreadSet`, `CmdThreadAlive`,
  `CmdContinue`, `CmdStep`, `CmdExit`, or the one-line handlers.
- `Leave`: the loop has reached EXIT and `GdbSerialStub` returns.

`AddrOK` is `GdbAddrCheck` with `addr + len` taken mod 2^AW, over `Regions`
as `OsGdbConfigInitMemRegions` builds them: the OS section is RW, the stub
text is protected, and the stub data region is empty. `InvalidBkptAddr` is its
negation for breakpoints, as in the code.

The properties:

- `SelectedCoreKnown`: during a session the serving core (`g_prevCoreId`)
  is online, and `g_coreId` is online unless it is `g_firstCoreId`. This must
  hold across stub init on every core and any sequence of `H` packets; it
  says `H -1` is the only way to select an offline core.
- `SsFlgOwnStep`, an action property: a command that ends the session with
  `g_ssFlg` set leaves the serving core stepping.
- `HostAccessSafe`: `ValidatorSound` (every byte an `m`/`M` touched lies in
  one region granting the access, and no Z passed at a stub text or data
  address) and `SelectedOnline` (the core the host's register and step
  commands act on is online, as spec 4.3 step 6 requires).

Left out:

- packet bytes of 0x80 and above, which index past `g_gdbCmdHandlers`
  (undefined behaviour);
- the serial framing inside `OsGdbGetPacket`;
- the non-SMP build.

### ArmAtomic: state and actions

A 32-bit `Atomic` is a W-bit word (`W = 2` in the runs). A 64-bit `Atomic64`
is a number below `M * M` whose halves are `Lo` and `Hi`. Signed and unsigned
views are the same bits, so every value is kept as its residue. Each C
function is an operator of the same name that gives, for the value its load
saw, whether it stores, what it stores and what it returns. `CodeEffect`
dispatches on the function name.

| variable | state |
|---|---|
| `mem[l]` | the word (`"w32"`) and the pair (`"w64"`) the calls work on |
| `mon[c]` | the location core `c`'s exclusive monitor is tagged with, or open |
| `pc[c]`, `call[c]` | where `c` is in which call |
| `reg[c]`, `ret[c]` | the value its last load read, and the call's result |
| `ncalls[c]`, `clears` | calls made; monitor clears by exceptions |

The actions are:

- `Invoke`: enter a function.
- `Ldrex`: load and tag. A lone `ldrexd` (`ArchAtomic64Read`) returns at once.
  So does a compare-exchange whose `teq` fails: `strexeq` is skipped with
  status 0.
- `Strex`: store only while the tag holds. A successful store clears every
  core's tag on that location; on failure the loop goes back to the `ldrex`.
- `PlainLoad` and `PlainStore`: `ArchAtomicRead`, `ArchAtomicSet`, and the two
  lines of `PRT_AtomicOr`/`And`. A plain store clears the other cores' tags.
- `Clrex`: an exception between `ldrex` and `strex` clears the monitor.
  At most `MaxClears` happen.
- `Return`.

The register arithmetic (`add`, `adds`/`adc`, `teq`) is local, so it belongs
to the load or store step that uses it.

`ArmAtomicSpec` gives each call, through `Promise`, the effect and result its
`@retval` line states (for `Arch*`, its own sequential meaning). It applies
that effect in one step, `AApply`, between invocation and return. `ArmAtomic`
instantiates it with the identity on memory, calls and results, and maps each
program point to `idle`, `busy` or `done`. `Linearizable` is that
specification as a property. The step where the call takes effect is the
successful `strex`, the `ldrex` that decides a failed compare or a lone
`ldrexd`, or the plain store.

### TaskPeriod: state and actions

The state is one periodic task's control block, its timer, and the program
points of two callers:

| variable | code |
|---|---|
| `itimer`, `periodic` | `tskCb->itimer` non-zero, `OS_TSK_SET_PERIODIC` |
| `tmr` | the timer: `none`, `created` (stopped), `running` or `deleted` |
| `arg1`, `tcore` | the task handle the timer's callback signals; the core whose tick runs the timer |
| `mode`, `interval`, `rem`, `overrun` | the `swtmr` fields the code writes |
| `pending` | SIGALRM pending for the task |
| `spc`, `caller`, `idate`, `period`, `sret` | where `PRT_TaskSetPeriodic` is, who runs it, its locals, and what it returned |
| `wpc`, `ovr`, `wret` | where `PRT_TaskWaitPeriod` is, the overrun it read, and what it returned |
| `clk` | ticks since boot; `(U32)PRT_TickGetCount()` is `clk % 2^TW` |

The ghosts `due`, `expired`, `consumed`, `reported` and `dropped` record the
date the caller asked for and what happened to each expiry.

Actions:

- `SetPeriodic(who, pid, d, p)` models lines 89-118. The caller is T itself
  (with `taskPid` T or 0), another task on T's core, or a task on another
  core; T's own call cannot overlap its wait. It covers the locked creation
  (which may fail, and stores the raw `taskPid` as `arg1`), the tick read,
  `TM_NOW`, and the past-date path that deletes the timer.
- `Stop`, `Arm` and `Start` model `OsPeriodTimerSetTime`: the stop and the
  `idate == 0` return, the locked write after the second tick read, and the
  start.
- `WaitPeriod`, `SignalWait` (which may return -EINTR), `ReadOverrun`
  (line 148) and `ClearOverrun` (lines 149-157) model the flag test, the
  SIGALRM wait, and the read and the clear of `overrun`.
- `Tick` is the tick interrupt of the core the timer runs on. A running
  timer whose `idxRollNum` runs out fires `OsDelieverSigPeriod`, which
  signals `arg1`: T when `arg1` is T's handle, task 0 otherwise. The timer
  then reloads its interval or stops.
- An interrupt-locked section excludes a tick only when the tick runs on the
  same core: a section of T, or of a caller on T's core, excludes T's core's
  tick; a section of a caller on the other core excludes that core's tick.

The timer and signal layers are modelled as the code relies on them:

- `PRT_TimerStop` answers `OS_ERRNO_SWTMR_UNSTART` on a stopped timer and
  fails on a deleted one;
- `PRT_TimerStart` arms with the `idxRollNum` just written, and the timer
  then runs on the core of the task that started it (spec-modelled);
- SIGALRM does not queue, and an expiry while it is pending counts one
  overrun (POSIX timer semantics).

Left out:

- a failing `PRT_TimerStart` on a stopped timer, which the model cannot
  reach (the error path is kept as the `ELSE` of `Start`);
- more than one periodic task: the others share nothing with T but task 0,
  which stands for whoever handle 0 is.

`TPid` is not 0 (`PeriodAssumption`): handle 0 is some other task.

## 3. Runs

The rendezvous runs use three or two cores with `FirstCore = 0`. Deadlock
checking is off in them, because the code really can hang (see
`rendezvous_live`). The breakpoint runs use two slots and addresses {1,2,3,4}:
address 4 lies in a no-breakpoint region and address 1 is writable.

| run | cfg | expect | what it shows |
|---|---|---|---|
| rendezvous_safety | `GdbRendezvous_safety.cfg`: 3 cores, core 2 comes online late | pass, 1,553,741 states | `TypeOK`, `CountersAccount`, `StepExclusive`, `SlavesHeld`, and `IInv`, the invariant the proofs use |
| breakpoints_safety | `GdbBreakpoints_safety.cfg`: `OsGdbArchSetSwBkpt` may fail | pass, 7,332 states | `TypeOK`, `AtMostOneLive`, `MemFaithful` |
| breakpoints_restore | `GdbBreakpoints_restore.cfg`: both arch calls may fail | violation | `MemFaithful` fails (finding 3) |
| rendezvous_parked | `GdbRendezvous_parked.cfg`: 2 cores | violation | `AllParked` fails (finding 1) |
| rendezvous_live | `GdbRendezvous_live.cfg`: 2 cores, `FairSpec` | violation | `EveryEntryReturns` fails (finding 2) |
| session_safety | `GdbSession_safety.cfg`: 3 cores, 3 sessions, 37 packets | pass, 52,544 states | `TypeOK`, `SelectedCoreKnown`, `SsFlgOwnStep` |
| session_host | `GdbSession_host.cfg`: 1 session, `m` and Z0 at region edges, `H g -1` | violation | `HostAccessSafe` fails (findings 4 and 5) |
| atomics_safety | `ArmAtomic_safety.cfg`: 2 cores, 2 calls each, 1 exception, `FairSpec` | pass | `Linearizable`, `EveryCallReturns` |
| atomics_doc | `ArmAtomic_doc.cfg`: one call of fetch-and-add, 32-bit compare-and-store, Or or And | violation | `Linearizable` fails (findings 6-8; TLC shows the compare-and-store) |
| period_safety | `TaskPeriod_safety.cfg`: 3-bit ticks, 8 ticks, 2 set calls, 3 waits | pass, about 10.6 million states | `NoPhantomPeriods` |
| period_served | `TaskPeriod_served.cfg`: 10 ticks | violation | `PeriodicServed` fails (findings 9-12) |
| period_overrun | `TaskPeriod_overrun.cfg`: 8 ticks | violation | `OverrunAccounted` fails (finding 13) |

**Bounds.** The state is finite without counters to cap:

- every counter is bounded by the number of cores;
- `onlineCnt` grows once per late core.

Two slots and three breakpoint-capable addresses are enough for a full table,
for reuse of a removed slot, for a second address that finds no slot, and for
two slots at one address (which `AtMostOneLive` rules out).

The session runs use cores {0, 1, 2} with primary 0 and `MAX_CORE_NUM = 2`.
Addresses have 4 bits. The OS section is 2..13, the stub text 4..9 and the
stub data 10..11, and a breakpoint instruction has 2 bytes. The safety packets
include every command byte of the table and a byte with no handler. They also
include reads and writes inside and across the region ends, negative lengths,
a short `M` payload, and Z of every supported type and one unsupported type.
The `session_host` packets add `H g -1`, `H g 1` and `g`.
`H` and `T` packets name an online core, a core that may not be up yet, a core
beyond `MAX_CORE_NUM`, and -1. With three sessions a step on another core can
be followed by a session of the stepping core, and cores can come up between
sessions and during them. Deadlock checking is off: the runs stop when
`MaxSessions` sessions have ended or `k` was sent.

The atomics runs use `W = 2`: a word has 4 values and a pair 16. An add of 3
to a pair then carries between halves and wraps the high half, and two cores
with two calls each can make one core's `strex` fail, so that it reloads
after the other core's store. The safety call set mixes a plain read, a
compare-exchange that succeeds and one that fails, a plain set, a 64-bit add,
a 64-bit compare-and-store and a lone `ldrexd` on the two locations: every
kind of step a call can take. Every
initial value of both locations is an initial state. Deadlock checking is off
in the atomics runs: they stop when every call has returned.

The periodic-task runs use `TW = 3`, so the U32 tick counter has 8 values
and wraps within ten ticks. `TM_NOW = 0`, as in the Xenomai API this one
follows. The dates {0, 2, 5} and periods {0, 1, 3} give the following cases:

- a date in the past, now, and ahead;
- a one-shot and two periods;
- `now + period` wrapping to 0.

Eight ticks let a period-1 timer expire several times while the signal is
pending, and wrap the counter. Two calls of `PRT_TaskSetPeriodic`, by any of
the three callers, let one reprogram a running timer while the task waits,
from either core. Deadlock checking is off because the clock stops
after `MaxTicks`, and a task may then wait for ever.

Three cores are the smallest set in which two masters can race while a third
is a slave or a late core, and two step-or-continue sessions can follow one
another. Two cores already show both violations.

**Fairness** (`FairSpec`, used only for liveness):

- Weak fairness on every handler step and on the trap of a forced or stepping
  core: these are instructions of a core that runs with interrupts masked.
- Strong fairness on the three lock acquisitions (`AcquireMaster`,
  `SlaveRelease`, `LockSlave`): a spinning core must get a lock that is free
  infinitely often.
- Weak fairness on the host eventually sending `c`, `s` or `k`.
- No fairness on breakpoint hits.
- In `ArmAtomic`, weak fairness on each core's steps inside a call (`Run`):
  the core executes its function's instructions. There is none on invoking a
  call, and exceptions are bounded.

**Mutants.** Each property of a passing run is broken by a plausible bug in the
code it is about:

| mutant | what it drops or changes | property it breaks |
|---|---|---|
| `ReturnNormalNoDec` | the `atomic_dec` of line 915 | `CountersAccount` |
| `SsCheckNoStep` | the single-step check | `StepExclusive` |
| `ActivateAlwaysUnlock` | the `g_ssFlg` test at line 997 | `SlavesHeld` |
| `CmdSetThreadRaw` | -1 is not mapped to `g_firstCoreId` | `TypeOK` |
| `LeaveKeepFlags` | line 1006 | `IInv` |
| `SetSwBkptNoDup` | the BP_SET duplicate check of lines 271-275 | `AtMostOneLive` |
| `SetSwBkptNoFullCheck` | the `breakno == -1` test of line 293 | `TypeOK` |
| `DeactivateNoRestore` | the `OsGdbArchRemoveSwBkpt` call of line 333 | `MemFaithful` |
| `CmdQueryNoBound` | the `g_thIdx < maxCoreNum` test of `GdbCmdQuery` | `TypeOK` |
| `ThreadIdOKNoMask` | the `OsCpuOnlineCheckMask` call of `GdbCmdSetThread` | `SelectedCoreKnown` |
| `CmdStepKeepFlag` | the `g_ssFlg = 0` of line 726 | `SsFlgOwnStep` |
| `PRT_AtomicCompareAndStore64Swapped` | `oldVal`/`newVal` swapped, as in the 32-bit version | `Linearizable` |
| `StrexSpin` | a failed `strex` retried without a new `ldrex` | `EveryCallReturns` |
| `ClearOverrunKeep` | `swtmr->overrun = 0` of line 149 | `NoPhantomPeriods` |

## 4. Findings

1. **A core runs while the host is served** (`rendezvous_parked`, 2 cores, 39
   steps). `GdbRoundupCores` sends requests to cores that are already in the
   handler.
   1. One such core resumes, takes the stale request, and re-enters as
      `DCPU_IS_SLAVE` with no master present.
   2. It sees the slave lock free and heads to `GdbReturnNormal`. It is still
      counted in `g_dbgSlaves`.
   3. The other core becomes master and counts the leaving core, so
      `masters + slaves = onlineCores`. It skips round-up and serves the host.
   4. Meanwhile the first core resumes and runs.

   This breaks spec 4.3 step 6 and spec 5.
2. **A core spins forever on a slave lock that its own session kept**
   (`rendezvous_live`).
   1. The host steps the master itself with `s`, so `g_ssFlg = 1`. The master
      leaves holding `g_dbgSlaveLock`.
   2. A pending round-up trap arrives before the step trap, and the core enters
      as a slave.
   3. It spins on the lock, and nothing will ever unlock it.

3. **A failed restore corrupts the program for good** (`breakpoints_restore`).
   1. A breakpoint is added and armed, and the cores run.
   2. On the next entry `OsGdbArchRemoveSwBkpt` fails. `GdbDeactivateSwBkpts`
      ignores the result (line 333) and marks the slot BP_SET (line 336), so
      the trap is still in memory while the host is served.
   3. On resume `GdbActivateSwBkpts` saves the trap as the slot's original
      instruction, so no later remove can restore the program.

   This breaks spec 4.3 step 7 and the round-trip law of spec 8.
4. **A read whose span wraps passes the validator** (`session_host`, 4
   steps). `GdbAddrCheck` tests `addr + len < end` in `uintptr_t` (line 230).
   With the OS section at 2..13, `m c,6` gives 12 + 6 = 2 mod 16, which passes.
   `GdbRawMemRead` then reads bytes 12..15 and 0..1, and three of them lie
   outside every region. Spec 4.1 says a read is permitted only if some region
   fully contains the span. On the target, any `addr`, `len` whose sum passes
   2^32 does the same. The same test also lets a Z0 into the last instruction
   slot of the stub text, and the empty stub-data region protects nothing.
   `ValidatorSound`, the first conjunct of `HostAccessSafe`, catches both
   (they are listed as hazards). TLC reports the read first.
5. **`H -1` selects the primary before it is online** (`session_host`).
   `OsGdbStubEarlyInit` registers the die notifier (line 1078) before the
   primary's own `OsGdbStubSmpInit` (line 1080); secondaries come online on
   their own. A secondary that traps in between serves the host, and `H g -1`
   sets `g_coreId = g_firstCoreId` (line 651) with no online check, so `g`,
   `G` and `s` act on a core that is not online and was never rounded up.
   This breaks spec 4.3 step 6; `SelectedOnline`, the second conjunct of
   `HostAccessSafe`, fails after four steps. `SelectedCoreKnown` (proved)
   says this is the only way to an offline core.

6. **Fetch-and-add returns the sum** (`atomics_doc`, one call).
   `PRT_AtomicFetchAndAddS32`, `U32` and `U64` return `ArchAtomicAdd`'s
   result, the value after the add. Their `@retval` says the value before it.
7. **`PRT_AtomicCompareAndStore32` swaps its operands** (`atomics_doc`, one
   call; the trace TLC shows). It passes `(ptr, oldVal, newVal)` to
   `ArchAtomicCmpXchg32bits(v, val, oldVal)`. It therefore compares memory
   with `newVal` and stores `oldVal`, and returns 0 where the doc comment says
   1. The 64-bit version passes the operands in the right order.
8. **`PRT_AtomicOr`/`And` are neither atomic nor return what they document**
   (`atomics_doc`). They are a plain load and a plain store, and they return
   the loaded value. The doc comments promise an atomic operation that returns
   the value after it. TLC reports the wrong result first, on a single call.
   The lost update, where another core stores between the two lines, is
   caught by the same property.
9. **`taskPid` 0 sends the task's signals to task 0** (`period_served`, 3
   steps; the trace TLC shows). `PRT_TaskSetPeriodic` takes `taskPid == 0`
   to mean the running task (lines 94-95) but passes the raw 0 to
   `OsPeriodTimerCreate` (line 102), which makes it the callback's `arg1`
   (line 49). `OsDelieverSigPeriod` then sends every SIGALRM to handle 0
   (line 31), and the task's `PRT_TaskWaitPeriod` waits for ever.
10. **A refused date leaves a periodic task without a timer**
   (`period_served`). With `idate` before now, `PRT_TaskSetPeriodic` deletes
   the timer and returns -ETIMEDOUT, but `tskCb->itimer` and
   `OS_TSK_SET_PERIODIC` stay set (line 116; the same after a failing
   `OsPeriodTimerSetTime`, line 122). The creation guard at line 101 then
   never runs again, so every later `PRT_TaskSetPeriodic` stops the deleted
   timer and fails with -EINVAL. `PRT_TaskWaitPeriod` tests only the flag,
   and waits for ever instead of returning -EWOULDBLOCK.
11. **A tick between the two reads delays the first signal by 2^32 - 1
   ticks** (`period_served`). `PRT_TaskSetPeriodic` checks `idate >= now`
   at line 115, and `OsPeriodTimerSetTime` reads the tick again at line 72.
   With `idate = now` and one tick in between, `idxRollNum = idate - now`
   wraps. The call returns OS_OK, and the first expiry comes 7 ticks (with
   3-bit ticks) after a date that has already passed.
12. **`TM_NOW` near the wrap stops the timer** (`period_served`). `idate =
   now + period` (line 114) wraps to 0 when now is within one period of
   2^32. `OsPeriodTimerSetTime` takes `idate == 0` as "stop" (line 68) and
   returns OS_OK, and no SIGALRM ever comes.

   `PeriodicServed` says a periodic task has a live timer that signals it,
   and that its first signal is not later than the date it asked for.
   Findings 10-12 violate it too; TLC reports them when the `taskPid` 0
   path is taken out of `Next`.
13. **An overrun counted on another core is lost** (`period_overrun`, 12
   steps). `PRT_TaskWaitPeriod` reads `swtmr->overrun` (line 148) and clears
   it (line 149) under `OsIntLock`, which masks only the calling core. When
   a task on another core started the timer, its callback runs there: T
   reads 0, two expiries on the other core leave a SIGALRM pending and one
   overrun, and T's clear erases the overrun. `OverrunAccounted` (every
   expiry is taken, pending, reported, held or discarded by a reprogramming)
   fails. `NoPhantomPeriods`, checked by `period_safety` and proved, shows
   the race loses counts and never invents them.

A table that fills with removed breakpoints is listed as a hazard, not as a
finding. `GdbSetSwBkpt` reuses a BP_REMOVED slot only for the same address,
so Z0 can return E2BIG with no breakpoint set. Spec 4.2 does not say whether
removed slots count as used, so there is no promise to check.

## 5. Proofs (TLAPS)

### Rendezvous (`GdbRendezvous_proofs`)

The assumption is `CoreAssumption`: `Core` is a finite set of naturals,
`FirstCore` is in it, `LateCores` excludes `FirstCore`, and `NoCore` is not a
core. For every such set of cores:

- `SpecIInv`: `Spec => []IInv`.
- `TypeCorrect`, `CountersExact`, `HostExclusive`, `StepExclusiveHolds` and
  `SlavesHeldHolds`: `[]TypeOK`, `[]CountersAccount`, `[]ExclusiveHost`,
  `[]StepExclusive` and `[]SlavesHeld`, each derived from `IInv`.

`IInv = TypeOK /\ RoleOK /\ CountersAccount /\ LockOK /\ SessionOK`. It is
needed because none of the properties is inductive alone:

- The counters change only at `Increment`, `ReturnNormal` and `Leave`.
  - At those steps the core's role must be known, so that the right counted
    set changes: `RoleOK` gives each program point its flags.
  - The core must also be outside or inside the counted set. `MastersIn` and
    `SlavesIn` are the cores between `atomic_inc` and `atomic_dec`.
  - The cardinality steps cite `FS_AddElement` and `FS_RemoveElement`.
  - `atomic_dec` never goes below zero, because the decrementing core is in
    the set.
- Exclusive service needs `LockOK`: every core past its trylock holds
  `g_dbgMasterLock`, and only one core is there.
- The step and slave-lock facts need `SessionOK`:
  - `g_ssFlg` is only set while the slave lock is kept;
  - the slave lock is held from `LockSlave` through `serve`;
  - a core past the single-step check passed it.

There is one lemma per action (`IInv_<Action>`), and `NextIInv` combines them.
TLC checks `IInv` as an invariant of `rendezvous_safety` before it is
proved.

### Breakpoints (`GdbBreakpoints_proofs`)

The assumption is `BkptAssumption`: a positive number of slots and a finite
set of positive addresses. For every such table:

- `BkptTypeCorrect`: `Spec => []TypeOK`.
- `OneLivePerAddress`: `Spec => []AtMostOneLive`.
- `MemoryFaithful`: `"remove" \notin ArchFails => (Spec => []MemFaithful)`.
  The hypothesis is needed: `breakpoints_restore` shows the property fails
  when the remove can fail.

The inductive invariant `BInv` adds two facts to the type and to
`AtMostOneLive`:

- `Quiet`: no slot is ACTIVE outside `"running"`. This is why the duplicate
  check over BP_SET slots alone is enough: every Z0 runs in a session, where
  every live slot is SET.
- `AddrOK`: a slot that is not UNDEFINED holds a real address, so arming it
  reads memory at an address that exists.

`MInv = BInv /\ MemFaithful`. In a session `Quiet` makes memory equal to the
program (lemma `QuietMem`). Arming then saves the program, because the SET
slots have distinct addresses. Restoring with no failure puts back what was
saved. The least-index searches of `GdbSetSwBkpt` rest on the lemma `LeastIn`,
which follows from the well-foundedness of `<` on `Nat`.

### Atomics (`ArmAtomic_proofs`)

**Assumptions.** `WordAssumption` says `W` is a positive natural and that
`2^W` is a positive natural. The second conjunct is true for every `W`, but
the provers have no axioms for `^` with a symbolic exponent, so the
assumption states it. The theorems take as hypothesis `CallsOK`:

- every call is one of the `ldrex`/`strex`, lone-`ldrexd` or single-access
  functions, that is, all but `PRT_AtomicOr`/`And`;
- its operands fit its location's width.

**Theorems.** For every width and every set of cores:

- `AtomicTypeCorrect`: `CallsOK => (Spec => []TypeOK)`. No add, sub, carry or
  borrow ever leaves a location outside its width.

`MonitorExact` (a core whose tag survives to its `strex` holds the
location's current value) is not a theorem of its own: it is a conjunct of
the inductive invariant, which the refinement proof below needs.

**Inductive invariant.** `AInv = TypeOK /\ reg \in [Core -> Int] /\ PcFn /\
MonitorExact`. `PcFn` ties each program point to the functions that can be
there:

- only `ArchAtomicRead` at `"load"`;
- only `ArchAtomicSet` at `"store"`;
- no lone `ldrexd` at `"strex"`.

This is what makes the value a store writes a value of its location.

**Lemmas.**

- `EffectInRange` has one case per function. It rests on `WordRange`,
  `PairRange` and `HalvesRange`: `Word` is a residue, and the `adds`/`adc`
  and `subs`/`sbc` halves recombine into a pair.
- `MonitorExact` is kept because a successful `strex` or a plain store clears
  the tags of every other core on the location, and a core's own `ldrex` sets
  the tag and the register from the same value.

There is one lemma per action, and `ANext` combines them.

### Atomics refinement (`ArmAtomicRefinement_proofs`)

**Theorem.** `LinearizableThm`: `CallsOK /\ LinOK => (Spec => Linearizable)`,
for every word width and every set of cores. The `ldrex`/`strex` loops and
the plain accesses implement `ArmAtomicSpec` under the refinement mapping
`Abs` of `ArmAtomic`. The mapping sends a core's program point to `"idle"`,
`"busy"` or `"done"`.

**Hypothesis.** `LinOK` says that every call is of `LinFns`. These are the
functions of `AtomicFns` whose code matches their doc comment. Left out:

- `PRT_AtomicCompareAndStore32`, which passes its operands swapped;
- the three `PRT_AtomicFetchAndAdd*`, which return the new value.

The `atomics_doc` run shows that these functions, and `PRT_AtomicOr`/`And`,
break `Linearizable` (findings 6-8). So for them `Linearizable` is false, not
merely unproved.

**Step mapping.**

| Code step | Spec step |
|---|---|
| `Invoke` | `AInvoke` |
| `Return` | `AReturn` |
| a lone `ldrexd` | `AApply` |
| the `ldrex` of a compare whose `teq` fails | `AApply` |
| a `strex` that keeps its tag | `AApply` |
| `ArchAtomicRead`'s load | `AApply` |
| `ArchAtomicSet`'s store | `AApply` |
| any other `ldrex` | stutter |
| a failed `strex` | stutter |
| `Clrex` | stutter |

`ApplyStep` proves once that a step writing what the function computes from
the location's current value is an `AApply` step. A successful `strex` meets
that condition because of `MonitorExact`: the register holds the current
value.

**Inductive invariant.** `AInv /\ StrexStores`. `StrexStores` says that a
core at its `strex` holds a value on which its function stores. Without it, a
compare that reached `strex` could store where the promise leaves the value
alone. TLC checked it on the `atomics_safety` instance before the proof.

**Lemmas.**

- `EffectMatches` has one case per function of `LinFns`. It shows that the
  code's result equals the promise, and that the code's store equals the
  promised new value unless the function is a load or a failed compare.
- The 64-bit arithmetic rests on `AddHalvesWord64` and `SubHalvesWord64`:
  `adds`/`adc` (`subs`/`sbc`) on the halves, with the carry (borrow), is
  addition (subtraction) modulo `M * M`. The proof splits on the carry and
  uses `ModUnique`, the uniqueness of a remainder.
- `PairEqual` covers the `teq`/`teqeq` compare of both halves.

**TLC only.** `EveryCallReturns` is liveness under fairness, which TLAPS does
not handle, so TLC alone checks it.

### Session (`GdbSession_proofs`)

**Assumptions.** `SessionAssumption` fixes the following:

- the cores are a finite set of naturals and `Primary` is one of them;
- `2^AW` is a positive natural, stated for the provers;
- every field of a packet is a natural, as `OsGdbHex2U64` returns.

**Theorem.** `SelectedCoreKnownThm`: `MaxCoreNum < 256 => (Spec =>
[]SelectedCoreKnown)`. It holds for every core set, address width and packet
set, and for any interleaving of the primary's two init steps with the
secondaries. The hypothesis is needed. `GdbCmdSetThread` range-checks the
`int` id but passes `(U8)id` to `OsCpuOnlineCheckMask`. With
`MAX_CORE_NUM >= 256`, an id whose low byte names an online core would be
accepted while the core itself is offline.

**Inductive invariant.** `SInv` has four conjuncts:

- online cores are cores;
- the loop state is one of its three values;
- once the die notifier is registered, `g_firstCoreId` is the primary, and
  the primary has run `OsGdbStubInit`;
- a running session was entered through the notifier, and
  `SelectedCoreKnown` holds.

`SelectedCoreKnown` alone is not inductive: it says nothing of
`g_firstCoreId`, which `H-1` copies into `g_coreId`.

**Lemmas.**

- `ReceiveFrame` has one step per handler of the dispatch table. It shows
  that a packet step leaves stub init and `g_prevCoreId` alone, and that
  `g_coreId` changes only to `g_firstCoreId` or to an id that `ThreadIdOK`
  accepts.
- `ThreadIdOnline` shows that for an accepted id the U8 cast is the identity,
  so the id itself is online.

**Theorem.** `SessionTypeCorrect`: `Spec => []TypeOK`, for every finite core
set. Its content is the counting: `g_onlineCores` equals the number of cores
in `g_onlineBitmap`, and `g_thIdx`, which `qsThreadInfo` advances, never passes
the core count. The inductive invariant `TInv` adds one fact to `TypeOK`:
`g_coreId` is an integer, because `s` copies it into `g_ssCoreId`.

- `OnlineCard` bounds the cardinality of the online set by that of the core
  set, using `FS_Subset` from `FiniteSetTheorems`.
- `ReceiveTFrame` has one step per state-changing handler. It shows what a
  packet may do to the typed variables: `k` sets `g_exitDbg`, `c` and `s`
  set the single-step pair, and `q` moves `g_thIdx` to 0 or to at most
  `g_onlineCores`.
- A secondary's `StubInit` and `PrimarySmpInit` add a core that was not
  online, so `FS_AddElement` gives the new count.

**Action theorem.** `SsFlgOwnStepThm`: `Spec => SsFlgOwnStep`, for every
core set and any host packets. A session that ends with `g_ssFlg` set names
its own serving core in `g_ssCoreId`. It rests on the invariant `SsCore`:
while a session runs, `g_prevCoreId` is the serving core and `g_ssCoreId` is
that core or none. `ReceiveSs` has one step per handler. It shows that an
`H` selecting another core clears `g_ssFlg` (the `'s'` handler sets both
fields).

### Periodic tasks (`TaskPeriod_proofs`)

**Assumption.** `PeriodAssumption` says that `TW` and `2^TW` are positive
naturals, that `TM_NOW`, the dates and the periods are U32 values of that
width, and that `TPid` is not 0.

**Theorems.** For every tick width, date and period set, and every bound:

- `PeriodTypeCorrect`: `Spec => []TypeOK`. In particular `idxRollNum` and
  `interval` stay U32 values through `idate - now`.
- `NoPhantomThm`: `Spec => []NoPhantomPeriods`. The SIGALRMs
  `PRT_TaskWaitPeriod` took plus the overruns it reported never exceed the
  expiries signalled to T, whoever programs the timer and on whichever core
  it runs. The race of finding 13 loses counts; nothing invents one.

**Argument.** `NoPhantomPeriods` is not inductive: an overrun read into
`*overruns` but not yet cleared would be counted twice. `PInv = TypeOK /\
Books` is, where `Books` adds the pending signal and `HeldOverrun` (the
larger of the overrun read at line 148 and the current count, while T is
between the read and the clear) to the left side. TLC checked `PInv` on
the `period_safety` instance first. There is one lemma per action. Each
lemma first gets the Boolean variables' types with Zenon, then the rest
with SMT, because SMT alone does not settle them. `PeriodicServed` and
`OverrunAccounted` are false, and TLC shows how (findings 9-13).

TLC alone checks liveness (`EveryEntryReturns`) and the `AllParked`
violation. TLAPS does not handle liveness under fairness or `ENABLED`.

## 6. Not modelled yet, and the plan

In order:

1. `GdbStub`: composes the rendezvous with the breakpoint table (activation
   only while all cores are parked), and refines an abstract stop-the-world
   spec.
2. `ClkCycleCount`: the split 64-bit counter read of the d9_secure demo.
3. The armv7-r interrupt tail's tick catch-up loop.

Left out for good:

- register layouts and headers;
- coredump formatting;
- the demos' register setup;
- the test suite.

None of these has a protocol to check.
