------------------------------ MODULE TaskPeriod ------------------------------
(***************************************************************************)
(* Periodic tasks (src/src/core/kernel/task/smp/prt_task_period.c).        *)
(*                                                                         *)
(* One periodic task T and its software timer.  T itself (passing its     *)
(* handle or 0, "the running task"), or another task on T's core or on    *)
(* another core, calls PRT_TaskSetPeriodic for T while T runs             *)
(* PRT_TaskWaitPeriod, and the tick interrupt runs between their steps.   *)
(* Each step is one interrupt-locked section or one call into the timer   *)
(* or signal layer.  OsIntLock masks interrupts of its own core only, so  *)
(* a section excludes the tick and the tasks of that core alone.          *)
(*                                                                         *)
(* The timer and signal layers are not in the repository; the model gives *)
(* them the behaviour the code relies on (see Tick and the README):       *)
(* PRT_TimerStop/Start/Delete move the timer between "created", "running" *)
(* and "deleted"; a running timer fires on the core that started it when  *)
(* idxRollNum runs out, then reloads interval (loop) or stops (once);      *)
(* SIGALRM does not queue, and an expiry while it is still pending counts *)
(* one overrun.                                                            *)
(***************************************************************************)
EXTENDS Integers

CONSTANTS
  TW,         \* bits of the U32 tick values (32 in the code)
  TM_NOW,     \* the idate that means "one period from now"
  TPid,       \* T's task handle, not 0: handle 0 is another task
  Dates,      \* idate arguments of PRT_TaskSetPeriodic
  Periods,    \* period arguments
  MaxTicks,   \* ticks since boot the model runs for
  MaxCalls,   \* calls of PRT_TaskSetPeriodic
  MaxWaits    \* calls of PRT_TaskWaitPeriod

T == 2 ^ TW   \* values of a U32

ASSUME PeriodAssumption ==
  /\ TW \in Nat \ {0} /\ T \in Nat \ {0}
  /\ TM_NOW \in 0 .. T - 1 /\ TPid # 0
  /\ Dates \subseteq 0 .. T - 1 /\ Periods \subseteq 0 .. T - 1
  /\ MaxTicks \in Nat /\ MaxCalls \in Nat /\ MaxWaits \in Nat

OS_OK == 0
EINVAL == "EINVAL"
ETIMEDOUT == "ETIMEDOUT"
EWOULDBLOCK == "EWOULDBLOCK"
EINTR == "EINTR"
NoDue == -1
NoTimer == -1

(* Who calls PRT_TaskSetPeriodic: T itself, another task on T's core, or  *)
(* a task on another core.                                                 *)
Callers == {"T", "same", "other"}

VARIABLES
  clk,       \* ticks since boot; PRT_TickGetCount() cast to U32 is clk % T
  itimer,    \* tskCb->itimer is a timer handle (non-zero)
  periodic,  \* OS_TSK_SET_PERIODIC in tskCb->taskStatus
  tmr,       \* the timer: "none", "created", "running" or "deleted"
  arg1,      \* the task handle the timer's callback signals (arg1)
  tcore,     \* the core whose tick runs the timer: "T" or "other"
  mode,      \* swtmr->mode: "loop" or "once"
  interval,  \* swtmr->interval
  rem,       \* swtmr->idxRollNum: ticks to the next expiry
  overrun,   \* swtmr->overrun
  pending,   \* SIGALRM is pending for T
  spc,       \* PRT_TaskSetPeriodic: "idle", "stop", "arm" or "start"
  caller,    \* who runs it
  idate,     \* its idate after the TM_NOW conversion
  period,    \* its period
  sret,      \* what it returned last
  calls,     \* calls of it so far
  wpc,       \* PRT_TaskWaitPeriod: "idle", "wait", "waitNull", "read", "clear"
  ovr,       \* *overruns, read at line 148
  wret,      \* what it returned last
  waits,     \* calls of it so far
  due,       \* tick (since boot) the caller asked the first SIGALRM for
  expired,   \* expiries of the timer whose SIGALRM went to T
  consumed,  \* SIGALRMs PRT_SignalWait took
  reported,  \* overruns PRT_TaskWaitPeriod handed to its caller
  dropped    \* overruns discarded when the timer was reprogrammed

vars == <<clk, itimer, periodic, tmr, arg1, tcore, mode, interval, rem,
          overrun, pending, spc, caller, idate, period, sret, calls, wpc, ovr,
          wret, waits, due, expired, consumed, reported, dropped>>
timerVars == <<tmr, arg1, tcore, mode, interval, rem, overrun>>
setVars == <<spc, caller, idate, period, sret, calls>>
waitVars == <<wpc, ovr, wret, waits, consumed, reported>>

Now == clk % T                     \* (U32)PRT_TickGetCount()

Init ==
  /\ clk = 0 /\ itimer = FALSE /\ periodic = FALSE
  /\ tmr = "none" /\ arg1 = NoTimer /\ tcore = "T"
  /\ mode = "once" /\ interval = 0 /\ rem = 0 /\ overrun = 0
  /\ pending = FALSE
  /\ spc = "idle" /\ caller = "T" /\ idate = 0 /\ period = 0 /\ sret = OS_OK
  /\ calls = 0
  /\ wpc = "idle" /\ ovr = 0 /\ wret = OS_OK /\ waits = 0
  /\ due = NoDue /\ expired = 0 /\ consumed = 0 /\ reported = 0 /\ dropped = 0

-----------------------------------------------------------------------------
(* A tick.  A running timer whose idxRollNum runs out fires its callback,  *)
(* OsDelieverSigPeriod (lines 21-33), which delivers SIGALRM to the task   *)
(* arg1 under the interrupt lock; a loop timer reloads interval, a once    *)
(* timer stops.  While T holds its own interrupt lock (reading overrun,    *)
(* lines 147-150) only a timer of another core can fire.                   *)
Tick ==
  /\ clk < MaxTicks
  /\ wpc = "clear" => tcore = "other"
  /\ clk' = clk + 1
  /\ IF tmr = "running" /\ rem <= 1
       THEN /\ IF arg1 = TPid
                 THEN /\ pending' = TRUE
                      /\ overrun' = IF pending THEN overrun + 1 ELSE overrun
                      /\ expired' = expired + 1
                 ELSE UNCHANGED <<pending, overrun, expired>>  \* to handle 0
            /\ rem' = IF mode = "loop" THEN interval ELSE 0
            /\ tmr' = IF mode = "loop" THEN "running" ELSE "created"
            /\ due' = NoDue
       ELSE /\ rem' = IF tmr = "running" THEN rem - 1 ELSE rem
            /\ UNCHANGED <<pending, overrun, expired, tmr, due>>
  /\ UNCHANGED <<itimer, periodic, arg1, tcore, mode, interval, setVars,
                 dropped, waitVars>>

(* PRT_TaskSetPeriodic(pid, d, p) up to the call of OsPeriodTimerSetTime   *)
(* (lines 89-118), called by who.  pid 0 names the running task (lines     *)
(* 94-95), so only T passes it.  Under the interrupt lock a task with      *)
(* neither a timer nor the flag gets a loop timer whose callback signals   *)
(* the task pid as passed (OsPeriodTimerCreate, lines 35-57, which fails   *)
(* when no timer is free) and the flag; then the tick is read, TM_NOW      *)
(* becomes now + period, and a date already past deletes the timer and    *)
(* fails, leaving tskCb->itimer and the flag as they are.                  *)
SetPeriodic(who, pid, d, p) ==
  LET now == Now
      create == ~itimer /\ ~periodic
  IN
  /\ spc = "idle" /\ calls < MaxCalls
  /\ who = "T" => wpc = "idle"
  /\ calls' = calls + 1 /\ caller' = who
  /\ period' = p
  /\ \/ /\ create                           \* PRT_TimerCreate fails
        /\ sret' = EINVAL /\ due' = NoDue
        /\ UNCHANGED <<itimer, periodic, tmr, arg1, idate, spc>>
     \/ /\ itimer' = TRUE /\ periodic' = TRUE
        /\ arg1' = IF create THEN pid ELSE arg1
        /\ LET t == IF create THEN "created" ELSE tmr IN
           CASE d = TM_NOW ->
                  /\ idate' = (now + p) % T /\ due' = clk + p
                  /\ tmr' = t /\ spc' = "stop" /\ UNCHANGED sret
             [] d < now ->
                  /\ tmr' = "deleted" /\ sret' = ETIMEDOUT /\ due' = NoDue
                  /\ UNCHANGED <<idate, spc>>
             [] OTHER ->
                  /\ idate' = d /\ due' = clk + (d - now)
                  /\ tmr' = t /\ spc' = "stop" /\ UNCHANGED sret
  /\ UNCHANGED <<clk, tcore, mode, interval, rem, overrun, pending, expired,
                 dropped, waitVars>>

(* OsPeriodTimerSetTime, lines 63-70: PRT_TimerStop succeeds on a running *)
(* timer and answers OS_ERRNO_SWTMR_UNSTART on a stopped one; on a deleted *)
(* timer it fails, and PRT_TaskSetPeriodic deletes the timer (line 122).   *)
(* An idate of 0 returns OS_OK with the timer stopped.                     *)
Stop ==
  /\ spc = "stop"
  /\ IF tmr = "deleted"
       THEN /\ sret' = EINVAL /\ due' = NoDue /\ spc' = "idle"
            /\ UNCHANGED tmr
       ELSE /\ tmr' = "created"
            /\ IF idate = 0 THEN spc' = "idle" /\ sret' = OS_OK
                            ELSE spc' = "arm" /\ UNCHANGED sret
            /\ UNCHANGED due
  /\ UNCHANGED <<clk, itimer, periodic, arg1, tcore, mode, interval, rem,
                 overrun, pending, caller, idate, period, calls, expired,
                 dropped, waitVars>>

(* Lines 72-79: the tick is read again, and under the caller's interrupt  *)
(* lock the mode, interval, first expiry idate - now (U32 arithmetic) and *)
(* overrun are written.  The lock excludes T's read of overrun only when   *)
(* the caller runs on T's core.                                            *)
Arm ==
  LET first == (idate - Now) % T IN
  /\ spc = "arm"
  /\ wpc = "clear" => caller = "other"
  /\ mode' = IF period # 0 THEN "loop" ELSE "once"
  /\ interval' = IF period # 0 THEN period ELSE first
  /\ rem' = first
  /\ overrun' = 0 /\ dropped' = dropped + overrun
  /\ spc' = "start"
  /\ UNCHANGED <<clk, itimer, periodic, tmr, arg1, tcore, pending, caller,
                 idate, period, sret, calls, due, expired, waitVars>>

(* Lines 81-86 and 120-125: PRT_TimerStart on the stopped timer, which    *)
(* then runs on the caller's core.                                         *)
Start ==
  /\ spc = "start"
  /\ tmr' = IF tmr = "created" THEN "running" ELSE "deleted"
  /\ sret' = IF tmr = "created" THEN OS_OK ELSE EINVAL
  /\ tcore' = IF tmr = "created" /\ caller = "other" THEN "other"
              ELSE IF tmr = "created" THEN "T" ELSE tcore
  /\ spc' = "idle"
  /\ UNCHANGED <<clk, itimer, periodic, arg1, mode, interval, rem, overrun,
                 pending, caller, idate, period, calls, due, expired, dropped,
                 waitVars>>

(* PRT_TaskWaitPeriod, lines 128-140: a task without the flag gets        *)
(* -EWOULDBLOCK; otherwise it waits for SIGALRM for ever.  ovp says       *)
(* whether the caller passed an overruns pointer.  T is not in            *)
(* PRT_TaskSetPeriodic meanwhile.                                          *)
WaitPeriod(ovp) ==
  /\ wpc = "idle" /\ waits < MaxWaits
  /\ spc # "idle" => caller # "T"
  /\ waits' = waits + 1
  /\ IF periodic
       THEN wpc' = (IF ovp THEN "wait" ELSE "waitNull") /\ UNCHANGED wret
       ELSE wret' = EWOULDBLOCK /\ UNCHANGED wpc
  /\ UNCHANGED <<clk, itimer, periodic, timerVars, pending, setVars, ovr,
                 due, expired, consumed, reported, dropped>>

(* PRT_SignalWait returns with the pending SIGALRM taken (line 140); with *)
(* no overruns pointer the call returns OS_OK (lines 145, 156).  Or the   *)
(* wait fails (interrupted) and the call returns -EINTR (lines 141-142).   *)
SignalWait ==
  /\ wpc \in {"wait", "waitNull"}
  /\ \/ /\ pending
        /\ pending' = FALSE /\ consumed' = consumed + 1
        /\ IF wpc = "wait" THEN wpc' = "read" /\ UNCHANGED wret
                           ELSE wpc' = "idle" /\ wret' = OS_OK
     \/ /\ wpc' = "idle" /\ wret' = EINTR
        /\ UNCHANGED <<pending, consumed>>
  /\ UNCHANGED <<clk, itimer, periodic, timerVars, setVars, ovr, waits, due,
                 expired, reported, dropped>>

(* Lines 146-148: under T's interrupt lock *overruns = swtmr->overrun.     *)
ReadOverrun ==
  /\ wpc = "read"
  /\ ovr' = overrun /\ wpc' = "clear"
  /\ UNCHANGED <<clk, itimer, periodic, timerVars, pending, setVars, wret,
                 waits, due, expired, consumed, reported, dropped>>

(* Mutant: the count is not cleared after it is read.                     *)
ClearOverrunKeep ==
  /\ wpc = "clear"
  /\ reported' = reported + ovr /\ overrun' = overrun
  /\ wret' = IF ovr # 0 THEN ETIMEDOUT ELSE OS_OK
  /\ wpc' = "idle"
  /\ UNCHANGED <<clk, itimer, periodic, tmr, arg1, tcore, mode, interval,
                 rem, pending, setVars, ovr, waits, due, expired, consumed,
                 dropped>>

(* Lines 149-156: swtmr->overrun = 0, the lock is released, and a non-zero *)
(* count returns -ETIMEDOUT.                                               *)
ClearOverrun ==
  /\ wpc = "clear"
  /\ reported' = reported + ovr /\ overrun' = 0
  /\ wret' = IF ovr # 0 THEN ETIMEDOUT ELSE OS_OK
  /\ wpc' = "idle"
  /\ UNCHANGED <<clk, itimer, periodic, tmr, arg1, tcore, mode, interval,
                 rem, pending, setVars, ovr, waits, due, expired, consumed,
                 dropped>>

Next ==
  \/ Tick
  \/ \E who \in Callers, pid \in {0, TPid}, d \in Dates, p \in Periods :
        /\ pid = 0 => who = "T"
        /\ SetPeriodic(who, pid, d, p)
  \/ Stop \/ Arm \/ Start
  \/ \E ovp \in BOOLEAN : WaitPeriod(ovp)
  \/ SignalWait \/ ReadOverrun \/ ClearOverrun

Spec == Init /\ [][Next]_vars
-----------------------------------------------------------------------------
(* Every variable holds a value of its kind.                               *)
TypeOK ==
  /\ clk \in 0 .. MaxTicks /\ itimer \in BOOLEAN /\ periodic \in BOOLEAN
  /\ tmr \in {"none", "created", "running", "deleted"}
  /\ arg1 \in {NoTimer, 0, TPid} /\ tcore \in {"T", "other"}
  /\ mode \in {"loop", "once"} /\ interval \in 0 .. T - 1 /\ rem \in 0 .. T - 1
  /\ overrun \in Nat /\ pending \in BOOLEAN
  /\ spc \in {"idle", "stop", "arm", "start"} /\ caller \in Callers
  /\ idate \in 0 .. T - 1
  /\ period \in Periods \cup {0} /\ calls \in 0 .. MaxCalls
  /\ wpc \in {"idle", "wait", "waitNull", "read", "clear"} /\ ovr \in Nat
  /\ waits \in 0 .. MaxWaits
  /\ {expired, consumed, reported, dropped} \subseteq Nat

(* PRT_TaskWaitPeriod never tells T of more periods than have passed: the *)
(* SIGALRMs it took plus the overruns it reported never exceed the        *)
(* expiries signalled to T, however the tick, a reprogramming task on any *)
(* core and the read and clear of overrun (lines 146-150) interleave.     *)
NoPhantomPeriods ==
  consumed + reported <= expired

(* No expiry signalled to T is lost: each one is a SIGALRM that            *)
(* PRT_TaskWaitPeriod took or that is still pending, an overrun it        *)
(* reported or that the timer still holds, or an overrun that              *)
(* OsPeriodTimerSetTime discarded on purpose (line 78), however the tick,  *)
(* the reprogramming task and the waiting task interleave.                 *)
OverrunAccounted ==
  expired = consumed + reported + dropped + overrun + (IF pending THEN 1 ELSE 0)

(* A periodic task is served.  While OS_TSK_SET_PERIODIC is set, so that  *)
(* PRT_TaskWaitPeriod waits for SIGALRM (line 136), tskCb->itimer names a *)
(* live timer whose callback signals this task (line 49); and after       *)
(* PRT_TaskSetPeriodic returns OS_OK the first SIGALRM comes at the date  *)
(* asked for (idate, or now + period for TM_NOW), or at the next tick if  *)
(* that date has passed meanwhile: the timer runs and its next expiry is  *)
(* not later.                                                              *)
PeriodicServed ==
  /\ periodic => itimer /\ tmr \in {"created", "running"} /\ arg1 = TPid
  /\ due # NoDue /\ spc = "idle" =>
       /\ tmr = "running"
       /\ clk + (IF rem > 1 THEN rem ELSE 1) <= (IF due > clk THEN due ELSE clk + 1)
=============================================================================
