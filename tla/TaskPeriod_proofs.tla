--------------------------- MODULE TaskPeriod_proofs ---------------------------
(***************************************************************************)
(* Proofs about periodic tasks for every tick width, date and period set  *)
(* and every bound: the timer state keeps its type, and PRT_TaskWaitPeriod *)
(* never reports more periods than the timer signalled to the task, even  *)
(* when a timer of another core updates overrun between its read and its  *)
(* clear.                                                                  *)
(***************************************************************************)
EXTENDS TaskPeriod, TLAPS

USE PeriodAssumption

(* The overrun count the books must cover: while T holds a value read at  *)
(* line 148 and has not yet cleared the count, the larger of the two.      *)
HeldOverrun == IF wpc = "clear" /\ ovr > overrun THEN ovr ELSE overrun

(* Periods T was told of, plus those still to be told, never exceed the   *)
(* expiries signalled to it.                                               *)
Books ==
  consumed + reported + (IF pending THEN 1 ELSE 0) + HeldOverrun <= expired

(* The inductive invariant: the type, and the books.                       *)
PInv == TypeOK /\ Books

(* The initial state satisfies PInv.                                       *)
LEMMA InitPInv == Init => PInv
<1>. SUFFICES ASSUME Init PROVE PInv
  OBVIOUS
<1>1. itimer \in BOOLEAN /\ periodic \in BOOLEAN /\ pending \in BOOLEAN
  BY Zenon DEF Init
<1>2. TypeOK
  BY <1>1 DEF Init, TypeOK, Callers, NoTimer
<1>3. Books
  BY DEF Init, Books, HeldOverrun
<1>. QED  BY <1>2, <1>3 DEF PInv

(* A tick, with or without an expiry, preserves PInv.                     *)
LEMMA TickPInv ==
  ASSUME PInv, Tick
  PROVE  PInv'
<1>1. itimer' \in BOOLEAN /\ periodic' \in BOOLEAN /\ pending' \in BOOLEAN
  BY Zenon DEF PInv, TypeOK, Tick, setVars, waitVars
<1>2. TypeOK'
  BY <1>1 DEF PInv, TypeOK, Tick, setVars, waitVars
<1>3. Books'
  BY DEF PInv, TypeOK, Books, HeldOverrun, Tick, setVars, waitVars
<1>. QED  BY <1>2, <1>3 DEF PInv

(* The first step of PRT_TaskSetPeriodic preserves PInv.                  *)
LEMMA SetPeriodicPInv ==
  ASSUME PInv, NEW who \in Callers, NEW pid \in {0, TPid},
         NEW d \in Dates, NEW p \in Periods, SetPeriodic(who, pid, d, p)
  PROVE  PInv'
<1>1. itimer' \in BOOLEAN /\ periodic' \in BOOLEAN /\ pending' \in BOOLEAN
  BY Zenon DEF PInv, TypeOK, SetPeriodic, waitVars
<1>2. TypeOK'
  BY <1>1 DEF PInv, TypeOK, SetPeriodic, waitVars, Now, EINVAL, ETIMEDOUT, NoDue, NoTimer
<1>3. Books'
  BY DEF PInv, TypeOK, Books, HeldOverrun, SetPeriodic, waitVars
<1>. QED  BY <1>2, <1>3 DEF PInv

(* PRT_TimerStop in OsPeriodTimerSetTime preserves PInv.                  *)
LEMMA StopPInv ==
  ASSUME PInv, Stop
  PROVE  PInv'
<1>1. itimer' \in BOOLEAN /\ periodic' \in BOOLEAN /\ pending' \in BOOLEAN
  BY Zenon DEF PInv, TypeOK, Stop, waitVars
<1>2. TypeOK'
  BY <1>1 DEF PInv, TypeOK, Stop, waitVars, EINVAL, OS_OK, NoDue
<1>3. Books'
  BY DEF PInv, TypeOK, Books, HeldOverrun, Stop, waitVars
<1>. QED  BY <1>2, <1>3 DEF PInv

(* The locked section of OsPeriodTimerSetTime preserves PInv.             *)
LEMMA ArmPInv ==
  ASSUME PInv, Arm
  PROVE  PInv'
<1>1. itimer' \in BOOLEAN /\ periodic' \in BOOLEAN /\ pending' \in BOOLEAN
  BY Zenon DEF PInv, TypeOK, Arm, waitVars
<1>2. TypeOK'
  BY <1>1 DEF PInv, TypeOK, Arm, waitVars, Now
<1>3. Books'
  BY DEF PInv, TypeOK, Books, HeldOverrun, Arm, waitVars
<1>. QED  BY <1>2, <1>3 DEF PInv

(* PRT_TimerStart preserves PInv.                                         *)
LEMMA StartPInv ==
  ASSUME PInv, Start
  PROVE  PInv'
<1>1. itimer' \in BOOLEAN /\ periodic' \in BOOLEAN /\ pending' \in BOOLEAN
  BY Zenon DEF PInv, TypeOK, Start, waitVars
<1>2. TypeOK'
  BY <1>1 DEF PInv, TypeOK, Start, waitVars, EINVAL, OS_OK
<1>3. Books'
  BY DEF PInv, TypeOK, Books, HeldOverrun, Start, waitVars
<1>. QED  BY <1>2, <1>3 DEF PInv

(* The flag test of PRT_TaskWaitPeriod preserves PInv.                    *)
LEMMA WaitPeriodPInv ==
  ASSUME PInv, NEW ovp \in BOOLEAN, WaitPeriod(ovp)
  PROVE  PInv'
<1>1. itimer' \in BOOLEAN /\ periodic' \in BOOLEAN /\ pending' \in BOOLEAN
  BY Zenon DEF PInv, TypeOK, WaitPeriod, timerVars, setVars
<1>2. TypeOK'
  BY <1>1 DEF PInv, TypeOK, WaitPeriod, timerVars, setVars, EWOULDBLOCK
<1>3. Books'
  BY DEF PInv, TypeOK, Books, HeldOverrun, WaitPeriod, timerVars, setVars
<1>. QED  BY <1>2, <1>3 DEF PInv

(* Taking the SIGALRM, or an interrupted wait, preserves PInv.            *)
LEMMA SignalWaitPInv ==
  ASSUME PInv, SignalWait
  PROVE  PInv'
<1>1. itimer' \in BOOLEAN /\ periodic' \in BOOLEAN /\ pending' \in BOOLEAN
  BY Zenon DEF PInv, TypeOK, SignalWait, timerVars, setVars
<1>2. TypeOK'
  BY <1>1 DEF PInv, TypeOK, SignalWait, timerVars, setVars, OS_OK, EINTR
<1>3. Books'
  BY DEF PInv, TypeOK, Books, HeldOverrun, SignalWait, timerVars, setVars
<1>. QED  BY <1>2, <1>3 DEF PInv

(* Reading the overrun count preserves PInv.                              *)
LEMMA ReadOverrunPInv ==
  ASSUME PInv, ReadOverrun
  PROVE  PInv'
<1>1. itimer' \in BOOLEAN /\ periodic' \in BOOLEAN /\ pending' \in BOOLEAN
  BY Zenon DEF PInv, TypeOK, ReadOverrun, timerVars, setVars
<1>2. TypeOK'
  BY <1>1 DEF PInv, TypeOK, ReadOverrun, timerVars, setVars
<1>3. Books'
  BY DEF PInv, TypeOK, Books, HeldOverrun, ReadOverrun, timerVars, setVars
<1>. QED  BY <1>2, <1>3 DEF PInv

(* Clearing the overrun count and returning preserves PInv.               *)
LEMMA ClearOverrunPInv ==
  ASSUME PInv, ClearOverrun
  PROVE  PInv'
<1>1. itimer' \in BOOLEAN /\ periodic' \in BOOLEAN /\ pending' \in BOOLEAN
  BY Zenon DEF PInv, TypeOK, ClearOverrun, setVars
<1>2. TypeOK'
  BY <1>1 DEF PInv, TypeOK, ClearOverrun, setVars, OS_OK, ETIMEDOUT
<1>3. Books'
  BY DEF PInv, TypeOK, Books, HeldOverrun, ClearOverrun, setVars
<1>. QED  BY <1>2, <1>3 DEF PInv

(* Every step of the model preserves PInv.                                 *)
LEMMA NextPInv == PInv /\ [Next]_vars => PInv'
<1>. SUFFICES ASSUME PInv, [Next]_vars PROVE PInv'
  OBVIOUS
<1>1. CASE UNCHANGED vars
  <2>1. itimer' \in BOOLEAN /\ periodic' \in BOOLEAN /\ pending' \in BOOLEAN
    BY <1>1, Zenon DEF PInv, TypeOK, vars
  <2>. QED  BY <1>1, <2>1 DEF PInv, TypeOK, Books, HeldOverrun, vars
<1>. QED
  BY <1>1, TickPInv, SetPeriodicPInv, StopPInv, ArmPInv, StartPInv,
     WaitPeriodPInv, SignalWaitPInv, ReadOverrunPInv, ClearOverrunPInv
  DEF Next

(* Whatever ticks, reprogramming calls and waits interleave, every        *)
(* variable of the timer and of both calls keeps its type; in particular   *)
(* idxRollNum and interval stay U32 values through idate - now.           *)
THEOREM PeriodTypeCorrect == Spec => []TypeOK
<1>1. PInv => TypeOK
  BY DEF PInv
<1>. QED  BY InitPInv, NextPInv, <1>1, PTL DEF Spec

(* PRT_TaskWaitPeriod never tells T of more periods than the timer        *)
(* signalled to it (NoPhantomPeriods), for every bound, whatever core the *)
(* timer or the reprogramming task runs on: an update of overrun between  *)
(* the read and the clear of lines 148-149 can lose a count, never add one. *)
THEOREM NoPhantomThm == Spec => []NoPhantomPeriods
<1>1. PInv => NoPhantomPeriods
  BY DEF PInv, TypeOK, Books, HeldOverrun, NoPhantomPeriods
<1>. QED  BY InitPInv, NextPInv, <1>1, PTL DEF Spec
=============================================================================
