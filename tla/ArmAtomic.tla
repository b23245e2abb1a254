-------------------------------- MODULE ArmAtomic --------------------------------
(***************************************************************************)
(* The armv7-r atomics of os_atomic_armv7_r.h as the cores execute them:   *)
(* ldrex/strex (ldrexd/strexd) retry loops over an exclusive monitor per   *)
(* core, and the plain loads and stores of the functions that use none.    *)
(*                                                                         *)
(* Each C function is one operator giving, for the value its load saw,     *)
(* whether it stores, what it stores and what it returns.  The local       *)
(* instructions between the load and the store (add, adc, teq, mov) touch  *)
(* no shared state, so they are part of the load or the store step.        *)
(***************************************************************************)
EXTENDS AtomicWord

CONSTANTS
  Core,       \* cores (or interrupt contexts) calling the atomics
  Calls,      \* calls they may make: [fn, a, b] records
  MaxCalls,   \* calls per context
  MaxClears   \* exceptions that clear a monitor (CLREX on exception return)

ASSUME AtomicAssumption ==
  /\ MaxCalls \in Nat /\ MaxClears \in Nat

VARIABLES
  mem,      \* the value of each location
  mon,      \* mon[c]: the location c's exclusive monitor is tagged with
  pc,       \* "idle", "ldrex", "strex", "load", "store" or "ret"
  call,     \* the call in progress
  reg,      \* the value the last ldrex/load put in a register
  ret,      \* the value the call returns
  ncalls,   \* calls made so far
  clears    \* monitor clears by exceptions so far

vars == <<mem, mon, pc, call, reg, ret, ncalls, clears>>

NoTag == "open"

Abs == INSTANCE ArmAtomicSpec
         WITH amem <- mem,
              apc <- [c \in Core |-> CASE pc[c] = "idle" -> "idle"
                                       [] pc[c] = "ret"  -> "done"
                                       [] OTHER          -> "busy"],
              acall <- call, aret <- ret, ancalls <- ncalls

Loc(fn) == Abs!Loc(fn)
NoCall == Abs!NoCall

-----------------------------------------------------------------------------
(* The C functions.  old is what the ldrex (or plain load) returned.       *)
Effect(st, n, r) == [store |-> st, new |-> n, ret |-> r]

ArchAtomicRead(old) == Effect(FALSE, old, old)
ArchAtomicSet(setVal) == Effect(TRUE, setVal, Void)
ArchAtomicAdd(old, addVal) == Effect(TRUE, Word(old + addVal), Word(old + addVal))
ArchAtomicSub(old, subVal) == Effect(TRUE, Word(old - subVal), Word(old - subVal))
ArchAtomicInc(old) == Effect(TRUE, Word(old + 1), Void)
ArchAtomicIncRet(old) == Effect(TRUE, Word(old + 1), Word(old + 1))
ArchAtomicDec(old) == Effect(TRUE, Word(old - 1), Void)
ArchAtomicDecRet(old) == Effect(TRUE, Word(old - 1), Word(old - 1))

(* adds %Q / adc %R and subs %Q / sbc %R: the halves with the carry.      *)
AddHalves(x, a) ==
  LET lo == Lo(x) + Lo(a)
  IN  Word(Hi(x) + Hi(a) + (IF lo >= M THEN 1 ELSE 0)) * M + Word(lo)
SubHalves(x, a) ==
  LET borrow == IF Lo(x) < Lo(a) THEN 1 ELSE 0
  IN  Word(Hi(x) - Hi(a) - borrow) * M + Word(Lo(x) - Lo(a))

ArchAtomic64Read(old) == Effect(FALSE, old, old)
ArchAtomic64Set(setVal) == Effect(TRUE, setVal, Void)
ArchAtomic64Add(old, addVal) ==
  Effect(TRUE, AddHalves(old, addVal), AddHalves(old, addVal))
ArchAtomic64Sub(old, subVal) ==
  Effect(TRUE, SubHalves(old, subVal), SubHalves(old, subVal))
ArchAtomic64Inc(old) == Effect(TRUE, AddHalves(old, 1), Void)
ArchAtomic64IncRet(old) == Effect(TRUE, AddHalves(old, 1), AddHalves(old, 1))
ArchAtomic64Dec(old) == Effect(TRUE, SubHalves(old, 1), Void)
ArchAtomic64DecRet(old) == Effect(TRUE, SubHalves(old, 1), SubHalves(old, 1))
ArchAtomicXchg32bits(old, val) == Effect(TRUE, val, old)
ArchAtomicXchg64bits(old, val) == Effect(TRUE, val, old)

(* teq prev, oldVal; strexeq: stores only when equal; returns             *)
(* prevVal != oldVal.  For the pair, teq/teqeq compare both halves.        *)
ArchAtomicCmpXchg32bits(old, val, oldVal) == Effect(old = oldVal, val, B(old # oldVal))
ArchAtomicCmpXchg64bits(old, val, oldVal) ==
  Effect(Lo(old) = Lo(oldVal) /\ Hi(old) = Hi(oldVal), val, B(old # oldVal))

(* The PRT_ wrappers.  (S32)/(U32) casts keep the bits.                   *)
Discard(e) == [e EXCEPT !.ret = Void]
PRT_AtomicAdd32Rtn(old, incr) == ArchAtomicAdd(old, incr)
PRT_AtomicAddU32Rtn(old, incr) == ArchAtomicAdd(old, incr)
PRT_AtomicAdd64Rtn(old, incr) == ArchAtomic64Add(old, incr)
PRT_AtomicAddU64Rtn(old, incr) == ArchAtomic64Add(old, incr)
PRT_AtomicAdd32(old, incr) == Discard(ArchAtomicAdd(old, incr))
PRT_AtomicAddU32(old, incr) == Discard(ArchAtomicAdd(old, incr))
PRT_AtomicAddS64(old, incr) == Discard(ArchAtomic64Add(old, incr))
PRT_AtomicAddU64(old, incr) == Discard(ArchAtomic64Add(old, incr))
PRT_AtomicSwap32(old, newValue) == ArchAtomicXchg32bits(old, newValue)
PRT_AtomicSwap64(old, newValue) == ArchAtomicXchg64bits(old, newValue)
(* Passes (ptr, oldVal, newVal) to ArchAtomicCmpXchg32bits(v, val, oldVal)  *)
(* and answers 0 when that reports a failed compare.                      *)
PRT_AtomicCompareAndStore32(old, oldVal, newVal) ==
  LET e == ArchAtomicCmpXchg32bits(old, oldVal, newVal)
  IN  [e EXCEPT !.ret = IF e.ret # 0 THEN 0 ELSE 1]
PRT_AtomicCompareAndStore64Swapped(old, oldVal, newVal) ==
  LET e == ArchAtomicCmpXchg64bits(old, oldVal, newVal)
  IN  [e EXCEPT !.ret = IF e.ret # 0 THEN 0 ELSE 1]
PRT_AtomicCompareAndStore64(old, oldVal, newVal) ==
  LET e == ArchAtomicCmpXchg64bits(old, newVal, oldVal)
  IN  [e EXCEPT !.ret = IF e.ret # 0 THEN 0 ELSE 1]
PRT_AtomicFetchAndAddS32(old, incr) == ArchAtomicAdd(old, incr)
PRT_AtomicFetchAndAddU32(old, incr) == ArchAtomicAdd(old, incr)
PRT_AtomicFetchAndAddU64(old, incr) == ArchAtomic64Add(old, incr)
PRT_AtomicReadU64(old) == ArchAtomic64Read(old)
(* U32 ret = *addr; *addr = ret | val; return ret;  (no exclusives)        *)
PRT_AtomicOr(old, val) == Effect(TRUE, OrW(old, val), old)
PRT_AtomicAnd(old, val) == Effect(TRUE, AndW(old, val), old)

CodeEffect(k, old) ==
  CASE k.fn = "ArchAtomicRead"          -> ArchAtomicRead(old)
    [] k.fn = "ArchAtomicSet"           -> ArchAtomicSet(k.a)
    [] k.fn = "ArchAtomicAdd"           -> ArchAtomicAdd(old, k.a)
    [] k.fn = "ArchAtomicSub"           -> ArchAtomicSub(old, k.a)
    [] k.fn = "ArchAtomicInc"           -> ArchAtomicInc(old)
    [] k.fn = "ArchAtomicIncRet"        -> ArchAtomicIncRet(old)
    [] k.fn = "ArchAtomicDec"           -> ArchAtomicDec(old)
    [] k.fn = "ArchAtomicDecRet"        -> ArchAtomicDecRet(old)
    [] k.fn = "ArchAtomic64Read"        -> ArchAtomic64Read(old)
    [] k.fn = "ArchAtomic64Set"         -> ArchAtomic64Set(k.a)
    [] k.fn = "ArchAtomic64Add"         -> ArchAtomic64Add(old, k.a)
    [] k.fn = "ArchAtomic64Sub"         -> ArchAtomic64Sub(old, k.a)
    [] k.fn = "ArchAtomic64Inc"         -> ArchAtomic64Inc(old)
    [] k.fn = "ArchAtomic64IncRet"      -> ArchAtomic64IncRet(old)
    [] k.fn = "ArchAtomic64Dec"         -> ArchAtomic64Dec(old)
    [] k.fn = "ArchAtomic64DecRet"      -> ArchAtomic64DecRet(old)
    [] k.fn = "ArchAtomicXchg32bits"    -> ArchAtomicXchg32bits(old, k.a)
    [] k.fn = "ArchAtomicXchg64bits"    -> ArchAtomicXchg64bits(old, k.a)
    [] k.fn = "ArchAtomicCmpXchg32bits" -> ArchAtomicCmpXchg32bits(old, k.a, k.b)
    [] k.fn = "ArchAtomicCmpXchg64bits" -> ArchAtomicCmpXchg64bits(old, k.a, k.b)
    [] k.fn = "PRT_AtomicAdd32Rtn"      -> PRT_AtomicAdd32Rtn(old, k.a)
    [] k.fn = "PRT_AtomicAddU32Rtn"     -> PRT_AtomicAddU32Rtn(old, k.a)
    [] k.fn = "PRT_AtomicAdd64Rtn"      -> PRT_AtomicAdd64Rtn(old, k.a)
    [] k.fn = "PRT_AtomicAddU64Rtn"     -> PRT_AtomicAddU64Rtn(old, k.a)
    [] k.fn = "PRT_AtomicAdd32"         -> PRT_AtomicAdd32(old, k.a)
    [] k.fn = "PRT_AtomicAddU32"        -> PRT_AtomicAddU32(old, k.a)
    [] k.fn = "PRT_AtomicAddS64"        -> PRT_AtomicAddS64(old, k.a)
    [] k.fn = "PRT_AtomicAddU64"        -> PRT_AtomicAddU64(old, k.a)
    [] k.fn = "PRT_AtomicSwap32"        -> PRT_AtomicSwap32(old, k.a)
    [] k.fn = "PRT_AtomicSwap64"        -> PRT_AtomicSwap64(old, k.a)
    [] k.fn = "PRT_AtomicCompareAndStore32" -> PRT_AtomicCompareAndStore32(old, k.a, k.b)
    [] k.fn = "PRT_AtomicCompareAndStore64" -> PRT_AtomicCompareAndStore64(old, k.a, k.b)
    [] k.fn = "PRT_AtomicFetchAndAddS32" -> PRT_AtomicFetchAndAddS32(old, k.a)
    [] k.fn = "PRT_AtomicFetchAndAddU32" -> PRT_AtomicFetchAndAddU32(old, k.a)
    [] k.fn = "PRT_AtomicFetchAndAddU64" -> PRT_AtomicFetchAndAddU64(old, k.a)
    [] k.fn = "PRT_AtomicReadU64"       -> PRT_AtomicReadU64(old)
    [] k.fn = "PRT_AtomicOr"            -> PRT_AtomicOr(old, k.a)
    [] k.fn = "PRT_AtomicAnd"           -> PRT_AtomicAnd(old, k.a)

(* How each function reaches memory.                                       *)
PlainLoadFns  == {"ArchAtomicRead", "PRT_AtomicOr", "PRT_AtomicAnd"}
PlainStoreFns == {"ArchAtomicSet"}
LoadOnlyFns   == {"ArchAtomic64Read", "PRT_AtomicReadU64"}  \* one ldrexd
CompareFns    == {"ArchAtomicCmpXchg32bits", "ArchAtomicCmpXchg64bits",
                  "PRT_AtomicCompareAndStore32", "PRT_AtomicCompareAndStore64"}

-----------------------------------------------------------------------------
Init ==
  /\ mem \in {x \in [Locs -> 0 .. M2 - 1] : x["w32"] < M}
  /\ mon = [c \in Core |-> NoTag]
  /\ pc = [c \in Core |-> "idle"]
  /\ call = [c \in Core |-> NoCall]
  /\ reg = [c \in Core |-> 0]
  /\ ret = [c \in Core |-> Void]
  /\ ncalls = [c \in Core |-> 0]
  /\ clears = 0

(* A core enters one of the functions.                                     *)
Invoke(c, k) ==
  /\ pc[c] = "idle"
  /\ ncalls[c] < MaxCalls
  /\ pc' = [pc EXCEPT ![c] = CASE k.fn \in PlainLoadFns  -> "load"
                               [] k.fn \in PlainStoreFns -> "store"
                               [] OTHER                  -> "ldrex"]
  /\ call' = [call EXCEPT ![c] = k]
  /\ ncalls' = [ncalls EXCEPT ![c] = @ + 1]
  /\ UNCHANGED <<mem, mon, reg, ret, clears>>

(* ldrex/ldrexd: load and tag the monitor.  A lone ldrexd                  *)
(* (ArchAtomic64Read) returns; a compare that fails skips strexeq with     *)
(* status 0 and leaves the loop.                                           *)
Ldrex(c) ==
  /\ pc[c] = "ldrex"
  /\ LET l == Loc(call[c].fn)
         e == CodeEffect(call[c], mem[l])
     IN /\ mon' = [mon EXCEPT ![c] = l]
        /\ reg' = [reg EXCEPT ![c] = mem[l]]
        /\ IF call[c].fn \in LoadOnlyFns \/ (call[c].fn \in CompareFns /\ ~e.store)
             THEN /\ pc' = [pc EXCEPT ![c] = "ret"]
                  /\ ret' = [ret EXCEPT ![c] = e.ret]
             ELSE /\ pc' = [pc EXCEPT ![c] = "strex"]
                  /\ UNCHANGED ret
  /\ UNCHANGED <<mem, call, ncalls, clears>>

(* A store to l sends every monitor tagged with l back to open.            *)
ClearTags(l) == [d \in Core |-> IF mon[d] = l THEN NoTag ELSE mon[d]]

StrexSpin(c) ==
  /\ pc[c] = "strex"
  /\ LET l == Loc(call[c].fn)
         e == CodeEffect(call[c], reg[c])
     IN IF mon[c] = l
          THEN /\ mem' = [mem EXCEPT ![l] = e.new]
               /\ mon' = ClearTags(l)
               /\ pc' = [pc EXCEPT ![c] = "ret"]
               /\ ret' = [ret EXCEPT ![c] = e.ret]
          ELSE /\ mon' = [mon EXCEPT ![c] = NoTag]
               /\ UNCHANGED <<mem, ret, pc>>
  /\ UNCHANGED <<call, reg, ncalls, clears>>

(* strex/strexd: succeeds only while c's monitor still holds the tag;      *)
(* either way the monitor is open afterwards, and a failure loops back to  *)
(* the ldrex (while (status != 0)).                                        *)
Strex(c) ==
  /\ pc[c] = "strex"
  /\ LET l == Loc(call[c].fn)
         e == CodeEffect(call[c], reg[c])
     IN IF mon[c] = l
          THEN /\ mem' = [mem EXCEPT ![l] = e.new]
               /\ mon' = ClearTags(l)
               /\ pc' = [pc EXCEPT ![c] = "ret"]
               /\ ret' = [ret EXCEPT ![c] = e.ret]
          ELSE /\ mon' = [mon EXCEPT ![c] = NoTag]
               /\ pc' = [pc EXCEPT ![c] = "ldrex"]
               /\ UNCHANGED <<mem, ret>>
  /\ UNCHANGED <<call, reg, ncalls, clears>>

(* A plain volatile load (ArchAtomicRead, the first line of              *)
(* PRT_AtomicOr/And).                                                      *)
PlainLoad(c) ==
  /\ pc[c] = "load"
  /\ LET l == Loc(call[c].fn)
         e == CodeEffect(call[c], mem[l])
     IN /\ reg' = [reg EXCEPT ![c] = mem[l]]
        /\ IF e.store
             THEN pc' = [pc EXCEPT ![c] = "store"] /\ UNCHANGED ret
             ELSE /\ pc' = [pc EXCEPT ![c] = "ret"]
                  /\ ret' = [ret EXCEPT ![c] = e.ret]
  /\ UNCHANGED <<mem, mon, call, ncalls, clears>>

(* A plain store: it clears the other cores' tags on the location.         *)
PlainStore(c) ==
  /\ pc[c] = "store"
  /\ LET l == Loc(call[c].fn)
         e == CodeEffect(call[c], reg[c])
     IN /\ mem' = [mem EXCEPT ![l] = e.new]
        /\ mon' = [d \in Core |-> IF d # c /\ mon[d] = l THEN NoTag ELSE mon[d]]
        /\ ret' = [ret EXCEPT ![c] = e.ret]
  /\ pc' = [pc EXCEPT ![c] = "ret"]
  /\ UNCHANGED <<call, reg, ncalls, clears>>

(* An exception between ldrex and strex: its return runs CLREX.            *)
Clrex(c) ==
  /\ clears < MaxClears
  /\ mon[c] # NoTag
  /\ mon' = [mon EXCEPT ![c] = NoTag]
  /\ clears' = clears + 1
  /\ UNCHANGED <<mem, pc, call, reg, ret, ncalls>>

Return(c) ==
  /\ pc[c] = "ret"
  /\ pc' = [pc EXCEPT ![c] = "idle"]
  /\ call' = [call EXCEPT ![c] = NoCall]
  /\ UNCHANGED <<mem, mon, reg, ret, ncalls, clears>>

(* The steps of a core inside a function.                                  *)
Run(c) == Ldrex(c) \/ Strex(c) \/ PlainLoad(c) \/ PlainStore(c) \/ Return(c)

Next ==
  \E c \in Core : \/ \E k \in Calls : Invoke(c, k)
                  \/ Run(c)
                  \/ Clrex(c)

Spec == Init /\ [][Next]_vars

(* A core that is inside a function keeps executing it.                    *)
FairSpec == Spec /\ \A c \in Core : WF_vars(Run(c))

-----------------------------------------------------------------------------
TypeOK ==
  /\ mem \in [Locs -> Nat] /\ mem["w32"] < M /\ mem["w64"] < M2
  /\ mon \in [Core -> Locs \cup {NoTag}]
  /\ pc \in [Core -> {"idle", "ldrex", "strex", "load", "store", "ret"}]
  /\ call \in [Core -> Calls \cup {NoCall}]
  /\ ncalls \in [Core -> 0 .. MaxCalls]
  /\ clears \in 0 .. MaxClears

(* The exclusive monitor's guarantee, which every ldrex/strex loop of the  *)
(* file relies on: while a core's tag is still set, no store has reached   *)
(* the location since its ldrex, so its register holds the current value. *)
MonitorExact ==
  \A c \in Core : pc[c] = "strex" /\ mon[c] # NoTag =>
                    /\ mon[c] = Loc(call[c].fn)
                    /\ reg[c] = mem[mon[c]]

(* Every call behaves as its documented effect taken in one indivisible    *)
(* step between invocation and return (linearizability of the atomics).   *)
Linearizable == Abs!ASpec

(* Every call that is entered returns: the retry loops do not spin for     *)
(* ever when the cores keep running.                                       *)
EveryCallReturns == \A c \in Core : pc[c] # "idle" ~> pc[c] = "idle"
=============================================================================
