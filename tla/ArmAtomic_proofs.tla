--------------------------- MODULE ArmAtomic_proofs ---------------------------
(***************************************************************************)
(* Proofs about the armv7-r atomics, for every word width and every set of *)
(* cores: a call of an ldrex/strex function leaves its location a word of  *)
(* the location's width, and a core whose exclusive tag survives to its    *)
(* strex has read the current value.                                       *)
(***************************************************************************)
EXTENDS ArmAtomic, TLAPS

USE WordAssumption, AtomicAssumption

(* The width of a register: M is a positive number and a pair has M * M   *)
(* values.                                                                 *)
LEMMA WidthPositive == M \in Nat \ {0} /\ M2 \in Nat \ {0} /\ M2 = M * M
BY DEF M, M2

(* add/sub leave a register value: Word is a residue modulo M.             *)
LEMMA WordRange ==
  ASSUME NEW x \in Int
  PROVE  Word(x) \in 0 .. M - 1
BY WidthPositive DEF Word

(* A pair built from two registers is a value of the pair.                 *)
LEMMA PairRange ==
  ASSUME NEW h \in 0 .. M - 1, NEW l \in 0 .. M - 1
  PROVE  h * M + l \in 0 .. M2 - 1
<1>1. h * M <= (M - 1) * M
  BY WidthPositive
<1>. QED  BY <1>1, WidthPositive

(* The functions that reach memory only through ldrex/strex or a single    *)
(* plain load or store: all but PRT_AtomicOr and PRT_AtomicAnd.            *)
AtomicFns ==
  {"ArchAtomicSet", "ArchAtomicAdd", "ArchAtomicSub", "ArchAtomicInc", "ArchAtomicIncRet", "ArchAtomicDec", "ArchAtomicDecRet", "ArchAtomicXchg32bits", "ArchAtomicCmpXchg32bits"}
  \cup {"PRT_AtomicAdd32Rtn", "PRT_AtomicAddU32Rtn", "PRT_AtomicAdd32", "PRT_AtomicAddU32", "PRT_AtomicSwap32", "PRT_AtomicCompareAndStore32", "PRT_AtomicFetchAndAddS32", "PRT_AtomicFetchAndAddU32", "ArchAtomicRead"}
  \cup {"ArchAtomic64Read", "ArchAtomic64Set", "ArchAtomic64Add", "ArchAtomic64Sub", "ArchAtomic64Inc", "ArchAtomic64IncRet", "ArchAtomic64Dec", "ArchAtomic64DecRet", "ArchAtomicXchg64bits"}
  \cup {"ArchAtomicCmpXchg64bits", "PRT_AtomicAdd64Rtn", "PRT_AtomicAddU64Rtn", "PRT_AtomicAddS64", "PRT_AtomicAddU64", "PRT_AtomicSwap64", "PRT_AtomicCompareAndStore64", "PRT_AtomicFetchAndAddU64", "PRT_AtomicReadU64"}

(* The largest value of the location a function works on.                  *)
Top(fn) == IF fn \in Abs!Fn64 THEN M2 - 1 ELSE M - 1

(* The calls of the theorems: functions above, operands of their width.    *)
CallsOK ==
  \A k \in Calls : /\ k.fn \in AtomicFns
                  /\ k.a \in 0 .. Top(k.fn) /\ k.b \in 0 .. Top(k.fn)

(* adds/adc and subs/sbc give a pair: each half is a register value.       *)
LEMMA HalvesRange ==
  ASSUME NEW x \in Int, NEW a \in Int
  PROVE  AddHalves(x, a) \in 0 .. M2 - 1 /\ SubHalves(x, a) \in 0 .. M2 - 1
<1>1. Lo(x) \in Int /\ Lo(a) \in Int /\ Hi(x) \in Int /\ Hi(a) \in Int
  BY WidthPositive DEF Lo, Hi
<1>2. /\ Word(Hi(x) + Hi(a) + (IF Lo(x) + Lo(a) >= M THEN 1 ELSE 0)) \in 0 .. M - 1
      /\ Word(Lo(x) + Lo(a)) \in 0 .. M - 1
      /\ Word(Hi(x) - Hi(a) - (IF Lo(x) < Lo(a) THEN 1 ELSE 0)) \in 0 .. M - 1
      /\ Word(Lo(x) - Lo(a)) \in 0 .. M - 1
  BY <1>1, WordRange
<1>. QED  BY <1>2, PairRange DEF AddHalves, SubHalves

(* What a function stores is a value of its location: the 32-bit ones wrap *)
(* the register, the pair ones wrap each half (adds/adc, subs/sbc).        *)
LEMMA EffectInRange ==
  ASSUME CallsOK, NEW k \in Calls, NEW old \in Int,
         k.fn \notin {"ArchAtomicRead"} \cup LoadOnlyFns
  PROVE  CodeEffect(k, old).new \in 0 .. Top(k.fn)
<1>. USE WidthPositive
<1>0. k.fn \in AtomicFns /\ k.a \in 0 .. Top(k.fn) /\ k.b \in 0 .. Top(k.fn)
  BY DEF CallsOK
<1>1. CASE k.fn = "ArchAtomicSet"
  BY <1>0, WordRange, <1>1 DEF CodeEffect, ArchAtomicSet, Effect, Top, Abs!Fn64
<1>2. CASE k.fn = "ArchAtomicAdd"
  BY <1>0, WordRange, <1>2 DEF CodeEffect, ArchAtomicAdd, Effect, Top, Abs!Fn64
<1>3. CASE k.fn = "ArchAtomicSub"
  BY <1>0, WordRange, <1>3 DEF CodeEffect, ArchAtomicSub, Effect, Top, Abs!Fn64
<1>4. CASE k.fn = "ArchAtomicInc"
  BY <1>0, WordRange, <1>4 DEF CodeEffect, ArchAtomicInc, Effect, Top, Abs!Fn64
<1>5. CASE k.fn = "ArchAtomicIncRet"
  BY <1>0, WordRange, <1>5 DEF CodeEffect, ArchAtomicIncRet, Effect, Top, Abs!Fn64
<1>6. CASE k.fn = "ArchAtomicDec"
  BY <1>0, WordRange, <1>6 DEF CodeEffect, ArchAtomicDec, Effect, Top, Abs!Fn64
<1>7. CASE k.fn = "ArchAtomicDecRet"
  BY <1>0, WordRange, <1>7 DEF CodeEffect, ArchAtomicDecRet, Effect, Top, Abs!Fn64
<1>8. CASE k.fn = "ArchAtomicXchg32bits"
  BY <1>0, WordRange, <1>8 DEF CodeEffect, ArchAtomicXchg32bits, Effect, Top, Abs!Fn64
<1>9. CASE k.fn = "ArchAtomicCmpXchg32bits"
  BY <1>0, WordRange, <1>9 DEF CodeEffect, ArchAtomicCmpXchg32bits, Effect, Top, Abs!Fn64
<1>10. CASE k.fn = "PRT_AtomicAdd32Rtn"
  BY <1>0, WordRange, <1>10 DEF CodeEffect, ArchAtomicAdd, Effect, PRT_AtomicAdd32Rtn, Top, Abs!Fn64
<1>11. CASE k.fn = "PRT_AtomicAddU32Rtn"
  BY <1>0, WordRange, <1>11 DEF CodeEffect, ArchAtomicAdd, Effect, PRT_AtomicAddU32Rtn, Top, Abs!Fn64
<1>12. CASE k.fn = "PRT_AtomicAdd32"
  BY <1>0, WordRange, <1>12 DEF CodeEffect, ArchAtomicAdd, Discard, Effect, PRT_AtomicAdd32, Top, Abs!Fn64
<1>13. CASE k.fn = "PRT_AtomicAddU32"
  BY <1>0, WordRange, <1>13 DEF CodeEffect, ArchAtomicAdd, Discard, Effect, PRT_AtomicAddU32, Top, Abs!Fn64
<1>14. CASE k.fn = "PRT_AtomicSwap32"
  BY <1>0, WordRange, <1>14 DEF CodeEffect, ArchAtomicXchg32bits, Effect, PRT_AtomicSwap32, Top, Abs!Fn64
<1>15. CASE k.fn = "PRT_AtomicCompareAndStore32"
  BY <1>0, WordRange, <1>15 DEF CodeEffect, ArchAtomicCmpXchg32bits, Effect, PRT_AtomicCompareAndStore32, Top, Abs!Fn64
<1>16. CASE k.fn = "PRT_AtomicFetchAndAddS32"
  BY <1>0, WordRange, <1>16 DEF CodeEffect, ArchAtomicAdd, Effect, PRT_AtomicFetchAndAddS32, Top, Abs!Fn64
<1>17. CASE k.fn = "PRT_AtomicFetchAndAddU32"
  BY <1>0, WordRange, <1>17 DEF CodeEffect, ArchAtomicAdd, Effect, PRT_AtomicFetchAndAddU32, Top, Abs!Fn64
<1>18. CASE k.fn = "ArchAtomicRead"
  BY <1>0, WordRange, <1>18 DEF CodeEffect, ArchAtomicRead, Effect, Top, Abs!Fn64
<1>19. CASE k.fn = "ArchAtomic64Read"
  BY <1>0, WordRange, HalvesRange, <1>19 DEF CodeEffect, ArchAtomic64Read, Effect, Top, Abs!Fn64, LoadOnlyFns
<1>20. CASE k.fn = "ArchAtomic64Set"
  BY <1>0, WordRange, HalvesRange, <1>20 DEF CodeEffect, ArchAtomic64Set, Effect, Top, Abs!Fn64
<1>21. CASE k.fn = "ArchAtomic64Add"
  BY <1>0, WordRange, HalvesRange, <1>21 DEF CodeEffect, ArchAtomic64Add, Effect, Top, Abs!Fn64
<1>22. CASE k.fn = "ArchAtomic64Sub"
  BY <1>0, WordRange, HalvesRange, <1>22 DEF CodeEffect, ArchAtomic64Sub, Effect, Top, Abs!Fn64
<1>23. CASE k.fn = "ArchAtomic64Inc"
  BY <1>0, WordRange, HalvesRange, <1>23 DEF CodeEffect, ArchAtomic64Inc, Effect, Top, Abs!Fn64
<1>24. CASE k.fn = "ArchAtomic64IncRet"
  BY <1>0, WordRange, HalvesRange, <1>24 DEF CodeEffect, ArchAtomic64IncRet, Effect, Top, Abs!Fn64
<1>25. CASE k.fn = "ArchAtomic64Dec"
  BY <1>0, WordRange, HalvesRange, <1>25 DEF CodeEffect, ArchAtomic64Dec, Effect, Top, Abs!Fn64
<1>26. CASE k.fn = "ArchAtomic64DecRet"
  BY <1>0, WordRange, HalvesRange, <1>26 DEF CodeEffect, ArchAtomic64DecRet, Effect, Top, Abs!Fn64
<1>27. CASE k.fn = "ArchAtomicXchg64bits"
  BY <1>0, WordRange, HalvesRange, <1>27 DEF CodeEffect, ArchAtomicXchg64bits, Effect, Top, Abs!Fn64
<1>28. CASE k.fn = "ArchAtomicCmpXchg64bits"
  BY <1>0, WordRange, HalvesRange, <1>28 DEF CodeEffect, ArchAtomicCmpXchg64bits, Effect, Top, Abs!Fn64
<1>29. CASE k.fn = "PRT_AtomicAdd64Rtn"
  BY <1>0, WordRange, HalvesRange, <1>29 DEF CodeEffect, ArchAtomic64Add, Effect, PRT_AtomicAdd64Rtn, Top, Abs!Fn64
<1>30. CASE k.fn = "PRT_AtomicAddU64Rtn"
  BY <1>0, WordRange, HalvesRange, <1>30 DEF CodeEffect, ArchAtomic64Add, Effect, PRT_AtomicAddU64Rtn, Top, Abs!Fn64
<1>31. CASE k.fn = "PRT_AtomicAddS64"
  BY <1>0, WordRange, HalvesRange, <1>31 DEF CodeEffect, ArchAtomic64Add, Discard, Effect, PRT_AtomicAddS64, Top, Abs!Fn64
<1>32. CASE k.fn = "PRT_AtomicAddU64"
  BY <1>0, WordRange, HalvesRange, <1>32 DEF CodeEffect, ArchAtomic64Add, Discard, Effect, PRT_AtomicAddU64, Top, Abs!Fn64
<1>33. CASE k.fn = "PRT_AtomicSwap64"
  BY <1>0, WordRange, HalvesRange, <1>33 DEF CodeEffect, ArchAtomicXchg64bits, Effect, PRT_AtomicSwap64, Top, Abs!Fn64
<1>34. CASE k.fn = "PRT_AtomicCompareAndStore64"
  BY <1>0, WordRange, HalvesRange, <1>34 DEF CodeEffect, ArchAtomicCmpXchg64bits, Effect, PRT_AtomicCompareAndStore64, Top, Abs!Fn64
<1>35. CASE k.fn = "PRT_AtomicFetchAndAddU64"
  BY <1>0, WordRange, HalvesRange, <1>35 DEF CodeEffect, ArchAtomic64Add, Effect, PRT_AtomicFetchAndAddU64, Top, Abs!Fn64
<1>36. CASE k.fn = "PRT_AtomicReadU64"
  BY <1>0, WordRange, HalvesRange, <1>36 DEF CodeEffect, ArchAtomic64Read, Effect, PRT_AtomicReadU64, Top, Abs!Fn64, LoadOnlyFns
<1>. QED  BY <1>1, <1>2, <1>3, <1>4, <1>5, <1>6, <1>7, <1>8, <1>9, <1>10, <1>11, <1>12, <1>13, <1>14, <1>15, <1>16, <1>17, <1>18, <1>19, <1>20, <1>21, <1>22, <1>23, <1>24, <1>25, <1>26, <1>27, <1>28, <1>29, <1>30, <1>31, <1>32, <1>33, <1>34, <1>35, <1>36, <1>0 DEF AtomicFns, LoadOnlyFns

(* ArchAtomicRead is a load and nothing else.                              *)
LEMMA ReadNoStore ==
  ASSUME NEW k, k.fn = "ArchAtomicRead", NEW old
  PROVE  ~CodeEffect(k, old).store
BY DEF CodeEffect, ArchAtomicRead, Effect

(* The location a function works on, and its largest value.                *)
LEMMA LocTop ==
  ASSUME NEW fn
  PROVE  /\ Loc(fn) \in Locs
         /\ Loc(fn) = "w32" => Top(fn) = M - 1
         /\ Loc(fn) = "w64" => Top(fn) = M2 - 1
BY DEF Loc, Abs!Loc, Top, Locs

-----------------------------------------------------------------------------
(* Where a core is in a function matches the function it runs: the plain  *)
(* accesses at "load"/"store", the exclusive loops at "ldrex"/"strex", and *)
(* no lone ldrexd ever reaching a strex.                                   *)
PcFn ==
  \A c \in Core :
    /\ pc[c] # "idle" => call[c] \in Calls
    /\ pc[c] = "load" => call[c].fn \in PlainLoadFns
    /\ pc[c] = "store" => call[c].fn \in PlainStoreFns
    /\ pc[c] \in {"ldrex", "strex"} => call[c].fn \notin PlainLoadFns \cup PlainStoreFns
    /\ pc[c] = "strex" => call[c].fn \notin LoadOnlyFns

AInv == TypeOK /\ reg \in [Core -> Int] /\ PcFn /\ MonitorExact

(* Initially no core is inside a function.                                 *)
THEOREM AInit == Init => AInv
<1>. SUFFICES ASSUME Init PROVE AInv
  OBVIOUS
<1>1. TypeOK
  BY WidthPositive DEF Init, TypeOK, Locs, NoCall, Abs!NoCall
<1>. QED  BY <1>1 DEF Init, AInv, PcFn, MonitorExact

(* ldrex: the tag is set together with the register, from the same value. *)
LEMMA AInv_Ldrex ==
  ASSUME AInv, CallsOK, NEW d \in Core, Ldrex(d)
  PROVE  AInv'
<1>. DEFINE l == Loc(call[d].fn)
            e == CodeEffect(call[d], mem[l])
<1>1. call[d] \in Calls /\ l \in Locs
  BY LocTop DEF AInv, PcFn, Ldrex
<1>2. /\ pc[d] = "ldrex"
      /\ mon' = [mon EXCEPT ![d] = l]
      /\ reg' = [reg EXCEPT ![d] = mem[l]]
      /\ UNCHANGED <<mem, call, ncalls, clears>>
      /\ \/ pc' = [pc EXCEPT ![d] = "ret"]
         \/ /\ pc' = [pc EXCEPT ![d] = "strex"]
            /\ call[d].fn \notin LoadOnlyFns
  BY DEF Ldrex
<1>3. TypeOK' /\ (reg \in [Core -> Int])'
  BY <1>1, <1>2 DEF AInv, TypeOK
<1>4. PcFn'
  <2>. SUFFICES ASSUME NEW c \in Core PROVE PcFn!(c)'
    BY DEF PcFn
  <2>1. CASE c = d
    BY <1>1, <1>2, <2>1 DEF AInv, PcFn, TypeOK
  <2>2. CASE c # d
    BY <1>2, <2>2 DEF AInv, PcFn, TypeOK
  <2>. QED  BY <2>1, <2>2
<1>5. MonitorExact'
  <2>. SUFFICES ASSUME NEW c \in Core, pc'[c] = "strex", mon'[c] # NoTag
                PROVE  mon'[c] = Loc(call'[c].fn) /\ reg'[c] = mem'[mon'[c]]
    BY DEF MonitorExact
  <2>1. CASE c = d
    BY <1>1, <1>2, <2>1 DEF AInv, TypeOK
  <2>2. CASE c # d
    BY <1>2, <2>2 DEF AInv, TypeOK, MonitorExact
  <2>. QED  BY <2>1, <2>2
<1>. QED  BY <1>3, <1>4, <1>5 DEF AInv

(* A successful strex stores a word of the location's width and takes the  *)
(* tag of every core on that location, so none keeps a stale register.    *)
LEMMA AInv_Strex ==
  ASSUME AInv, CallsOK, NEW d \in Core, Strex(d)
  PROVE  AInv'
<1>. DEFINE l == Loc(call[d].fn)
            e == CodeEffect(call[d], reg[d])
<1>1. /\ call[d] \in Calls /\ l \in Locs /\ pc[d] = "strex"
      /\ call[d].fn \notin {"ArchAtomicRead"} \cup LoadOnlyFns
  BY LocTop DEF AInv, PcFn, Strex, PlainLoadFns
<1>2. e.new \in 0 .. Top(call[d].fn)
  BY <1>1, EffectInRange DEF AInv
<1>3. UNCHANGED <<call, reg, ncalls, clears>>
  BY DEF Strex
<1>4. CASE mon[d] = l
  <2>1. /\ mem' = [mem EXCEPT ![l] = e.new]
        /\ mon' = ClearTags(l)
        /\ pc' = [pc EXCEPT ![d] = "ret"]
    BY <1>4 DEF Strex
  <2>2. TypeOK' /\ (reg \in [Core -> Int])'
    <3>1. mem' \in [Locs -> Nat] /\ mem'["w32"] < M /\ mem'["w64"] < M2
      BY <1>1, <1>2, <2>1, LocTop, WidthPositive DEF AInv, TypeOK
    <3>2. mon' \in [Core -> Locs \cup {NoTag}]
      BY <1>1, <2>1 DEF AInv, TypeOK, ClearTags
    <3>. QED  BY <1>3, <2>1, <3>1, <3>2 DEF AInv, TypeOK
  <2>3. PcFn'
    <3>. SUFFICES ASSUME NEW c \in Core PROVE PcFn!(c)'
      BY DEF PcFn
    <3>. QED  BY <1>1, <1>3, <2>1 DEF AInv, PcFn, TypeOK
  <2>4. MonitorExact'
    <3>. SUFFICES ASSUME NEW c \in Core, pc'[c] = "strex", mon'[c] # NoTag
                  PROVE  mon'[c] = Loc(call'[c].fn) /\ reg'[c] = mem'[mon'[c]]
      BY DEF MonitorExact
    <3>1. c # d /\ mon[c] # l /\ mon'[c] = mon[c] /\ pc[c] = "strex"
      BY <2>1 DEF AInv, TypeOK, ClearTags
    <3>. QED  BY <1>1, <1>3, <2>1, <3>1 DEF AInv, TypeOK, MonitorExact
  <2>. QED  BY <2>2, <2>3, <2>4 DEF AInv
<1>5. CASE mon[d] # l
  <2>1. /\ mon' = [mon EXCEPT ![d] = NoTag]
        /\ pc' = [pc EXCEPT ![d] = "ldrex"]
        /\ UNCHANGED mem
    BY <1>5 DEF Strex
  <2>2. TypeOK' /\ (reg \in [Core -> Int])'
    BY <1>3, <2>1 DEF AInv, TypeOK
  <2>3. PcFn'
    BY <1>1, <1>3, <2>1 DEF AInv, PcFn, TypeOK
  <2>4. MonitorExact'
    BY <1>3, <2>1 DEF AInv, TypeOK, MonitorExact
  <2>. QED  BY <2>2, <2>3, <2>4 DEF AInv
<1>. QED  BY <1>4, <1>5

(* A plain load of ArchAtomicRead only fills the register and returns.     *)
LEMMA AInv_PlainLoad ==
  ASSUME AInv, CallsOK, NEW d \in Core, PlainLoad(d)
  PROVE  AInv'
<1>. DEFINE l == Loc(call[d].fn)
<1>1. call[d] \in Calls /\ call[d].fn = "ArchAtomicRead" /\ l \in Locs
  BY LocTop DEF AInv, PcFn, PlainLoad, CallsOK, AtomicFns, PlainLoadFns
<1>2. ~CodeEffect(call[d], mem[l]).store
  BY <1>1, ReadNoStore
<1>3. /\ reg' = [reg EXCEPT ![d] = mem[l]]
      /\ pc' = [pc EXCEPT ![d] = "ret"]
      /\ UNCHANGED <<mem, mon, call, ncalls, clears>>
  BY <1>2 DEF PlainLoad
<1>. QED  BY <1>1, <1>3 DEF AInv, TypeOK, PcFn, MonitorExact

(* The plain store of ArchAtomicSet takes every other core's tag on the   *)
(* location.                                                               *)
LEMMA AInv_PlainStore ==
  ASSUME AInv, CallsOK, NEW d \in Core, PlainStore(d)
  PROVE  AInv'
<1>. DEFINE l == Loc(call[d].fn)
            e == CodeEffect(call[d], reg[d])
<1>1. /\ call[d] \in Calls /\ l \in Locs /\ pc[d] = "store"
      /\ call[d].fn \notin {"ArchAtomicRead"} \cup LoadOnlyFns
  BY LocTop DEF AInv, PcFn, PlainStore, PlainStoreFns, LoadOnlyFns
<1>2. e.new \in 0 .. Top(call[d].fn)
  BY <1>1, EffectInRange DEF AInv
<1>3. /\ mem' = [mem EXCEPT ![l] = e.new]
      /\ mon' = [x \in Core |-> IF x # d /\ mon[x] = l THEN NoTag ELSE mon[x]]
      /\ pc' = [pc EXCEPT ![d] = "ret"]
      /\ UNCHANGED <<call, reg, ncalls, clears>>
  BY DEF PlainStore
<1>4. TypeOK' /\ (reg \in [Core -> Int])'
  <2>1. mem' \in [Locs -> Nat] /\ mem'["w32"] < M /\ mem'["w64"] < M2
    BY <1>1, <1>2, <1>3, LocTop, WidthPositive DEF AInv, TypeOK
  <2>. QED  BY <1>1, <1>3, <2>1 DEF AInv, TypeOK
<1>5. PcFn'
  <2>. SUFFICES ASSUME NEW c \in Core PROVE PcFn!(c)'
    BY DEF PcFn
  <2>. QED  BY <1>1, <1>3 DEF AInv, PcFn, TypeOK
<1>6. MonitorExact'
  <2>. SUFFICES ASSUME NEW c \in Core, pc'[c] = "strex", mon'[c] # NoTag
                PROVE  mon'[c] = Loc(call'[c].fn) /\ reg'[c] = mem'[mon'[c]]
    BY DEF MonitorExact
  <2>1. c # d /\ mon[c] # l /\ mon'[c] = mon[c] /\ pc[c] = "strex"
    BY <1>1, <1>3 DEF AInv, TypeOK
  <2>. QED  BY <1>1, <1>3, <2>1 DEF AInv, TypeOK, MonitorExact
<1>. QED  BY <1>4, <1>5, <1>6 DEF AInv

LEMMA AInv_Invoke ==
  ASSUME AInv, NEW d \in Core, NEW k \in Calls, Invoke(d, k)
  PROVE  AInv'
<1>1. /\ pc[d] = "idle" /\ ncalls[d] < MaxCalls
      /\ pc' = [pc EXCEPT ![d] = CASE k.fn \in PlainLoadFns  -> "load"
                                   [] k.fn \in PlainStoreFns -> "store"
                                   [] OTHER                  -> "ldrex"]
      /\ call' = [call EXCEPT ![d] = k]
      /\ ncalls' = [ncalls EXCEPT ![d] = @ + 1]
      /\ UNCHANGED <<mem, mon, reg, ret, clears>>
  BY DEF Invoke
<1>2. PlainLoadFns \cap PlainStoreFns = {}
  BY DEF PlainLoadFns, PlainStoreFns
<1>. QED  BY <1>1, <1>2 DEF AInv, TypeOK, PcFn, MonitorExact

LEMMA AInv_Return ==
  ASSUME AInv, NEW d \in Core, Return(d)
  PROVE  AInv'
BY DEF AInv, TypeOK, PcFn, MonitorExact, Return, NoCall, Abs!NoCall

LEMMA AInv_Clrex ==
  ASSUME AInv, NEW d \in Core, Clrex(d)
  PROVE  AInv'
BY DEF AInv, TypeOK, PcFn, MonitorExact, Clrex

(* Every step of any core, and every exception, keeps the invariant.       *)
THEOREM ANext == CallsOK /\ AInv /\ [Next]_vars => AInv'
<1>. SUFFICES ASSUME CallsOK, AInv, [Next]_vars PROVE AInv'
  OBVIOUS
<1>1. CASE UNCHANGED vars
  BY <1>1 DEF vars, AInv, TypeOK, PcFn, MonitorExact
<1>2. ASSUME NEW d \in Core, NEW k \in Calls, Invoke(d, k) PROVE AInv'
  BY <1>2, AInv_Invoke
<1>3. ASSUME NEW d \in Core, Run(d) PROVE AInv'
  BY <1>3, AInv_Ldrex, AInv_Strex, AInv_PlainLoad, AInv_PlainStore, AInv_Return
  DEF Run
<1>4. ASSUME NEW d \in Core, Clrex(d) PROVE AInv'
  BY <1>4, AInv_Clrex
<1>. QED  BY <1>1, <1>2, <1>3, <1>4 DEF Next

THEOREM ASpecInv == CallsOK => (Spec => []AInv)
<1>. SUFFICES ASSUME CallsOK PROVE Spec => []AInv
  OBVIOUS
<1>. QED  BY AInit, ANext, PTL DEF Spec

(* For calls of the ldrex/strex functions (PRT_AtomicOr/And excluded) with *)
(* operands of their width, every location always holds a word of its     *)
(* width: no add, sub, carry or borrow of the loops leaves the range.      *)
THEOREM AtomicTypeCorrect == CallsOK => (Spec => []TypeOK)
BY ASpecInv, PTL DEF AInv
=============================================================================
