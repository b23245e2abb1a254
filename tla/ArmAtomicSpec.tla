------------------------------ MODULE ArmAtomicSpec ------------------------------
(***************************************************************************)
(* What the atomics of os_atomic_armv7_r.h promise: every call takes       *)
(* effect on its location in one indivisible step between its invocation   *)
(* and its return, and returns what its doc comment says.  The Arch*       *)
(* functions have no doc comment; their promise is their own sequential    *)
(* meaning.                                                                *)
(***************************************************************************)
EXTENDS AtomicWord

CONSTANTS
  Core,      \* execution contexts calling the atomics
  Calls,     \* calls they may make: [fn, a, b] records
  MaxCalls   \* calls per context

VARIABLES
  amem,      \* the value of each location
  apc,       \* "idle", "busy" (invoked, no effect yet), "done" (effect taken)
  acall,     \* the call in progress
  aret,      \* the value it returns
  ancalls    \* calls made so far

avars == <<amem, apc, acall, aret, ancalls>>

NoCall == [fn |-> "none", a |-> 0, b |-> 0]

(* The 64-bit functions; every other works on the 32-bit word.            *)
Fn64 == {"ArchAtomic64Read", "ArchAtomic64Set", "ArchAtomic64Add",
         "ArchAtomic64Sub", "ArchAtomic64Inc", "ArchAtomic64IncRet",
         "ArchAtomic64Dec", "ArchAtomic64DecRet", "ArchAtomicXchg64bits",
         "ArchAtomicCmpXchg64bits", "PRT_AtomicAdd64Rtn", "PRT_AtomicAddU64Rtn",
         "PRT_AtomicAddS64", "PRT_AtomicAddU64", "PRT_AtomicSwap64",
         "PRT_AtomicCompareAndStore64", "PRT_AtomicFetchAndAddU64",
         "PRT_AtomicReadU64"}

Loc(fn) == IF fn \in Fn64 THEN "w64" ELSE "w32"
Wrap(fn, x) == IF fn \in Fn64 THEN Word64(x) ELSE Word(x)

(* The promised effect of call k on a location holding v: the new value    *)
(* and the returned value.  Grouped by what the @retval lines say.         *)
AddNewFns == {"ArchAtomicAdd", "ArchAtomic64Add", "PRT_AtomicAdd32Rtn",
              "PRT_AtomicAddU32Rtn", "PRT_AtomicAdd64Rtn", "PRT_AtomicAddU64Rtn"}
AddVoidFns == {"PRT_AtomicAdd32", "PRT_AtomicAddU32", "PRT_AtomicAddS64",
               "PRT_AtomicAddU64"}
FetchAddFns == {"PRT_AtomicFetchAndAddS32", "PRT_AtomicFetchAndAddU32",
                "PRT_AtomicFetchAndAddU64"}
SubNewFns == {"ArchAtomicSub", "ArchAtomic64Sub"}
IncFns == {"ArchAtomicInc", "ArchAtomic64Inc"}
IncRetFns == {"ArchAtomicIncRet", "ArchAtomic64IncRet"}
DecFns == {"ArchAtomicDec", "ArchAtomic64Dec"}
DecRetFns == {"ArchAtomicDecRet", "ArchAtomic64DecRet"}
SwapFns == {"ArchAtomicXchg32bits", "ArchAtomicXchg64bits", "PRT_AtomicSwap32",
            "PRT_AtomicSwap64"}
CmpXchgFns == {"ArchAtomicCmpXchg32bits", "ArchAtomicCmpXchg64bits"}
CasFns == {"PRT_AtomicCompareAndStore32", "PRT_AtomicCompareAndStore64"}
ReadFns == {"ArchAtomicRead", "ArchAtomic64Read", "PRT_AtomicReadU64"}
SetFns == {"ArchAtomicSet", "ArchAtomic64Set"}

Promise(k, v) ==
  LET n(x) == Wrap(k.fn, x) IN
  CASE k.fn \in AddNewFns   -> [new |-> n(v + k.a), ret |-> n(v + k.a)]
    [] k.fn \in AddVoidFns  -> [new |-> n(v + k.a), ret |-> Void]
    [] k.fn \in FetchAddFns -> [new |-> n(v + k.a), ret |-> v]
    [] k.fn \in SubNewFns   -> [new |-> n(v - k.a), ret |-> n(v - k.a)]
    [] k.fn \in IncFns      -> [new |-> n(v + 1), ret |-> Void]
    [] k.fn \in IncRetFns   -> [new |-> n(v + 1), ret |-> n(v + 1)]
    [] k.fn \in DecFns      -> [new |-> n(v - 1), ret |-> Void]
    [] k.fn \in DecRetFns   -> [new |-> n(v - 1), ret |-> n(v - 1)]
    [] k.fn \in SwapFns     -> [new |-> k.a, ret |-> v]
       \* CmpXchg(v, val = a, oldVal = b): TRUE when the compare failed
    [] k.fn \in CmpXchgFns  -> [new |-> IF v = k.b THEN k.a ELSE v, ret |-> B(v # k.b)]
       \* CompareAndStore(ptr, oldVal = a, newVal = b): 1 when stored
    [] k.fn \in CasFns      -> [new |-> IF v = k.a THEN k.b ELSE v,
                                ret |-> IF v = k.a THEN 1 ELSE 0]
    [] k.fn = "PRT_AtomicOr"  -> [new |-> OrW(v, k.a), ret |-> OrW(v, k.a)]
    [] k.fn = "PRT_AtomicAnd" -> [new |-> AndW(v, k.a), ret |-> AndW(v, k.a)]
    [] k.fn \in ReadFns     -> [new |-> v, ret |-> v]
    [] k.fn \in SetFns      -> [new |-> k.a, ret |-> Void]

AInit ==
  /\ amem \in {x \in [Locs -> 0 .. M2 - 1] : x["w32"] < M}
  /\ apc = [c \in Core |-> "idle"]
  /\ acall = [c \in Core |-> NoCall]
  /\ aret = [c \in Core |-> Void]
  /\ ancalls = [c \in Core |-> 0]

AInvoke(c, k) ==
  /\ apc[c] = "idle"
  /\ ancalls[c] < MaxCalls
  /\ apc' = [apc EXCEPT ![c] = "busy"]
  /\ acall' = [acall EXCEPT ![c] = k]
  /\ ancalls' = [ancalls EXCEPT ![c] = @ + 1]
  /\ UNCHANGED <<amem, aret>>

(* The one step in which the call takes effect.                            *)
AApply(c) ==
  /\ apc[c] = "busy"
  /\ LET l == Loc(acall[c].fn)
         p == Promise(acall[c], amem[l])
     IN /\ amem' = [amem EXCEPT ![l] = p.new]
        /\ aret' = [aret EXCEPT ![c] = p.ret]
  /\ apc' = [apc EXCEPT ![c] = "done"]
  /\ UNCHANGED <<acall, ancalls>>

AReturn(c) ==
  /\ apc[c] = "done"
  /\ apc' = [apc EXCEPT ![c] = "idle"]
  /\ acall' = [acall EXCEPT ![c] = NoCall]
  /\ UNCHANGED <<amem, aret, ancalls>>

ANext ==
  \E c \in Core : \/ \E k \in Calls : AInvoke(c, k)
                  \/ AApply(c)
                  \/ AReturn(c)

ASpec == AInit /\ [][ANext]_avars
=============================================================================
