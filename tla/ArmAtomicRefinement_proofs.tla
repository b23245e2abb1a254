---------------------- MODULE ArmAtomicRefinement_proofs ----------------------
(***************************************************************************)
(* The ldrex/strex loops and plain accesses of os_atomic_armv7_r.h         *)
(* implement the atomics' promise (ArmAtomicSpec) for every word width and *)
(* every set of cores: each call takes effect in one step between its     *)
(* invocation and its return, and returns what its doc comment says.       *)
(* The functions whose code does something else (the violation runs of    *)
(* MCArmAtomic) are left out of the calls.                                 *)
(*                                                                         *)
(* The arithmetic core is the pair add of adds/adc (subs/sbc): adding the  *)
(* halves with the carry (borrow) is adding modulo M * M.                  *)
(***************************************************************************)
EXTENDS ArmAtomic_proofs

USE WordAssumption, AtomicAssumption

(* Division by a positive number: a remainder in range is the remainder.  *)
LEMMA ModUnique ==
  ASSUME NEW m \in Nat \ {0}, NEW n \in Int, NEW q \in Int, NEW r \in 0 .. m - 1,
         n = q * m + r
  PROVE  n % m = r
  OBVIOUS

(* A value is its high register times M plus its low register (%R, %Q). *)
LEMMA Split ==
  ASSUME NEW x \in Int
  PROVE  /\ x = Hi(x) * M + Lo(x) /\ Lo(x) \in 0 .. M - 1 /\ Hi(x) \in Int
  BY WidthPositive DEF Hi, Lo

(* The wrap of add/sub differs from the sum by a multiple of M.            *)
LEMMA WordSplit ==
  ASSUME NEW y \in Int
  PROVE  \E q \in Int : y = q * M + Word(y)
<1>1. y = Hi(y) * M + Lo(y) /\ Hi(y) \in Int
  BY Split
<1>. QED  BY <1>1 DEF Word, Lo

(* adds %Q / adc %R: adding the halves with the carry of the low add is  *)
(* the 64-bit add modulo M * M.                                           *)
LEMMA AddHalvesWord64 ==
  ASSUME NEW x \in Int, NEW a \in Int
  PROVE  AddHalves(x, a) = Word64(x + a)
<1>1. PICK m \in Nat \ {0} : m = M
  BY WidthPositive
<1>2. x = Hi(x) * M + Lo(x) /\ a = Hi(a) * M + Lo(a)
      /\ Lo(x) \in 0 .. M - 1 /\ Lo(a) \in 0 .. M - 1 /\ Hi(x) \in Int /\ Hi(a) \in Int
  BY Split
<1>3. PICK hx \in Int, ha \in Int, lx \in 0 .. m - 1, la \in 0 .. m - 1 :
        hx = Hi(x) /\ ha = Hi(a) /\ lx = Lo(x) /\ la = Lo(a)
  BY <1>1, <1>2
<1>4. x = hx * m + lx /\ a = ha * m + la
  BY <1>1, <1>2, <1>3
<1>5. \E q \in Int : AddHalves(x, a) = x + a - q * (m * m)
  <2>1. CASE lx + la >= m
    <3>1. Word(lx + la) = lx + la - m
      <4>1. lx + la = 1 * m + (lx + la - m) /\ lx + la - m \in 0 .. m - 1
        BY <2>1
      <4>. QED  BY <1>1, <4>1, ModUnique DEF Word
    <3>2. PICK wh \in Int : wh = Word(hx + ha + 1)
      BY WordRange
    <3>3. PICK q \in Int : hx + ha + 1 = q * M + Word(hx + ha + 1)
      BY WordSplit
    <3>4. AddHalves(x, a) = wh * m + (lx + la - m)
      BY <1>1, <1>3, <2>1, <3>1, <3>2 DEF AddHalves
    <3>5. wh * m + (lx + la - m) = x + a - q * (m * m)
      <4>1. hx + ha + 1 = q * m + wh
        BY <1>1, <3>2, <3>3
      <4>. QED  BY <1>4, <4>1
    <3>. QED  BY <3>4, <3>5
  <2>2. CASE ~(lx + la >= m)
    <3>1. Word(lx + la) = lx + la
      <4>1. lx + la = 0 * m + (lx + la) /\ lx + la \in 0 .. m - 1
        BY <2>2
      <4>. QED  BY <1>1, <4>1, ModUnique DEF Word
    <3>2. PICK wh \in Int : wh = Word(hx + ha)
      BY WordRange
    <3>3. PICK q \in Int : hx + ha = q * M + Word(hx + ha)
      BY WordSplit
    <3>4. AddHalves(x, a) = wh * m + (lx + la)
      <4>1. Word(hx + ha + 0) = Word(hx + ha)
        OBVIOUS
      <4>. QED  BY <1>1, <1>3, <2>2, <3>1, <3>2, <4>1 DEF AddHalves
    <3>5. wh * m + (lx + la) = x + a - q * (m * m)
      <4>1. hx + ha = q * m + wh
        BY <1>1, <3>2, <3>3
      <4>. QED  BY <1>4, <4>1
    <3>. QED  BY <3>4, <3>5
  <2>. QED  BY <2>1, <2>2
<1>6. PICK q \in Int : AddHalves(x, a) = x + a - q * (m * m)
  BY <1>5
<1>7. PICK mm \in Nat \ {0} : mm = m * m
  BY <1>1
<1>8. AddHalves(x, a) \in 0 .. mm - 1 /\ x + a = q * mm + AddHalves(x, a)
      /\ x + a \in Int
  BY <1>1, <1>6, <1>7, HalvesRange, WidthPositive DEF M2
<1>9. (x + a) % mm = AddHalves(x, a)
  BY <1>8, ModUnique
<1>. QED  BY <1>1, <1>7, <1>9 DEF Word64, M2

(* subs %Q / sbc %R: subtracting the halves with the borrow of the low    *)
(* subtract is the 64-bit subtract modulo M * M.                          *)
LEMMA SubHalvesWord64 ==
  ASSUME NEW x \in Int, NEW a \in Int
  PROVE  SubHalves(x, a) = Word64(x - a)
<1>1. PICK m \in Nat \ {0} : m = M
  BY WidthPositive
<1>2. x = Hi(x) * M + Lo(x) /\ a = Hi(a) * M + Lo(a)
      /\ Lo(x) \in 0 .. M - 1 /\ Lo(a) \in 0 .. M - 1 /\ Hi(x) \in Int /\ Hi(a) \in Int
  BY Split
<1>3. PICK hx \in Int, ha \in Int, lx \in 0 .. m - 1, la \in 0 .. m - 1 :
        hx = Hi(x) /\ ha = Hi(a) /\ lx = Lo(x) /\ la = Lo(a)
  BY <1>1, <1>2
<1>4. x = hx * m + lx /\ a = ha * m + la
  BY <1>1, <1>2, <1>3
<1>5. \E q \in Int : SubHalves(x, a) = x - a - q * (m * m)
  <2>1. CASE lx < la
    <3>1. Word(lx - la) = lx - la + m
      <4>1. lx - la = (-1) * m + (lx - la + m) /\ lx - la + m \in 0 .. m - 1
        BY <2>1
      <4>. QED  BY <1>1, <4>1, ModUnique DEF Word
    <3>2. PICK wh \in Int : wh = Word(hx - ha - 1)
      BY WordRange
    <3>3. PICK q \in Int : hx - ha - 1 = q * M + Word(hx - ha - 1)
      BY WordSplit
    <3>4. SubHalves(x, a) = wh * m + (lx - la + m)
      BY <1>1, <1>3, <2>1, <3>1, <3>2 DEF SubHalves
    <3>5. wh * m + (lx - la + m) = x - a - q * (m * m)
      <4>1. hx - ha - 1 = q * m + wh
        BY <1>1, <3>2, <3>3
      <4>. QED  BY <1>4, <4>1
    <3>. QED  BY <3>4, <3>5
  <2>2. CASE ~(lx < la)
    <3>1. Word(lx - la) = lx - la
      <4>1. lx - la = 0 * m + (lx - la) /\ lx - la \in 0 .. m - 1
        BY <2>2
      <4>. QED  BY <1>1, <4>1, ModUnique DEF Word
    <3>2. PICK wh \in Int : wh = Word(hx - ha)
      BY WordRange
    <3>3. PICK q \in Int : hx - ha = q * M + Word(hx - ha)
      BY WordSplit
    <3>4. SubHalves(x, a) = wh * m + (lx - la)
      <4>1. Word(hx - ha - 0) = Word(hx - ha)
        OBVIOUS
      <4>. QED  BY <1>1, <1>3, <2>2, <3>1, <3>2, <4>1 DEF SubHalves
    <3>5. wh * m + (lx - la) = x - a - q * (m * m)
      <4>1. hx - ha = q * m + wh
        BY <1>1, <3>2, <3>3
      <4>. QED  BY <1>4, <4>1
    <3>. QED  BY <3>4, <3>5
  <2>. QED  BY <2>1, <2>2
<1>6. PICK q \in Int : SubHalves(x, a) = x - a - q * (m * m)
  BY <1>5
<1>7. PICK mm \in Nat \ {0} : mm = m * m
  BY <1>1
<1>8. SubHalves(x, a) \in 0 .. mm - 1 /\ x - a = q * mm + SubHalves(x, a)
      /\ x - a \in Int
  BY <1>1, <1>6, <1>7, HalvesRange, WidthPositive DEF M2
<1>9. (x - a) % mm = SubHalves(x, a)
  BY <1>8, ModUnique
<1>. QED  BY <1>1, <1>7, <1>9 DEF Word64, M2

(* teq/teqeq on both halves: two pairs are equal when both halves are.   *)
LEMMA PairEqual ==
  ASSUME NEW x \in Int, NEW y \in Int
  PROVE  (Lo(x) = Lo(y) /\ Hi(x) = Hi(y)) <=> x = y
<1>1. x = Hi(x) * M + Lo(x) /\ y = Hi(y) * M + Lo(y)
  BY Split
<1>. QED  BY <1>1
-----------------------------------------------------------------------------
(* The functions whose code keeps its promise: all of AtomicFns but        *)
(* PRT_AtomicCompareAndStore32 (it passes its operands to                  *)
(* ArchAtomicCmpXchg32bits swapped) and PRT_AtomicFetchAndAdd* (they       *)
(* return the new value, not the old one).                                 *)
LinFns == AtomicFns \ {"PRT_AtomicCompareAndStore32", "PRT_AtomicFetchAndAddS32",
                       "PRT_AtomicFetchAndAddU32", "PRT_AtomicFetchAndAddU64"}

LinOK == \A k \in Calls : k.fn \in LinFns

(* The spec's words and results are the code's.                            *)
LEMMA SameWords ==
  /\ \A x : Abs!Word(x) = Word(x) /\ Abs!Word64(x) = Word64(x) /\ Abs!B(x) = B(x)
  /\ Abs!Void = Void
BY DEF Abs!Word, Abs!Word64, Abs!M, Abs!M2, Word, Word64, M, M2, Abs!B, B, Abs!Void, Void
(* Each function of LinFns, run on the value v its load saw, returns what *)
(* its doc comment promises for v, and leaves the location as promised: it *)
(* stores unless it is a load or a compare that failed.                    *)
LEMMA EffectMatches ==
  ASSUME NEW k, k.fn \in LinFns, k.a \in Int, k.b \in Int, NEW v \in Int
  PROVE  /\ Abs!Promise(k, v).ret = CodeEffect(k, v).ret
         /\ Abs!Promise(k, v).new = IF CodeEffect(k, v).store THEN CodeEffect(k, v).new ELSE v
         /\ k.fn \notin CompareFns \cup LoadOnlyFns \cup {"ArchAtomicRead"} => CodeEffect(k, v).store
<1>1. CASE k.fn = "ArchAtomicRead"
  <2>1. CodeEffect(k, v) = ArchAtomicRead(v)
    BY <1>1, Zenon DEF CodeEffect
  <2>2. Abs!Promise(k, v) = [new |-> v, ret |-> v]
    BY <1>1, Zenon DEF Abs!Promise, Abs!B, Abs!AddNewFns, Abs!AddVoidFns, Abs!FetchAddFns, Abs!SubNewFns, Abs!IncFns, Abs!IncRetFns, Abs!DecFns, Abs!DecRetFns, Abs!SwapFns, Abs!CmpXchgFns, Abs!CasFns, Abs!ReadFns, Abs!SetFns
  <2>. QED  BY <1>1, <2>1, <2>2, SameWords DEF ArchAtomicRead, Effect, Abs!Wrap, Abs!Fn64, CompareFns, LoadOnlyFns
<1>2. CASE k.fn = "ArchAtomicSet"
  <2>1. CodeEffect(k, v) = ArchAtomicSet(k.a)
    BY <1>2, Zenon DEF CodeEffect
  <2>2. Abs!Promise(k, v) = [new |-> k.a, ret |-> Abs!Void]
    BY <1>2, Zenon DEF Abs!Promise, Abs!B, Abs!AddNewFns, Abs!AddVoidFns, Abs!FetchAddFns, Abs!SubNewFns, Abs!IncFns, Abs!IncRetFns, Abs!DecFns, Abs!DecRetFns, Abs!SwapFns, Abs!CmpXchgFns, Abs!CasFns, Abs!ReadFns, Abs!SetFns
  <2>. QED  BY <1>2, <2>1, <2>2, SameWords DEF ArchAtomicSet, Effect, Abs!Wrap, Abs!Fn64, CompareFns, LoadOnlyFns
<1>3. CASE k.fn = "ArchAtomicAdd"
  <2>1. CodeEffect(k, v) = ArchAtomicAdd(v, k.a)
    BY <1>3, Zenon DEF CodeEffect
  <2>2. Abs!Promise(k, v) = [new |-> Abs!Wrap(k.fn, v + k.a), ret |-> Abs!Wrap(k.fn, v + k.a)]
    BY <1>3, Zenon DEF Abs!Promise, Abs!B, Abs!AddNewFns, Abs!AddVoidFns, Abs!FetchAddFns, Abs!SubNewFns, Abs!IncFns, Abs!IncRetFns, Abs!DecFns, Abs!DecRetFns, Abs!SwapFns, Abs!CmpXchgFns, Abs!CasFns, Abs!ReadFns, Abs!SetFns
  <2>. QED  BY <1>3, <2>1, <2>2, SameWords DEF ArchAtomicAdd, Effect, Abs!Wrap, Abs!Fn64, CompareFns, LoadOnlyFns
<1>4. CASE k.fn = "ArchAtomicSub"
  <2>1. CodeEffect(k, v) = ArchAtomicSub(v, k.a)
    BY <1>4, Zenon DEF CodeEffect
  <2>2. Abs!Promise(k, v) = [new |-> Abs!Wrap(k.fn, v - k.a), ret |-> Abs!Wrap(k.fn, v - k.a)]
    BY <1>4, Zenon DEF Abs!Promise, Abs!B, Abs!AddNewFns, Abs!AddVoidFns, Abs!FetchAddFns, Abs!SubNewFns, Abs!IncFns, Abs!IncRetFns, Abs!DecFns, Abs!DecRetFns, Abs!SwapFns, Abs!CmpXchgFns, Abs!CasFns, Abs!ReadFns, Abs!SetFns
  <2>. QED  BY <1>4, <2>1, <2>2, SameWords DEF ArchAtomicSub, Effect, Abs!Wrap, Abs!Fn64, CompareFns, LoadOnlyFns
<1>5. CASE k.fn = "ArchAtomicInc"
  <2>1. CodeEffect(k, v) = ArchAtomicInc(v)
    BY <1>5, Zenon DEF CodeEffect
  <2>2. Abs!Promise(k, v) = [new |-> Abs!Wrap(k.fn, v + 1), ret |-> Abs!Void]
    BY <1>5, Zenon DEF Abs!Promise, Abs!B, Abs!AddNewFns, Abs!AddVoidFns, Abs!FetchAddFns, Abs!SubNewFns, Abs!IncFns, Abs!IncRetFns, Abs!DecFns, Abs!DecRetFns, Abs!SwapFns, Abs!CmpXchgFns, Abs!CasFns, Abs!ReadFns, Abs!SetFns
  <2>. QED  BY <1>5, <2>1, <2>2, SameWords DEF ArchAtomicInc, Effect, Abs!Wrap, Abs!Fn64, CompareFns, LoadOnlyFns
<1>6. CASE k.fn = "ArchAtomicIncRet"
  <2>1. CodeEffect(k, v) = ArchAtomicIncRet(v)
    BY <1>6, Zenon DEF CodeEffect
  <2>2. Abs!Promise(k, v) = [new |-> Abs!Wrap(k.fn, v + 1), ret |-> Abs!Wrap(k.fn, v + 1)]
    BY <1>6, Zenon DEF Abs!Promise, Abs!B, Abs!AddNewFns, Abs!AddVoidFns, Abs!FetchAddFns, Abs!SubNewFns, Abs!IncFns, Abs!IncRetFns, Abs!DecFns, Abs!DecRetFns, Abs!SwapFns, Abs!CmpXchgFns, Abs!CasFns, Abs!ReadFns, Abs!SetFns
  <2>. QED  BY <1>6, <2>1, <2>2, SameWords DEF ArchAtomicIncRet, Effect, Abs!Wrap, Abs!Fn64, CompareFns, LoadOnlyFns
<1>7. CASE k.fn = "ArchAtomicDec"
  <2>1. CodeEffect(k, v) = ArchAtomicDec(v)
    BY <1>7, Zenon DEF CodeEffect
  <2>2. Abs!Promise(k, v) = [new |-> Abs!Wrap(k.fn, v - 1), ret |-> Abs!Void]
    BY <1>7, Zenon DEF Abs!Promise, Abs!B, Abs!AddNewFns, Abs!AddVoidFns, Abs!FetchAddFns, Abs!SubNewFns, Abs!IncFns, Abs!IncRetFns, Abs!DecFns, Abs!DecRetFns, Abs!SwapFns, Abs!CmpXchgFns, Abs!CasFns, Abs!ReadFns, Abs!SetFns
  <2>. QED  BY <1>7, <2>1, <2>2, SameWords DEF ArchAtomicDec, Effect, Abs!Wrap, Abs!Fn64, CompareFns, LoadOnlyFns
<1>8. CASE k.fn = "ArchAtomicDecRet"
  <2>1. CodeEffect(k, v) = ArchAtomicDecRet(v)
    BY <1>8, Zenon DEF CodeEffect
  <2>2. Abs!Promise(k, v) = [new |-> Abs!Wrap(k.fn, v - 1), ret |-> Abs!Wrap(k.fn, v - 1)]
    BY <1>8, Zenon DEF Abs!Promise, Abs!B, Abs!AddNewFns, Abs!AddVoidFns, Abs!FetchAddFns, Abs!SubNewFns, Abs!IncFns, Abs!IncRetFns, Abs!DecFns, Abs!DecRetFns, Abs!SwapFns, Abs!CmpXchgFns, Abs!CasFns, Abs!ReadFns, Abs!SetFns
  <2>. QED  BY <1>8, <2>1, <2>2, SameWords DEF ArchAtomicDecRet, Effect, Abs!Wrap, Abs!Fn64, CompareFns, LoadOnlyFns
<1>9. CASE k.fn = "ArchAtomic64Read"
  <2>1. CodeEffect(k, v) = ArchAtomic64Read(v)
    BY <1>9, Zenon DEF CodeEffect
  <2>2. Abs!Promise(k, v) = [new |-> v, ret |-> v]
    BY <1>9, Zenon DEF Abs!Promise, Abs!B, Abs!AddNewFns, Abs!AddVoidFns, Abs!FetchAddFns, Abs!SubNewFns, Abs!IncFns, Abs!IncRetFns, Abs!DecFns, Abs!DecRetFns, Abs!SwapFns, Abs!CmpXchgFns, Abs!CasFns, Abs!ReadFns, Abs!SetFns
  <2>. QED  BY <1>9, <2>1, <2>2, SameWords DEF ArchAtomic64Read, Effect, Abs!Wrap, Abs!Fn64, CompareFns, LoadOnlyFns
<1>10. CASE k.fn = "ArchAtomic64Set"
  <2>1. CodeEffect(k, v) = ArchAtomic64Set(k.a)
    BY <1>10, Zenon DEF CodeEffect
  <2>2. Abs!Promise(k, v) = [new |-> k.a, ret |-> Abs!Void]
    BY <1>10, Zenon DEF Abs!Promise, Abs!B, Abs!AddNewFns, Abs!AddVoidFns, Abs!FetchAddFns, Abs!SubNewFns, Abs!IncFns, Abs!IncRetFns, Abs!DecFns, Abs!DecRetFns, Abs!SwapFns, Abs!CmpXchgFns, Abs!CasFns, Abs!ReadFns, Abs!SetFns
  <2>. QED  BY <1>10, <2>1, <2>2, SameWords DEF ArchAtomic64Set, Effect, Abs!Wrap, Abs!Fn64, CompareFns, LoadOnlyFns
<1>11. CASE k.fn = "ArchAtomic64Add"
  <2>1. CodeEffect(k, v) = ArchAtomic64Add(v, k.a)
    BY <1>11, Zenon DEF CodeEffect
  <2>2. Abs!Promise(k, v) = [new |-> Abs!Wrap(k.fn, v + k.a), ret |-> Abs!Wrap(k.fn, v + k.a)]
    BY <1>11, Zenon DEF Abs!Promise, Abs!B, Abs!AddNewFns, Abs!AddVoidFns, Abs!FetchAddFns, Abs!SubNewFns, Abs!IncFns, Abs!IncRetFns, Abs!DecFns, Abs!DecRetFns, Abs!SwapFns, Abs!CmpXchgFns, Abs!CasFns, Abs!ReadFns, Abs!SetFns
  <2>3. AddHalves(v, k.a) = Word64(v + k.a)
    BY AddHalvesWord64
  <2>. QED  BY <1>11, <2>1, <2>2, SameWords, <2>3 DEF ArchAtomic64Add, Effect, Abs!Wrap, Abs!Fn64, CompareFns, LoadOnlyFns
<1>12. CASE k.fn = "ArchAtomic64Sub"
  <2>1. CodeEffect(k, v) = ArchAtomic64Sub(v, k.a)
    BY <1>12, Zenon DEF CodeEffect
  <2>2. Abs!Promise(k, v) = [new |-> Abs!Wrap(k.fn, v - k.a), ret |-> Abs!Wrap(k.fn, v - k.a)]
    BY <1>12, Zenon DEF Abs!Promise, Abs!B, Abs!AddNewFns, Abs!AddVoidFns, Abs!FetchAddFns, Abs!SubNewFns, Abs!IncFns, Abs!IncRetFns, Abs!DecFns, Abs!DecRetFns, Abs!SwapFns, Abs!CmpXchgFns, Abs!CasFns, Abs!ReadFns, Abs!SetFns
  <2>3. SubHalves(v, k.a) = Word64(v - k.a)
    BY SubHalvesWord64
  <2>. QED  BY <1>12, <2>1, <2>2, SameWords, <2>3 DEF ArchAtomic64Sub, Effect, Abs!Wrap, Abs!Fn64, CompareFns, LoadOnlyFns
<1>13. CASE k.fn = "ArchAtomic64Inc"
  <2>1. CodeEffect(k, v) = ArchAtomic64Inc(v)
    BY <1>13, Zenon DEF CodeEffect
  <2>2. Abs!Promise(k, v) = [new |-> Abs!Wrap(k.fn, v + 1), ret |-> Abs!Void]
    BY <1>13, Zenon DEF Abs!Promise, Abs!B, Abs!AddNewFns, Abs!AddVoidFns, Abs!FetchAddFns, Abs!SubNewFns, Abs!IncFns, Abs!IncRetFns, Abs!DecFns, Abs!DecRetFns, Abs!SwapFns, Abs!CmpXchgFns, Abs!CasFns, Abs!ReadFns, Abs!SetFns
  <2>3. AddHalves(v, 1) = Word64(v + 1)
    BY AddHalvesWord64
  <2>. QED  BY <1>13, <2>1, <2>2, SameWords, <2>3 DEF ArchAtomic64Inc, Effect, Abs!Wrap, Abs!Fn64, CompareFns, LoadOnlyFns
<1>14. CASE k.fn = "ArchAtomic64IncRet"
  <2>1. CodeEffect(k, v) = ArchAtomic64IncRet(v)
    BY <1>14, Zenon DEF CodeEffect
  <2>2. Abs!Promise(k, v) = [new |-> Abs!Wrap(k.fn, v + 1), ret |-> Abs!Wrap(k.fn, v + 1)]
    BY <1>14, Zenon DEF Abs!Promise, Abs!B, Abs!AddNewFns, Abs!AddVoidFns, Abs!FetchAddFns, Abs!SubNewFns, Abs!IncFns, Abs!IncRetFns, Abs!DecFns, Abs!DecRetFns, Abs!SwapFns, Abs!CmpXchgFns, Abs!CasFns, Abs!ReadFns, Abs!SetFns
  <2>3. AddHalves(v, 1) = Word64(v + 1)
    BY AddHalvesWord64
  <2>. QED  BY <1>14, <2>1, <2>2, SameWords, <2>3 DEF ArchAtomic64IncRet, Effect, Abs!Wrap, Abs!Fn64, CompareFns, LoadOnlyFns
<1>15. CASE k.fn = "ArchAtomic64Dec"
  <2>1. CodeEffect(k, v) = ArchAtomic64Dec(v)
    BY <1>15, Zenon DEF CodeEffect
  <2>2. Abs!Promise(k, v) = [new |-> Abs!Wrap(k.fn, v - 1), ret |-> Abs!Void]
    BY <1>15, Zenon DEF Abs!Promise, Abs!B, Abs!AddNewFns, Abs!AddVoidFns, Abs!FetchAddFns, Abs!SubNewFns, Abs!IncFns, Abs!IncRetFns, Abs!DecFns, Abs!DecRetFns, Abs!SwapFns, Abs!CmpXchgFns, Abs!CasFns, Abs!ReadFns, Abs!SetFns
  <2>3. SubHalves(v, 1) = Word64(v - 1)
    BY SubHalvesWord64
  <2>. QED  BY <1>15, <2>1, <2>2, SameWords, <2>3 DEF ArchAtomic64Dec, Effect, Abs!Wrap, Abs!Fn64, CompareFns, LoadOnlyFns
<1>16. CASE k.fn = "ArchAtomic64DecRet"
  <2>1. CodeEffect(k, v) = ArchAtomic64DecRet(v)
    BY <1>16, Zenon DEF CodeEffect
  <2>2. Abs!Promise(k, v) = [new |-> Abs!Wrap(k.fn, v - 1), ret |-> Abs!Wrap(k.fn, v - 1)]
    BY <1>16, Zenon DEF Abs!Promise, Abs!B, Abs!AddNewFns, Abs!AddVoidFns, Abs!FetchAddFns, Abs!SubNewFns, Abs!IncFns, Abs!IncRetFns, Abs!DecFns, Abs!DecRetFns, Abs!SwapFns, Abs!CmpXchgFns, Abs!CasFns, Abs!ReadFns, Abs!SetFns
  <2>3. SubHalves(v, 1) = Word64(v - 1)
    BY SubHalvesWord64
  <2>. QED  BY <1>16, <2>1, <2>2, SameWords, <2>3 DEF ArchAtomic64DecRet, Effect, Abs!Wrap, Abs!Fn64, CompareFns, LoadOnlyFns
<1>17. CASE k.fn = "ArchAtomicXchg32bits"
  <2>1. CodeEffect(k, v) = ArchAtomicXchg32bits(v, k.a)
    BY <1>17, Zenon DEF CodeEffect
  <2>2. Abs!Promise(k, v) = [new |-> k.a, ret |-> v]
    BY <1>17, Zenon DEF Abs!Promise, Abs!B, Abs!AddNewFns, Abs!AddVoidFns, Abs!FetchAddFns, Abs!SubNewFns, Abs!IncFns, Abs!IncRetFns, Abs!DecFns, Abs!DecRetFns, Abs!SwapFns, Abs!CmpXchgFns, Abs!CasFns, Abs!ReadFns, Abs!SetFns
  <2>. QED  BY <1>17, <2>1, <2>2, SameWords DEF ArchAtomicXchg32bits, Effect, Abs!Wrap, Abs!Fn64, CompareFns, LoadOnlyFns
<1>18. CASE k.fn = "ArchAtomicXchg64bits"
  <2>1. CodeEffect(k, v) = ArchAtomicXchg64bits(v, k.a)
    BY <1>18, Zenon DEF CodeEffect
  <2>2. Abs!Promise(k, v) = [new |-> k.a, ret |-> v]
    BY <1>18, Zenon DEF Abs!Promise, Abs!B, Abs!AddNewFns, Abs!AddVoidFns, Abs!FetchAddFns, Abs!SubNewFns, Abs!IncFns, Abs!IncRetFns, Abs!DecFns, Abs!DecRetFns, Abs!SwapFns, Abs!CmpXchgFns, Abs!CasFns, Abs!ReadFns, Abs!SetFns
  <2>. QED  BY <1>18, <2>1, <2>2, SameWords DEF ArchAtomicXchg64bits, Effect, Abs!Wrap, Abs!Fn64, CompareFns, LoadOnlyFns
<1>19. CASE k.fn = "ArchAtomicCmpXchg32bits"
  <2>1. CodeEffect(k, v) = ArchAtomicCmpXchg32bits(v, k.a, k.b)
    BY <1>19, Zenon DEF CodeEffect
  <2>2. Abs!Promise(k, v) = [new |-> IF v = k.b THEN k.a ELSE v, ret |-> IF v # k.b THEN 1 ELSE 0]
    BY <1>19, Zenon DEF Abs!Promise, Abs!B, Abs!AddNewFns, Abs!AddVoidFns, Abs!FetchAddFns, Abs!SubNewFns, Abs!IncFns, Abs!IncRetFns, Abs!DecFns, Abs!DecRetFns, Abs!SwapFns, Abs!CmpXchgFns, Abs!CasFns, Abs!ReadFns, Abs!SetFns
  <2>4. ArchAtomicCmpXchg32bits(v, k.a, k.b).store <=> v = k.b
    BY Zenon DEF ArchAtomicCmpXchg32bits, Effect
  <2>5. ArchAtomicCmpXchg32bits(v, k.a, k.b).new = k.a /\ ArchAtomicCmpXchg32bits(v, k.a, k.b).ret = IF v # k.b THEN 1 ELSE 0
    BY DEF ArchAtomicCmpXchg32bits, Effect, B
  <2>6. Abs!Promise(k, v).new = (IF v = k.b THEN k.a ELSE v) /\ Abs!Promise(k, v).ret = IF v # k.b THEN 1 ELSE 0
    BY <2>2
  <2>7. CodeEffect(k, v).store <=> v = k.b
    BY <2>1, <2>4, Zenon
  <2>8. CodeEffect(k, v).new = k.a /\ CodeEffect(k, v).ret = IF v # k.b THEN 1 ELSE 0
    BY <2>1, <2>5
  <2>9. k.fn \in CompareFns
    BY <1>19 DEF CompareFns
  <2>. QED  BY <2>6, <2>7, <2>8, <2>9
<1>20. CASE k.fn = "ArchAtomicCmpXchg64bits"
  <2>1. CodeEffect(k, v) = ArchAtomicCmpXchg64bits(v, k.a, k.b)
    BY <1>20, Zenon DEF CodeEffect
  <2>2. Abs!Promise(k, v) = [new |-> IF v = k.b THEN k.a ELSE v, ret |-> IF v # k.b THEN 1 ELSE 0]
    BY <1>20, Zenon DEF Abs!Promise, Abs!B, Abs!AddNewFns, Abs!AddVoidFns, Abs!FetchAddFns, Abs!SubNewFns, Abs!IncFns, Abs!IncRetFns, Abs!DecFns, Abs!DecRetFns, Abs!SwapFns, Abs!CmpXchgFns, Abs!CasFns, Abs!ReadFns, Abs!SetFns
  <2>3. (Lo(v) = Lo(k.b) /\ Hi(v) = Hi(k.b)) <=> v = k.b
    BY PairEqual
  <2>4. ArchAtomicCmpXchg64bits(v, k.a, k.b).store <=> v = k.b
    BY <2>3, Zenon DEF ArchAtomicCmpXchg64bits, Effect
  <2>5. ArchAtomicCmpXchg64bits(v, k.a, k.b).new = k.a /\ ArchAtomicCmpXchg64bits(v, k.a, k.b).ret = IF v # k.b THEN 1 ELSE 0
    BY DEF ArchAtomicCmpXchg64bits, Effect, B
  <2>6. Abs!Promise(k, v).new = (IF v = k.b THEN k.a ELSE v) /\ Abs!Promise(k, v).ret = IF v # k.b THEN 1 ELSE 0
    BY <2>2
  <2>7. CodeEffect(k, v).store <=> v = k.b
    BY <2>1, <2>4, Zenon
  <2>8. CodeEffect(k, v).new = k.a /\ CodeEffect(k, v).ret = IF v # k.b THEN 1 ELSE 0
    BY <2>1, <2>5
  <2>9. k.fn \in CompareFns
    BY <1>20 DEF CompareFns
  <2>. QED  BY <2>6, <2>7, <2>8, <2>9
<1>21. CASE k.fn = "PRT_AtomicAdd32Rtn"
  <2>1. CodeEffect(k, v) = PRT_AtomicAdd32Rtn(v, k.a)
    BY <1>21, Zenon DEF CodeEffect
  <2>2. Abs!Promise(k, v) = [new |-> Abs!Wrap(k.fn, v + k.a), ret |-> Abs!Wrap(k.fn, v + k.a)]
    BY <1>21, Zenon DEF Abs!Promise, Abs!B, Abs!AddNewFns, Abs!AddVoidFns, Abs!FetchAddFns, Abs!SubNewFns, Abs!IncFns, Abs!IncRetFns, Abs!DecFns, Abs!DecRetFns, Abs!SwapFns, Abs!CmpXchgFns, Abs!CasFns, Abs!ReadFns, Abs!SetFns
  <2>. QED  BY <1>21, <2>1, <2>2, SameWords DEF PRT_AtomicAdd32Rtn, ArchAtomicAdd, Effect, Abs!Wrap, Abs!Fn64, CompareFns, LoadOnlyFns
<1>22. CASE k.fn = "PRT_AtomicAddU32Rtn"
  <2>1. CodeEffect(k, v) = PRT_AtomicAddU32Rtn(v, k.a)
    BY <1>22, Zenon DEF CodeEffect
  <2>2. Abs!Promise(k, v) = [new |-> Abs!Wrap(k.fn, v + k.a), ret |-> Abs!Wrap(k.fn, v + k.a)]
    BY <1>22, Zenon DEF Abs!Promise, Abs!B, Abs!AddNewFns, Abs!AddVoidFns, Abs!FetchAddFns, Abs!SubNewFns, Abs!IncFns, Abs!IncRetFns, Abs!DecFns, Abs!DecRetFns, Abs!SwapFns, Abs!CmpXchgFns, Abs!CasFns, Abs!ReadFns, Abs!SetFns
  <2>. QED  BY <1>22, <2>1, <2>2, SameWords DEF PRT_AtomicAddU32Rtn, ArchAtomicAdd, Effect, Abs!Wrap, Abs!Fn64, CompareFns, LoadOnlyFns
<1>23. CASE k.fn = "PRT_AtomicAdd64Rtn"
  <2>1. CodeEffect(k, v) = PRT_AtomicAdd64Rtn(v, k.a)
    BY <1>23, Zenon DEF CodeEffect
  <2>2. Abs!Promise(k, v) = [new |-> Abs!Wrap(k.fn, v + k.a), ret |-> Abs!Wrap(k.fn, v + k.a)]
    BY <1>23, Zenon DEF Abs!Promise, Abs!B, Abs!AddNewFns, Abs!AddVoidFns, Abs!FetchAddFns, Abs!SubNewFns, Abs!IncFns, Abs!IncRetFns, Abs!DecFns, Abs!DecRetFns, Abs!SwapFns, Abs!CmpXchgFns, Abs!CasFns, Abs!ReadFns, Abs!SetFns
  <2>3. AddHalves(v, k.a) = Word64(v + k.a)
    BY AddHalvesWord64
  <2>. QED  BY <1>23, <2>1, <2>2, SameWords, <2>3 DEF PRT_AtomicAdd64Rtn, ArchAtomic64Add, Effect, Abs!Wrap, Abs!Fn64, CompareFns, LoadOnlyFns
<1>24. CASE k.fn = "PRT_AtomicAddU64Rtn"
  <2>1. CodeEffect(k, v) = PRT_AtomicAddU64Rtn(v, k.a)
    BY <1>24, Zenon DEF CodeEffect
  <2>2. Abs!Promise(k, v) = [new |-> Abs!Wrap(k.fn, v + k.a), ret |-> Abs!Wrap(k.fn, v + k.a)]
    BY <1>24, Zenon DEF Abs!Promise, Abs!B, Abs!AddNewFns, Abs!AddVoidFns, Abs!FetchAddFns, Abs!SubNewFns, Abs!IncFns, Abs!IncRetFns, Abs!DecFns, Abs!DecRetFns, Abs!SwapFns, Abs!CmpXchgFns, Abs!CasFns, Abs!ReadFns, Abs!SetFns
  <2>3. AddHalves(v, k.a) = Word64(v + k.a)
    BY AddHalvesWord64
  <2>. QED  BY <1>24, <2>1, <2>2, SameWords, <2>3 DEF PRT_AtomicAddU64Rtn, ArchAtomic64Add, Effect, Abs!Wrap, Abs!Fn64, CompareFns, LoadOnlyFns
<1>25. CASE k.fn = "PRT_AtomicAdd32"
  <2>1. CodeEffect(k, v) = PRT_AtomicAdd32(v, k.a)
    BY <1>25, Zenon DEF CodeEffect
  <2>2. Abs!Promise(k, v) = [new |-> Abs!Wrap(k.fn, v + k.a), ret |-> Abs!Void]
    BY <1>25, Zenon DEF Abs!Promise, Abs!B, Abs!AddNewFns, Abs!AddVoidFns, Abs!FetchAddFns, Abs!SubNewFns, Abs!IncFns, Abs!IncRetFns, Abs!DecFns, Abs!DecRetFns, Abs!SwapFns, Abs!CmpXchgFns, Abs!CasFns, Abs!ReadFns, Abs!SetFns
  <2>. QED  BY <1>25, <2>1, <2>2, SameWords DEF PRT_AtomicAdd32, Discard, ArchAtomicAdd, Effect, Abs!Wrap, Abs!Fn64, CompareFns, LoadOnlyFns
<1>26. CASE k.fn = "PRT_AtomicAddU32"
  <2>1. CodeEffect(k, v) = PRT_AtomicAddU32(v, k.a)
    BY <1>26, Zenon DEF CodeEffect
  <2>2. Abs!Promise(k, v) = [new |-> Abs!Wrap(k.fn, v + k.a), ret |-> Abs!Void]
    BY <1>26, Zenon DEF Abs!Promise, Abs!B, Abs!AddNewFns, Abs!AddVoidFns, Abs!FetchAddFns, Abs!SubNewFns, Abs!IncFns, Abs!IncRetFns, Abs!DecFns, Abs!DecRetFns, Abs!SwapFns, Abs!CmpXchgFns, Abs!CasFns, Abs!ReadFns, Abs!SetFns
  <2>. QED  BY <1>26, <2>1, <2>2, SameWords DEF PRT_AtomicAddU32, Discard, ArchAtomicAdd, Effect, Abs!Wrap, Abs!Fn64, CompareFns, LoadOnlyFns
<1>27. CASE k.fn = "PRT_AtomicAddS64"
  <2>1. CodeEffect(k, v) = PRT_AtomicAddS64(v, k.a)
    BY <1>27, Zenon DEF CodeEffect
  <2>2. Abs!Promise(k, v) = [new |-> Abs!Wrap(k.fn, v + k.a), ret |-> Abs!Void]
    BY <1>27, Zenon DEF Abs!Promise, Abs!B, Abs!AddNewFns, Abs!AddVoidFns, Abs!FetchAddFns, Abs!SubNewFns, Abs!IncFns, Abs!IncRetFns, Abs!DecFns, Abs!DecRetFns, Abs!SwapFns, Abs!CmpXchgFns, Abs!CasFns, Abs!ReadFns, Abs!SetFns
  <2>3. AddHalves(v, k.a) = Word64(v + k.a)
    BY AddHalvesWord64
  <2>. QED  BY <1>27, <2>1, <2>2, SameWords, <2>3 DEF PRT_AtomicAddS64, Discard, ArchAtomic64Add, Effect, Abs!Wrap, Abs!Fn64, CompareFns, LoadOnlyFns
<1>28. CASE k.fn = "PRT_AtomicAddU64"
  <2>1. CodeEffect(k, v) = PRT_AtomicAddU64(v, k.a)
    BY <1>28, Zenon DEF CodeEffect
  <2>2. Abs!Promise(k, v) = [new |-> Abs!Wrap(k.fn, v + k.a), ret |-> Abs!Void]
    BY <1>28, Zenon DEF Abs!Promise, Abs!B, Abs!AddNewFns, Abs!AddVoidFns, Abs!FetchAddFns, Abs!SubNewFns, Abs!IncFns, Abs!IncRetFns, Abs!DecFns, Abs!DecRetFns, Abs!SwapFns, Abs!CmpXchgFns, Abs!CasFns, Abs!ReadFns, Abs!SetFns
  <2>3. AddHalves(v, k.a) = Word64(v + k.a)
    BY AddHalvesWord64
  <2>. QED  BY <1>28, <2>1, <2>2, SameWords, <2>3 DEF PRT_AtomicAddU64, Discard, ArchAtomic64Add, Effect, Abs!Wrap, Abs!Fn64, CompareFns, LoadOnlyFns
<1>29. CASE k.fn = "PRT_AtomicSwap32"
  <2>1. CodeEffect(k, v) = PRT_AtomicSwap32(v, k.a)
    BY <1>29, Zenon DEF CodeEffect
  <2>2. Abs!Promise(k, v) = [new |-> k.a, ret |-> v]
    BY <1>29, Zenon DEF Abs!Promise, Abs!B, Abs!AddNewFns, Abs!AddVoidFns, Abs!FetchAddFns, Abs!SubNewFns, Abs!IncFns, Abs!IncRetFns, Abs!DecFns, Abs!DecRetFns, Abs!SwapFns, Abs!CmpXchgFns, Abs!CasFns, Abs!ReadFns, Abs!SetFns
  <2>. QED  BY <1>29, <2>1, <2>2, SameWords DEF PRT_AtomicSwap32, ArchAtomicXchg32bits, Effect, Abs!Wrap, Abs!Fn64, CompareFns, LoadOnlyFns
<1>30. CASE k.fn = "PRT_AtomicSwap64"
  <2>1. CodeEffect(k, v) = PRT_AtomicSwap64(v, k.a)
    BY <1>30, Zenon DEF CodeEffect
  <2>2. Abs!Promise(k, v) = [new |-> k.a, ret |-> v]
    BY <1>30, Zenon DEF Abs!Promise, Abs!B, Abs!AddNewFns, Abs!AddVoidFns, Abs!FetchAddFns, Abs!SubNewFns, Abs!IncFns, Abs!IncRetFns, Abs!DecFns, Abs!DecRetFns, Abs!SwapFns, Abs!CmpXchgFns, Abs!CasFns, Abs!ReadFns, Abs!SetFns
  <2>. QED  BY <1>30, <2>1, <2>2, SameWords DEF PRT_AtomicSwap64, ArchAtomicXchg64bits, Effect, Abs!Wrap, Abs!Fn64, CompareFns, LoadOnlyFns
<1>31. CASE k.fn = "PRT_AtomicCompareAndStore64"
  <2>1. CodeEffect(k, v) = PRT_AtomicCompareAndStore64(v, k.a, k.b)
    BY <1>31, Zenon DEF CodeEffect
  <2>2. Abs!Promise(k, v) = [new |-> IF v = k.a THEN k.b ELSE v, ret |-> IF v = k.a THEN 1 ELSE 0]
    BY <1>31, Zenon DEF Abs!Promise, Abs!B, Abs!AddNewFns, Abs!AddVoidFns, Abs!FetchAddFns, Abs!SubNewFns, Abs!IncFns, Abs!IncRetFns, Abs!DecFns, Abs!DecRetFns, Abs!SwapFns, Abs!CmpXchgFns, Abs!CasFns, Abs!ReadFns, Abs!SetFns
  <2>3. (Lo(v) = Lo(k.a) /\ Hi(v) = Hi(k.a)) <=> v = k.a
    BY PairEqual
  <2>4. PRT_AtomicCompareAndStore64(v, k.a, k.b).store <=> v = k.a
    BY <2>3, Zenon DEF PRT_AtomicCompareAndStore64, ArchAtomicCmpXchg64bits, Effect
  <2>5. PRT_AtomicCompareAndStore64(v, k.a, k.b).new = k.b /\ PRT_AtomicCompareAndStore64(v, k.a, k.b).ret = IF v = k.a THEN 1 ELSE 0
    BY DEF PRT_AtomicCompareAndStore64, ArchAtomicCmpXchg64bits, Effect, B
  <2>6. Abs!Promise(k, v).new = (IF v = k.a THEN k.b ELSE v) /\ Abs!Promise(k, v).ret = IF v = k.a THEN 1 ELSE 0
    BY <2>2
  <2>7. CodeEffect(k, v).store <=> v = k.a
    BY <2>1, <2>4, Zenon
  <2>8. CodeEffect(k, v).new = k.b /\ CodeEffect(k, v).ret = IF v = k.a THEN 1 ELSE 0
    BY <2>1, <2>5
  <2>9. k.fn \in CompareFns
    BY <1>31 DEF CompareFns
  <2>. QED  BY <2>6, <2>7, <2>8, <2>9
<1>32. CASE k.fn = "PRT_AtomicReadU64"
  <2>1. CodeEffect(k, v) = PRT_AtomicReadU64(v)
    BY <1>32, Zenon DEF CodeEffect
  <2>2. Abs!Promise(k, v) = [new |-> v, ret |-> v]
    BY <1>32, Zenon DEF Abs!Promise, Abs!B, Abs!AddNewFns, Abs!AddVoidFns, Abs!FetchAddFns, Abs!SubNewFns, Abs!IncFns, Abs!IncRetFns, Abs!DecFns, Abs!DecRetFns, Abs!SwapFns, Abs!CmpXchgFns, Abs!CasFns, Abs!ReadFns, Abs!SetFns
  <2>. QED  BY <1>32, <2>1, <2>2, SameWords DEF PRT_AtomicReadU64, ArchAtomic64Read, Effect, Abs!Wrap, Abs!Fn64, CompareFns, LoadOnlyFns
<1>. QED  BY <1>1, <1>2, <1>3, <1>4, <1>5, <1>6, <1>7, <1>8, <1>9, <1>10, <1>11, <1>12, <1>13, <1>14, <1>15, <1>16, <1>17, <1>18, <1>19, <1>20, <1>21, <1>22, <1>23, <1>24, <1>25, <1>26, <1>27, <1>28, <1>29, <1>30, <1>31, <1>32 DEF LinFns, AtomicFns
(* A lone ldrexd stores nothing.                                           *)
LEMMA LoadOnlyNoStore ==
  ASSUME NEW k, k.fn \in LoadOnlyFns, NEW old
  PROVE  ~CodeEffect(k, old).store
<1>1. CASE k.fn = "ArchAtomic64Read"
  BY <1>1, Zenon DEF CodeEffect, ArchAtomic64Read, Effect
<1>2. CASE k.fn = "PRT_AtomicReadU64"
  BY <1>2, Zenon DEF CodeEffect, PRT_AtomicReadU64, ArchAtomic64Read, Effect
<1>. QED  BY <1>1, <1>2 DEF LoadOnlyFns

(* The operands of a call of the theorems are numbers.                     *)
LEMMA CallArgs ==
  ASSUME CallsOK, LinOK, NEW k \in Calls
  PROVE  k.fn \in LinFns /\ k.a \in Int /\ k.b \in Int
<1>1. Top(k.fn) \in Nat
  BY WidthPositive DEF Top
<1>. QED  BY <1>1 DEF CallsOK, LinOK

-----------------------------------------------------------------------------
(* A core reaches its strex only with a value on which its function        *)
(* stores: a compare whose teq fails leaves the loop at the ldrex, and     *)
(* the register does not change between the ldrex and the strex.           *)
StrexStores ==
  \A c \in Core : pc[c] = "strex" => CodeEffect(call[c], reg[c]).store

LEMMA StrexStoresInit == Init => StrexStores
BY DEF Init, StrexStores

(* Only the ldrex puts a core at its strex, and it does so only when the   *)
(* function stores on the value it loaded into the register.               *)
LEMMA StrexStoresNext ==
  ASSUME CallsOK, LinOK, AInv, StrexStores, [Next]_vars
  PROVE  StrexStores'
<1>. SUFFICES ASSUME NEW c \in Core, pc'[c] = "strex"
              PROVE  CodeEffect(call'[c], reg'[c]).store
  BY DEF StrexStores
<1>1. CASE UNCHANGED vars
  BY <1>1 DEF vars, StrexStores
<1>2. ASSUME NEW d \in Core, NEW k \in Calls, Invoke(d, k)
      PROVE  CodeEffect(call'[c], reg'[c]).store
  <2>1. c # d
    BY <1>2 DEF Invoke, AInv, TypeOK
  <2>. QED  BY <1>2, <2>1 DEF Invoke, AInv, TypeOK, StrexStores
<1>3. ASSUME NEW d \in Core, Ldrex(d)
      PROVE  CodeEffect(call'[c], reg'[c]).store
  <2>. DEFINE l == Loc(call[d].fn)
              e == CodeEffect(call[d], mem[l])
  <2>1. /\ pc[d] = "ldrex" /\ reg' = [reg EXCEPT ![d] = mem[l]]
        /\ UNCHANGED call
        /\ \/ pc' = [pc EXCEPT ![d] = "ret"]
           \/ /\ pc' = [pc EXCEPT ![d] = "strex"]
              /\ call[d].fn \notin LoadOnlyFns
              /\ call[d].fn \in CompareFns => e.store
    BY <1>3 DEF Ldrex
  <2>2. CASE c = d
    <3>1. pc'[d] = "strex" /\ call[d].fn \notin LoadOnlyFns
          /\ (call[d].fn \in CompareFns => e.store)
      BY <2>1, <2>2 DEF AInv, TypeOK
    <3>2. call[d] \in Calls /\ call[d].fn \notin PlainLoadFns /\ l \in Locs
      BY <2>1, LocTop DEF AInv, PcFn
    <3>3. mem[l] \in Int
      BY <3>2 DEF AInv, TypeOK
    <3>4. e.store
      <4>1. CASE call[d].fn \in CompareFns
        BY <3>1, <4>1
      <4>2. CASE call[d].fn \notin CompareFns
        BY <3>1, <3>2, <3>3, <4>2, CallArgs, EffectMatches DEF PlainLoadFns
      <4>. QED  BY <4>1, <4>2
    <3>. QED  BY <2>1, <2>2, <3>4 DEF AInv, TypeOK
  <2>3. CASE c # d
    BY <2>1, <2>3 DEF AInv, TypeOK, StrexStores
  <2>. QED  BY <2>2, <2>3
<1>4. ASSUME NEW d \in Core, Strex(d) \/ PlainLoad(d) \/ PlainStore(d) \/ Return(d) \/ Clrex(d)
      PROVE  CodeEffect(call'[c], reg'[c]).store
  <2>1. CASE Strex(d)
    BY <2>1 DEF Strex, AInv, TypeOK, StrexStores
  <2>2. CASE PlainLoad(d)
    <3>1. c # d
      BY <2>2 DEF PlainLoad, AInv, TypeOK
    <3>. QED  BY <2>2, <3>1 DEF PlainLoad, AInv, TypeOK, StrexStores
  <2>3. CASE PlainStore(d)
    BY <2>3 DEF PlainStore, AInv, TypeOK, StrexStores
  <2>4. CASE Return(d)
    BY <2>4 DEF Return, AInv, TypeOK, StrexStores
  <2>5. CASE Clrex(d)
    BY <2>5 DEF Clrex, StrexStores
  <2>. QED  BY <1>4, <2>1, <2>2, <2>3, <2>4, <2>5
<1>. QED  BY <1>1, <1>2, <1>3, <1>4 DEF Next, Run
-----------------------------------------------------------------------------
(* The refinement mapping's view of where a core is: "busy" from the       *)
(* invocation to the step that takes effect, "done" until the return.      *)
APc(p) == [c \in Core |-> CASE p[c] = "idle" -> "idle"
                            [] p[c] = "ret"  -> "done"
                            [] OTHER         -> "busy"]

(* A step of one core changes only its own view.                           *)
LEMMA APcExcept ==
  ASSUME NEW S, NEW p \in [Core -> S], NEW d \in Core, NEW s
  PROVE  APc([p EXCEPT ![d] = s])
           = [APc(p) EXCEPT ![d] = CASE s = "idle" -> "idle"
                                     [] s = "ret"  -> "done"
                                     [] OTHER      -> "busy"]
BY DEF APc

(* The step in which a call takes effect: a load that returns, a strex or  *)
(* a plain store.  It writes what the function computes from the current   *)
(* value v of the location, and returns what the function returns.         *)
LEMMA ApplyStep ==
  ASSUME CallsOK, LinOK, AInv, NEW d \in Core,
         pc[d] \in {"ldrex", "strex", "load", "store"},
         NEW v \in Int, v = mem[Loc(call[d].fn)],
         mem' = [mem EXCEPT ![Loc(call[d].fn)] =
                   IF CodeEffect(call[d], v).store THEN CodeEffect(call[d], v).new ELSE v],
         ret' = [ret EXCEPT ![d] = CodeEffect(call[d], v).ret],
         pc' = [pc EXCEPT ![d] = "ret"],
         UNCHANGED <<call, ncalls>>
  PROVE  Abs!AApply(d)
<1>1. call[d] \in Calls
  BY DEF AInv, PcFn
<1>2. /\ Abs!Promise(call[d], v).ret = CodeEffect(call[d], v).ret
      /\ Abs!Promise(call[d], v).new
           = IF CodeEffect(call[d], v).store THEN CodeEffect(call[d], v).new ELSE v
  BY <1>1, CallArgs, EffectMatches
<1>3. APc(pc)[d] = "busy" /\ APc(pc') = [APc(pc) EXCEPT ![d] = "done"]
  BY APcExcept DEF AInv, TypeOK, APc
<1>. QED  BY <1>2, <1>3 DEF Abs!AApply, APc, Loc
(* An ldrex is the effect of a lone ldrexd and of a compare that fails;    *)
(* before a strex it is invisible.                                         *)
LEMMA RefineLdrex ==
  ASSUME CallsOK, LinOK, AInv, NEW d \in Core, Ldrex(d)
  PROVE  Abs!AApply(d) \/ UNCHANGED <<mem, APc(pc), call, ret, ncalls>>
<1>. DEFINE l == Loc(call[d].fn)
            e == CodeEffect(call[d], mem[l])
<1>1. /\ pc[d] = "ldrex" /\ l \in Locs /\ mem[l] \in Int
      /\ UNCHANGED <<mem, call, ncalls>>
  BY LocTop DEF Ldrex, AInv, TypeOK
<1>2. CASE call[d].fn \in LoadOnlyFns \/ (call[d].fn \in CompareFns /\ ~e.store)
  <2>1. pc' = [pc EXCEPT ![d] = "ret"] /\ ret' = [ret EXCEPT ![d] = e.ret]
    BY <1>2 DEF Ldrex
  <2>2. ~e.store
    BY <1>2, LoadOnlyNoStore
  <2>3. mem' = [mem EXCEPT ![l] = IF e.store THEN e.new ELSE mem[l]]
    BY <1>1, <2>2 DEF AInv, TypeOK
  <2>. QED  BY <1>1, <2>1, <2>3, ApplyStep
<1>3. CASE ~(call[d].fn \in LoadOnlyFns \/ (call[d].fn \in CompareFns /\ ~e.store))
  <2>1. pc' = [pc EXCEPT ![d] = "strex"] /\ UNCHANGED ret
    BY <1>3 DEF Ldrex
  <2>2. APc(pc') = APc(pc)
    BY <1>1, <2>1, APcExcept DEF AInv, TypeOK, APc
  <2>. QED  BY <1>1, <2>1, <2>2
<1>. QED  BY <1>2, <1>3

(* A strex that keeps its tag is the call's one indivisible step: the      *)
(* monitor guarantees the register still holds the current value.  A      *)
(* strex that lost its tag goes back to the ldrex and shows nothing.       *)
LEMMA RefineStrex ==
  ASSUME CallsOK, LinOK, AInv, StrexStores, NEW d \in Core, Strex(d)
  PROVE  Abs!AApply(d) \/ UNCHANGED <<mem, APc(pc), call, ret, ncalls>>
<1>. DEFINE l == Loc(call[d].fn)
            e == CodeEffect(call[d], reg[d])
<1>1. /\ pc[d] = "strex" /\ l \in Locs /\ mem[l] \in Int
      /\ UNCHANGED <<call, reg, ncalls>>
  BY LocTop DEF Strex, AInv, TypeOK
<1>2. CASE mon[d] = l
  <2>1. /\ mem' = [mem EXCEPT ![l] = e.new]
        /\ pc' = [pc EXCEPT ![d] = "ret"] /\ ret' = [ret EXCEPT ![d] = e.ret]
    BY <1>2 DEF Strex
  <2>2. reg[d] = mem[l]
    <3>1. mon[d] # NoTag
      BY <1>1, <1>2 DEF NoTag, Locs
    <3>. QED  BY <1>1, <1>2, <3>1 DEF AInv, MonitorExact
  <2>3. e.store
    BY <1>1 DEF StrexStores
  <2>4. mem' = [mem EXCEPT ![l] = IF CodeEffect(call[d], mem[l]).store
                                   THEN CodeEffect(call[d], mem[l]).new ELSE mem[l]]
    BY <2>1, <2>2, <2>3
  <2>5. ret' = [ret EXCEPT ![d] = CodeEffect(call[d], mem[l]).ret]
    BY <2>1, <2>2
  <2>. QED  BY <1>1, <2>1, <2>4, <2>5, ApplyStep
<1>3. CASE mon[d] # l
  <2>1. pc' = [pc EXCEPT ![d] = "ldrex"] /\ UNCHANGED <<mem, ret>>
    BY <1>3 DEF Strex
  <2>2. APc(pc') = APc(pc)
    BY <1>1, <2>1, APcExcept DEF AInv, TypeOK, APc
  <2>. QED  BY <1>1, <2>1, <2>2
<1>. QED  BY <1>2, <1>3

(* The plain load of ArchAtomicRead is its effect.                         *)
LEMMA RefinePlainLoad ==
  ASSUME CallsOK, LinOK, AInv, NEW d \in Core, PlainLoad(d)
  PROVE  Abs!AApply(d)
<1>. DEFINE l == Loc(call[d].fn)
            e == CodeEffect(call[d], mem[l])
<1>1. /\ pc[d] = "load" /\ l \in Locs /\ mem[l] \in Int
      /\ call[d] \in Calls /\ call[d].fn = "ArchAtomicRead"
  BY LocTop DEF PlainLoad, AInv, TypeOK, PcFn, CallsOK, AtomicFns, PlainLoadFns
<1>2. ~e.store
  BY <1>1, ReadNoStore
<1>3. /\ pc' = [pc EXCEPT ![d] = "ret"] /\ ret' = [ret EXCEPT ![d] = e.ret]
      /\ UNCHANGED <<mem, call, ncalls>>
  BY <1>2 DEF PlainLoad
<1>4. mem' = [mem EXCEPT ![l] = IF e.store THEN e.new ELSE mem[l]]
  BY <1>1, <1>2, <1>3 DEF AInv, TypeOK
<1>. QED  BY <1>1, <1>3, <1>4, ApplyStep

(* The plain store of ArchAtomicSet is its effect: what it stores does not *)
(* depend on the register.                                                 *)
LEMMA RefinePlainStore ==
  ASSUME CallsOK, LinOK, AInv, NEW d \in Core, PlainStore(d)
  PROVE  Abs!AApply(d)
<1>. DEFINE l == Loc(call[d].fn)
<1>1. /\ pc[d] = "store" /\ l \in Locs /\ mem[l] \in Int /\ reg[d] \in Int
      /\ call[d] \in Calls /\ call[d].fn = "ArchAtomicSet"
  BY LocTop DEF PlainStore, AInv, TypeOK, PcFn, PlainStoreFns
<1>2. /\ CodeEffect(call[d], reg[d]) = ArchAtomicSet(call[d].a)
      /\ CodeEffect(call[d], mem[l]) = ArchAtomicSet(call[d].a)
  BY <1>1, Zenon DEF CodeEffect
<1>3. /\ CodeEffect(call[d], reg[d]).new = CodeEffect(call[d], mem[l]).new
      /\ CodeEffect(call[d], reg[d]).ret = CodeEffect(call[d], mem[l]).ret
  BY <1>2
<1>4. CodeEffect(call[d], mem[l]).store
  BY <1>1, CallArgs, EffectMatches DEF CompareFns, LoadOnlyFns
<1>5. /\ mem' = [mem EXCEPT ![l] = CodeEffect(call[d], reg[d]).new]
      /\ ret' = [ret EXCEPT ![d] = CodeEffect(call[d], reg[d]).ret]
      /\ pc' = [pc EXCEPT ![d] = "ret"]
      /\ UNCHANGED <<call, ncalls>>
  BY DEF PlainStore
<1>6. mem' = [mem EXCEPT ![l] = IF CodeEffect(call[d], mem[l]).store
                                 THEN CodeEffect(call[d], mem[l]).new ELSE mem[l]]
  BY <1>3, <1>4, <1>5
<1>. QED  BY <1>1, <1>3, <1>5, <1>6, ApplyStep
(* Entering a function is the invocation.                                  *)
LEMMA RefineInvoke ==
  ASSUME AInv, NEW d \in Core, NEW k \in Calls, Invoke(d, k)
  PROVE  Abs!AInvoke(d, k)
<1>1. /\ pc[d] = "idle" /\ ncalls[d] < MaxCalls
      /\ pc' = [pc EXCEPT ![d] = CASE k.fn \in PlainLoadFns  -> "load"
                                   [] k.fn \in PlainStoreFns -> "store"
                                   [] OTHER                  -> "ldrex"]
      /\ call' = [call EXCEPT ![d] = k]
      /\ ncalls' = [ncalls EXCEPT ![d] = @ + 1]
      /\ UNCHANGED <<mem, ret>>
  BY DEF Invoke
<1>2. APc(pc)[d] = "idle" /\ APc(pc') = [APc(pc) EXCEPT ![d] = "busy"]
  BY <1>1, APcExcept DEF AInv, TypeOK, APc
<1>. QED  BY <1>1, <1>2 DEF Abs!AInvoke, APc

(* Leaving the function is the return.                                     *)
LEMMA RefineReturn ==
  ASSUME AInv, NEW d \in Core, Return(d)
  PROVE  Abs!AReturn(d)
<1>1. /\ pc[d] = "ret" /\ pc' = [pc EXCEPT ![d] = "idle"]
      /\ call' = [call EXCEPT ![d] = NoCall]
      /\ UNCHANGED <<mem, ret, ncalls>>
  BY DEF Return
<1>2. APc(pc)[d] = "done" /\ APc(pc') = [APc(pc) EXCEPT ![d] = "idle"]
  BY <1>1, APcExcept DEF AInv, TypeOK, APc
<1>. QED  BY <1>1, <1>2 DEF Abs!AReturn, APc, NoCall

(* Every step of the cores is a step of the promise or invisible to it.    *)
THEOREM RefineNext ==
  ASSUME CallsOK, LinOK, AInv, StrexStores, [Next]_vars
  PROVE  [Abs!ANext]_Abs!avars
<1>. DEFINE av == <<mem, APc(pc), call, ret, ncalls>>
<1>1. Abs!avars = av /\ Abs!avars' = av'
  BY DEF Abs!avars, APc
<1>. SUFFICES [Abs!ANext]_av
  BY <1>1
<1>2. ASSUME NEW d \in Core, Abs!AApply(d) PROVE Abs!ANext
  BY <1>2 DEF Abs!ANext
<1>3. CASE UNCHANGED vars
  <2>1. UNCHANGED <<mem, pc, call, ret, ncalls>>
    BY <1>3 DEF vars
  <2>. QED  BY <2>1 DEF APc
<1>4. CASE Next
  <2>. PICK d \in Core : \/ \E k \in Calls : Invoke(d, k)
                         \/ Run(d)
                         \/ Clrex(d)
    BY <1>4 DEF Next
  <2>1. ASSUME NEW k \in Calls, Invoke(d, k) PROVE [Abs!ANext]_av
    BY <2>1, RefineInvoke DEF Abs!ANext
  <2>2. CASE Ldrex(d)
    BY <2>2, <1>2, RefineLdrex
  <2>3. CASE Strex(d)
    BY <2>3, <1>2, RefineStrex
  <2>4. CASE PlainLoad(d)
    BY <2>4, <1>2, RefinePlainLoad
  <2>5. CASE PlainStore(d)
    BY <2>5, <1>2, RefinePlainStore
  <2>6. CASE Return(d)
    BY <2>6, RefineReturn DEF Abs!ANext
  <2>7. CASE Clrex(d)
    BY <2>7 DEF Clrex
  <2>. QED  BY <2>1, <2>2, <2>3, <2>4, <2>5, <2>6, <2>7 DEF Run
<1>. QED  BY <1>3, <1>4

(* The cores start where the promise starts: no call in progress.          *)
LEMMA RefineInit == Init => Abs!AInit
<1>. SUFFICES ASSUME Init PROVE Abs!AInit
  OBVIOUS
<1>1. mem \in {x \in [Abs!Locs -> 0 .. Abs!M2 - 1] : x["w32"] < Abs!M}
  BY DEF Init, Abs!Locs, Abs!M2, Abs!M, Locs, M2, M
<1>2. APc(pc) = [c \in Core |-> "idle"]
  BY DEF Init, APc
<1>3. call = [c \in Core |-> Abs!NoCall] /\ ret = [c \in Core |-> Abs!Void]
  BY DEF Init, NoCall, Abs!Void, Void
<1>. QED  BY <1>1, <1>2, <1>3 DEF Init, Abs!AInit, APc

(* The ldrex/strex loops and plain accesses are linearizable: for every    *)
(* word width and every number of cores, every behaviour of the code is a  *)
(* behaviour of ArmAtomicSpec, in which each call takes its documented     *)
(* effect in one indivisible step between its invocation and its return.   *)
(* The calls are those of LinFns, with operands of their width.            *)
THEOREM LinearizableThm == CallsOK /\ LinOK => (Spec => Linearizable)
<1>. SUFFICES ASSUME CallsOK, LinOK PROVE Spec => Abs!ASpec
  BY DEF Linearizable
<1>1. Spec => [](AInv /\ StrexStores)
  <2>1. AInv /\ StrexStores /\ [Next]_vars => AInv' /\ StrexStores'
    BY ANext, StrexStoresNext
  <2>. QED  BY <2>1, AInit, StrexStoresInit, PTL DEF Spec
<1>2. AInv /\ StrexStores /\ [Next]_vars => [Abs!ANext]_Abs!avars
  BY RefineNext
<1>. QED  BY <1>1, <1>2, RefineInit, PTL DEF Spec, Abs!ASpec
=============================================================================
