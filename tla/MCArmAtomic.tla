----------------------------- MODULE MCArmAtomic -----------------------------
(* Small instances of ArmAtomic for TLC: 2-bit halves (a word has 4 values, *)
(* a pair 16), so additions wrap and carry between halves within a few      *)
(* calls.  Each call set mixes functions on the same location so that       *)
(* their ldrex/strex loops interfere.                                       *)
EXTENDS ArmAtomic

C(f, x, y) == [fn |-> f, a |-> x, b |-> y]

(* The functions whose code keeps its promise, on both locations: every    *)
(* kind of retry loop, lone ldrexd, plain load and plain store.            *)
MCGoodCalls ==
  { C("ArchAtomicRead", 0, 0), C("ArchAtomicCmpXchg32bits", 2, 3),
    C("ArchAtomicSet", 3, 0), C("ArchAtomic64Add", 3, 0),
    C("PRT_AtomicCompareAndStore64", 0, 9), C("ArchAtomic64Read", 0, 0) }

MCFetchAddCalls == { C("PRT_AtomicFetchAndAddS32", 1, 0) }
MCCas32Calls    == { C("PRT_AtomicCompareAndStore32", 0, 1) }
MCOrCalls       == { C("PRT_AtomicOr", 1, 0), C("PRT_AtomicAnd", 2, 0) }

(* The calls whose doc comment promises more than their code does.        *)
MCDocCalls == MCFetchAddCalls \cup MCCas32Calls \cup MCOrCalls
=============================================================================
