------------------------------- MODULE AtomicWord -------------------------------
(***************************************************************************)
(* Words of the armv7-r atomics (os_atomic_armv7_r.h), shrunk to W bits.   *)
(* A 32-bit Atomic is a W-bit word; a 64-bit Atomic64 is a pair of W-bit   *)
(* halves, held as one number below M * M, that ldrexd/strexd move as a    *)
(* unit.  Signed and unsigned views (S32/U32, S64/U64) are the same bits,  *)
(* so every value is kept as its residue.                                  *)
(***************************************************************************)
EXTENDS Integers

CONSTANT W    \* bits in a half word of the model (32 in the code)

(* 2 ^ W is positive for every W; the provers know nothing of ^ for a   *)
(* symbolic exponent, so the assumption states it.                        *)
ASSUME WordAssumption == W \in Nat \ {0} /\ 2 ^ W \in Nat \ {0}

M  == 2 ^ W      \* values of one 32-bit register
M2 == M * M      \* values of one 64-bit pair

(* The two atomic locations the calls work on.                             *)
Locs == {"w32", "w64"}

Word(x)   == x % M          \* the register arithmetic of add/sub
Word64(x) == x % M2
Lo(x) == x % M              \* %Q: the low register of a pair
Hi(x) == x \div M           \* %R: the high register of a pair

(* Bit i of x, and bitwise OR/AND over the W bits.                         *)
Bit(x, i) == (x \div 2 ^ i) % 2
OrW(x, y)  == CHOOSE z \in 0 .. M - 1 :
                \A i \in 0 .. W - 1 : Bit(z, i) = IF Bit(x, i) + Bit(y, i) > 0 THEN 1 ELSE 0
AndW(x, y) == CHOOSE z \in 0 .. M - 1 :
                \A i \in 0 .. W - 1 : Bit(z, i) = Bit(x, i) * Bit(y, i)

(* What a VOID function leaves in the result: no value of any word.        *)
Void == -1

(* BOOL results, as C's != gives them.                                      *)
B(p) == IF p THEN 1 ELSE 0
=============================================================================
