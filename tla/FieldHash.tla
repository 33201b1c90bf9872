------------------------------ MODULE FieldHash ------------------------------
(***************************************************************************)
(* operator"" _octo_field_name_hash (src/OctoCore/FieldHash.h): the loop  *)
(* that hashes a field name's chars, one step per iteration of its        *)
(* while loop, and a reference FNV-1a over the name's bytes to compare    *)
(* it with.                                                                *)
(*                                                                         *)
(* TLC's integers are 32-bit signed, so a uint32_t is kept as two 16-bit  *)
(* limbs [hi, lo].  A name is a sequence of byte values 0..255 (its UTF-8 *)
(* encoding); *chars reads one of them as a char, which is signed or      *)
(* unsigned depending on the platform (CharSigned).                       *)
(***************************************************************************)
EXTENDS Integers, Sequences

CONSTANTS
    Names,         \* the field names hashed, as sequences of byte values
    CharSigned,    \* is char signed on the target (x86: yes; ARM Linux: no)
    TestVectors    \* FieldHash_test.cpp: expected hash of some names, as limbs

ASSUME FieldHashAssumption ==
    /\ Names \subseteq Seq(0..255)
    /\ CharSigned \in BOOLEAN
    /\ DOMAIN TestVectors \subseteq Names

Limb == 2^16

\* A uint32_t as limbs.
Uint32 == [hi : 0..Limb - 1, lo : 0..Limb - 1]

\* Bitwise XOR of two values of w bits, bit by bit.
BitXor(x, y, w) ==
    LET xbits[i \in 0..w] ==
          IF i = 0 THEN 0
          ELSE xbits[i - 1] + 2^(i - 1) * ((x \div 2^(i - 1) + y \div 2^(i - 1)) % 2)
    IN  xbits[w]

\* FNV_offset = 2166136261 = 0x811C9DC5.
FNV_offset == [hi |-> 33052, lo |-> 40389]

\* Mutant of CharValue: the byte read as unsigned whatever the platform.
CharValueUnsigned(b) == b

\* *chars: the byte read as a char, promoted to int.
CharValue(b) == IF CharSigned /\ b >= 128 THEN b - 256 ELSE b

\* hash ^ (*chars): the int converted to uint32_t (a negative char
\* becomes 0xFFFFFFxx), then XORed limb by limb.
XorChar(h, b) ==
    LET v == CharValue(b)
    IN  [hi |-> BitXor(h.hi, IF v < 0 THEN Limb - 1 ELSE 0, 16),
         lo |-> BitXor(h.lo, v % Limb, 16)]

\* Mutant of Multiply: the carry out of the low limb dropped.
MultiplyNoCarry(h) ==
    [lo |-> (h.lo * 403) % Limb,
     hi |-> (h.hi * 403 + h.lo * 256) % Limb]

(* (uint32_t)(hash * FNV_prime_32): the product is exact in int64_t and   *)
(* reduced modulo 2^32.  FNV_prime_32 = 16777619 = 0x0100 * 2^16 + 0x0193, *)
(* so with hash = hi * 2^16 + lo the product modulo 2^32 is               *)
(* lo * 403 + 2^16 * (hi * 403 + lo * 256).                               *)
Multiply(h) ==
    LET p == h.lo * 403
    IN  [lo |-> p % Limb,
         hi |-> (h.hi * 403 + h.lo * 256 + p \div Limb) % Limb]

VARIABLES
    name,      \* the string literal being hashed
    pos,       \* chars: index of the next byte of name
    len,       \* len: bytes left
    hash       \* hash

vars == <<name, pos, len, hash>>

\* Entry: chars and len from the literal, hash = FNV_offset.
Init == /\ name \in Names
        /\ pos = 1
        /\ len = Len(name)
        /\ hash = FNV_offset

\* One iteration of while (len-- > 0): XOR in *chars++, then multiply.
Step == /\ len > 0
        /\ hash' = Multiply(XorChar(hash, name[pos]))
        /\ pos' = pos + 1
        /\ len' = len - 1
        /\ UNCHANGED name

\* The loop has returned hash; the computation stops there.
Next == Step

Spec == Init /\ [][Next]_vars

-----------------------------------------------------------------------------
(* Reference: FNV-1a over bytes as spec.md 4.1 states it, computed on a   *)
(* different representation (four bytes, least significant first, and a  *)
(* schoolbook multiplication) so that it shares no arithmetic with the    *)
(* limb code above.                                                        *)
PrimeBytes == <<147, 1, 0, 1>>           \* 16777619 = 0x01000193

OffsetBytes == <<197, 157, 28, 129>>     \* 2166136261 = 0x811C9DC5

\* Four bytes, least significant first.
Bytes4 == [1..4 -> 0..255]

\* a * PrimeBytes modulo 2^32, column by column with the carries.
RefMultiply[a \in Bytes4] ==
    LET col(k) == LET csum[i \in 0..k] ==
                        IF i = 0 THEN 0 ELSE csum[i - 1] + a[i] * PrimeBytes[k + 1 - i]
                  IN  csum[k]
        carries[k \in 0..4] ==
          IF k = 0 THEN [digits |-> <<>>, carry |-> 0]
          ELSE LET t == carries[k - 1].carry + col(k)
               IN  [digits |-> Append(carries[k - 1].digits, t % 256),
                    carry |-> t \div 256]
    IN  carries[4].digits

\* hash = (hash XOR b) * prime for each byte b, from the offset basis.
Fnv1a(s) ==
    LET fnv[i \in 0..Len(s)] ==
          IF i = 0 THEN OffsetBytes
          ELSE RefMultiply[[fnv[i - 1] EXCEPT ![1] = BitXor(@, s[i], 8)]]
    IN  fnv[Len(s)]

\* Four bytes as limbs.
AsLimbs(a) == [lo |-> a[1] + 256 * a[2], hi |-> a[3] + 256 * a[4]]

Ascii(s) == \A i \in DOMAIN s : s[i] < 128

-----------------------------------------------------------------------------
TypeOK ==
    /\ name \in Names
    /\ pos \in 1..Len(name) + 1
    /\ len = Len(name) - (pos - 1)
    /\ hash \in Uint32

(* spec.md 4.1 and 8: the hash of a name is FNV-1a of its bytes.  Stated *)
(* of every prefix the loop has consumed, for the names the code and the *)
(* spec agree on (ASCII): broken by a multiplication that loses a carry   *)
(* or is reduced at the wrong width.                                      *)
AsciiIsFnv1a ==
    Ascii(name) => hash = AsLimbs(Fnv1a(SubSeq(name, 1, pos - 1)))

(* FieldHash_test.cpp and spec.md 8: the hashes the tests expect,         *)
(* including the UTF-8 name, whose expected value is the one a signed     *)
(* char produces.  Broken by reading the chars as unsigned (an ARM build) *)
(* or by any slip in the XOR or the multiplication.                       *)
MatchesTestVectors ==
    len = 0 /\ name \in DOMAIN TestVectors => hash = TestVectors[name]
=============================================================================
