--------------------------- MODULE FieldHashProofs ---------------------------
(***************************************************************************)
(* Proofs about the arithmetic of Octo::fieldHash (src/OctoCore/          *)
(* FieldHash.h).  The limb multiplication Multiply is shown to be the     *)
(* product by FNV_prime_32 modulo 2^32 for every uint32_t.  The XOR and   *)
(* the whole hash are recursive functions (BitXor, Fnv1a), which the      *)
(* provers cannot unfold, and stay with the run fieldhash_vectors.        *)
(*                                                                         *)
(* The argument holds for every limb base L = Limb: FNV_prime_32 =        *)
(* 0x01000193 is 256 * L + 403 and 2^32 is L * L when L = 2^16.  The      *)
(* provers know nothing of x^n, so that Limb is a positive natural is a   *)
(* hypothesis, LimbPositive.                                               *)
(***************************************************************************)
EXTENDS FieldHash, TLAPS

\* The value of a uint32_t held as limbs.
Value(h) == h.hi * Limb + h.lo

LimbPositive == Limb \in Nat /\ Limb >= 1

\* (X * L + r) modulo L * L keeps r and the low limb of X.
LEMMA ModOfLimbs ==
    ASSUME NEW L \in Nat, L >= 1, NEW X \in Int, NEW r \in 0..L - 1
    PROVE  (X * L + r) % (L * L) = (X % L) * L + r
<1>1. PICK q \in Int, b \in 0..L - 1 : X = q * L + b /\ b = X % L
    <2>1. X = (X \div L) * L + (X % L) /\ X % L \in 0..L - 1 /\ X \div L \in Int
        OBVIOUS
    <2>2. QED BY <2>1
<1>2. PICK M \in Nat \ {0} : M = L * L
    OBVIOUS
<1>3. PICK y \in Int : y = b * L + r
    OBVIOUS
<1>4. X * L + r = q * M + y
  <2>1. \A u, v, c \in Int : (u * c + v) * c = u * (c * c) + v * c
      OBVIOUS
  <2>2. (q * L + b) * L = q * (L * L) + b * L
      BY <2>1
  <2>3. QED BY <1>1, <1>2, <1>3, <2>2
<1>5. y \in 0..M - 1
  <2>1. b * L <= (L - 1) * L
    <3>1. \A u, v, c \in Nat : u <= v => u * c <= v * c
        OBVIOUS
    <3>2. QED BY <3>1
  <2>2. (L - 1) * L + r <= L * L - 1
      OBVIOUS
  <2>3. QED BY <1>2, <1>3, <2>1, <2>2
<1>6. (q * M + y) % M = y
  <2>1. \A u \in Int, m \in Nat \ {0} : \A z \in 0..m - 1 : (u * m + z) % m = z
      OBVIOUS
  <2>2. QED BY <1>5, <2>1
<1>7. QED BY <1>1, <1>2, <1>3, <1>4, <1>6

\* Adding a multiple of m leaves the remainder modulo m as it is.
LEMMA ModAddMultiple ==
    ASSUME NEW m \in Nat \ {0}, NEW u \in Int, NEW z \in Int
    PROVE  (u * m + z) % m = z % m
<1>1. PICK q \in Int, y \in 0..m - 1 : z = q * m + y /\ y = z % m
  <2>1. z = (z \div m) * m + (z % m) /\ z % m \in 0..m - 1 /\ z \div m \in Int
      OBVIOUS
  <2>2. QED BY <2>1
<1>2. PICK k \in Int : k = u + q
    OBVIOUS
<1>3. u * m + z = k * m + y
  <2>1. \A a, b, c \in Int : (a + b) * c = a * c + b * c
      OBVIOUS
  <2>2. (u + q) * m = u * m + q * m
      BY <2>1
  <2>3. QED BY <1>1, <1>2, <2>2
<1>4. \A a \in Int, n \in Nat \ {0} : \A x \in 0..n - 1 : (a * n + x) % n = x
    OBVIOUS
<1>5. QED BY <1>1, <1>3, <1>4

(* (uint32_t)(hash * FNV_prime_32) on limbs: the low limb of lo * 403 and *)
(* the high limb of hi * 403 + lo * 256 plus the carry out of the low     *)
(* one are the limbs of the product modulo 2^32, and both are limbs.      *)
THEOREM MultiplyIsProduct ==
    ASSUME LimbPositive, NEW h \in Uint32
    PROVE  /\ Multiply(h) \in Uint32
           /\ Value(Multiply(h)) = (Value(h) * (256 * Limb + 403)) % (Limb * Limb)
<1>1. PICK L \in Nat : L = Limb /\ L >= 1
    BY DEF LimbPositive
<1>2. PICK hi \in 0..L - 1, lo \in 0..L - 1 : h = [hi |-> hi, lo |-> lo]
    BY <1>1 DEF Uint32
<1>3. PICK p \in Nat : p = lo * 403
    OBVIOUS
<1>4. PICK c \in Nat, b \in 0..L - 1 : p = c * L + b /\ c = p \div L /\ b = p % L
  <2>1. p = (p \div L) * L + (p % L) /\ p % L \in 0..L - 1 /\ p \div L \in Nat
      BY <1>1
  <2>2. QED BY <2>1
<1>5. PICK X \in Int : X = hi * 403 + lo * 256 + c
    OBVIOUS
<1>6. Multiply(h) = [lo |-> b, hi |-> X % L]
    BY <1>1, <1>2, <1>3, <1>4, <1>5 DEF Multiply
<1>7. Multiply(h) \in Uint32
    BY <1>1, <1>6 DEF Uint32
<1>8. Value(h) * (256 * L + 403) = (hi * 256) * (L * L) + (X * L + b)
  <2>1. \A u, v, w \in Int : (u * w + v) * (256 * w + 403)
                               = (u * 256) * (w * w) + ((u * 403 + v * 256) * w + v * 403)
      OBVIOUS
  <2>2. (hi * L + lo) * (256 * L + 403)
          = (hi * 256) * (L * L) + ((hi * 403 + lo * 256) * L + lo * 403)
      BY <2>1
  <2>3. \A u, v, w \in Int : (u + v) * w = u * w + v * w
      OBVIOUS
  <2>4. (hi * 403 + lo * 256 + c) * L = (hi * 403 + lo * 256) * L + c * L
      BY <2>3
  <2>5. Value(h) = hi * L + lo
      BY <1>1, <1>2 DEF Value
  <2>6. X * L + b = (hi * 403 + lo * 256) * L + lo * 403
    <3>1. X * L = (hi * 403 + lo * 256 + c) * L
        BY <1>5
    <3>2. c * L + b = lo * 403
        BY <1>3, <1>4
    <3>3. QED BY <2>4, <3>1, <3>2
  <2>7. QED BY <2>2, <2>5, <2>6
<1>9. PICK M \in Nat \ {0} : M = L * L
    BY <1>1
<1>10. PICK Y \in Int : Y = X * L + b
    OBVIOUS
<1>11. ((hi * 256) * M + Y) % M = Y % M
  <2>1. PICK K \in Int : K = hi * 256
      OBVIOUS
  <2>2. (K * M + Y) % M = Y % M
      BY <1>9, ModAddMultiple
  <2>3. QED BY <2>1, <2>2
<1>12. Y % M = (X % L) * L + b
  <2>1. (X * L + b) % (L * L) = (X % L) * L + b
      BY <1>1, <1>4, ModOfLimbs
  <2>2. QED BY <1>9, <1>10, <2>1
<1>13. Value(Multiply(h)) = (X % L) * L + b
    BY <1>1, <1>6 DEF Value
<1>14. QED BY <1>1, <1>7, <1>8, <1>9, <1>10, <1>11, <1>12, <1>13

====
