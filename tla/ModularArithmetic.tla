------------------------- MODULE ModularArithmetic --------------------------
(***************************************************************************)
(* Facts about sums of integers that wrap at a modulus, for the uint16_t   *)
(* positions of the scanner, the frequencies of a sweep and the clock of   *)
(* the DHCP server.                                                        *)
(***************************************************************************)
EXTENDS Integers, TLAPS

\* r is what is left of a after some turns of M.
Remainder(M, a, r) == r \in 0..(M - 1) /\ \E q \in Int : a = (M * q) + r

LEMMA DivMod ==
  ASSUME NEW M \in Nat \ {0}, NEW a \in Int
  PROVE  /\ a = (M * (a \div M)) + (a % M)
         /\ a \div M \in Int /\ a % M \in 0..(M - 1)
BY SMT

LEMMA ModIsRemainder ==
  ASSUME NEW M \in Nat \ {0}, NEW a \in Int
  PROVE  Remainder(M, a, a % M)
<1>1. a = (M * (a \div M)) + (a % M) /\ a % M \in 0..(M - 1) /\ a \div M \in Int
  BY DivMod
<1>2. QED
  BY <1>1 DEF Remainder

LEMMA ModInRange ==
  ASSUME NEW M \in Nat \ {0}, NEW a \in Int
  PROVE  a % M \in 0..(M - 1)
BY SMT

LEMMA Multiple ==
  ASSUME NEW M \in Nat \ {0}, NEW d \in Int, d >= 1
  PROVE  M * d >= M
BY SMT

\* A number has one remainder.
LEMMA UniqueRemainder ==
  ASSUME NEW M \in Nat \ {0}, NEW a \in Int, NEW r, NEW s,
         Remainder(M, a, r), Remainder(M, a, s)
  PROVE  r = s
<1>1. PICK p \in Int : a = (M * p) + r
  BY DEF Remainder
<1>2. PICK q \in Int : a = (M * q) + s
  BY DEF Remainder
<1>3. r \in 0..(M - 1) /\ s \in 0..(M - 1)
  BY DEF Remainder
<1>4. M * (p - q) = s - r /\ M * (q - p) = r - s
  BY <1>1, <1>2, <1>3, SMT
<1>5. ~(p - q >= 1) /\ ~(q - p >= 1)
  BY <1>3, <1>4, Multiple
<1>6. p = q
  BY <1>5
<1>7. QED
  BY <1>1, <1>2, <1>3, <1>6, SMT

\* Numbers in the range are their own remainders.
LEMMA SmallMod ==
  ASSUME NEW M \in Nat \ {0}, NEW a \in 0..(M - 1)
  PROVE  a % M = a
<1>1. a = (M * 0) + a
  OBVIOUS
<1>2. Remainder(M, a, a)
  BY <1>1 DEF Remainder
<1>3. a \in Int
  OBVIOUS
<1>4. QED
  BY <1>2, <1>3, ModIsRemainder, UniqueRemainder, Zenon

LEMMA RemainderPlus ==
  ASSUME NEW M \in Nat \ {0}, NEW a \in Int, NEW d \in Int, NEW r, NEW x,
         Remainder(M, a, r), Remainder(M, r + d, x)
  PROVE  Remainder(M, a + d, x)
<1>1. PICK p \in Int : a = (M * p) + r
  BY DEF Remainder
<1>2. PICK q \in Int : r + d = (M * q) + x
  BY DEF Remainder
<1>3. r \in Int /\ x \in Int
  BY DEF Remainder
<1>4. M * (p + q) = (M * p) + (M * q)
  OBVIOUS
<1>5. a + d = (M * (p + q)) + x /\ p + q \in Int
  BY <1>1, <1>2, <1>3, <1>4
<1>6. QED
  BY <1>5 DEF Remainder

\* Adding to a number that has wrapped is adding to the number itself.
LEMMA ModPlus ==
  ASSUME NEW M \in Nat \ {0}, NEW a \in Int, NEW d \in Int
  PROVE  ((a % M) + d) % M = (a + d) % M
<1>1. a % M \in Int
  BY ModInRange
<1>2. (a % M) + d \in Int /\ a + d \in Int
  BY <1>1
<1>3. Remainder(M, a, a % M) /\ Remainder(M, (a % M) + d, ((a % M) + d) % M)
  BY <1>2, ModIsRemainder, Zenon
<1>4. Remainder(M, a + d, ((a % M) + d) % M)
  BY <1>3, RemainderPlus, Zenon
<1>5. QED
  BY <1>2, <1>4, ModIsRemainder, UniqueRemainder, Zenon
=============================================================================
