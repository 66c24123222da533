-------------------------- MODULE StakeMath_proofs --------------------------
(***************************************************************************)
(* Facts about the MP arithmetic for every year length, multiplier and     *)
(* amount.  The rounding of ReduceMP is what they turn on: proportional    *)
(* bounds between MPs and balance survive a partial unstake.               *)
(***************************************************************************)
EXTENDS StakeMath, TLAPS

\* Multiplying by a natural number keeps the order.
LEMMA MulMono ==
    ASSUME NEW x \in Int, NEW y \in Int, NEW z \in Nat, x <= y
    PROVE  x * z <= y * z
  <1>1. (y - x) * z >= 0
    <2>1. y - x \in Nat  OBVIOUS
    <2>2. \A p, q \in Nat : p * q >= 0  OBVIOUS
    <2> QED  BY <2>1, <2>2
  <1>2. (y - x) * z = y * z - x * z  OBVIOUS
  <1> QED  BY <1>1, <1>2

\* (1 + k) * (a + b), multiplied out.
LEMMA Distribute ==
    ASSUME NEW a \in Nat, NEW b \in Nat, NEW k \in Nat
    PROVE  (1 + k) * (a + b) = (1 + k) * a + b + k * b
  OBVIOUS

\* What rounding down means: q = p \div b is the largest with q * b <= p.
LEMMA DivBounds ==
    ASSUME NEW p \in Int, NEW b \in Nat \ {0}
    PROVE  /\ p \div b \in Int
           /\ (p \div b) * b <= p
           /\ p < (p \div b) * b + b
  OBVIOUS

\* AccrueMP (MultiplierPointMath.sol:35) yields a natural number.
LEMMA AccrueMPType ==
    ASSUME NEW b \in Nat, NEW dt \in Nat
    PROVE  AccrueMP(b, dt) \in Nat
  <1>1. b * dt \in Nat  OBVIOUS
  <1>2. YEAR \in Nat \ {0}  BY StakeMathAssumption
  <1>3. \A p \in Nat, q \in Nat \ {0} : p \div q \in Nat  OBVIOUS
  <1> QED  BY <1>1, <1>2, <1>3 DEF AccrueMP

\* A full period of MAX_LOCKUP_PERIOD accrues MAX_MULTIPLIER MPs per token.
LEMMA AccrueMPMax ==
    ASSUME NEW a \in Nat
    PROVE  AccrueMP(a, MAX_LOCKUP_PERIOD) = MAX_MULTIPLIER * a
  <1> DEFINE q == MAX_MULTIPLIER * a
             p == a * (MAX_MULTIPLIER * YEAR)
             d == p \div YEAR
  <1>1. YEAR \in Nat \ {0} /\ MAX_MULTIPLIER \in Nat  BY StakeMathAssumption
  <1>2. q \in Nat /\ p \in Nat  BY <1>1
  <1>3. p = q * YEAR  BY <1>1
  <1>4. d \in Int /\ d * YEAR <= p /\ p < d * YEAR + YEAR
    BY <1>1, <1>2, DivBounds
  <1>5. ~(q < d)
    <2> SUFFICES ASSUME q + 1 <= d  PROVE FALSE
      BY <1>2, <1>4
    <2>1. (q + 1) * YEAR <= d * YEAR  BY <1>1, <1>2, <1>4, MulMono
    <2>2. (q + 1) * YEAR = q * YEAR + YEAR  BY <1>1, <1>2
    <2> QED  BY <2>1, <2>2, <1>1, <1>2, <1>3, <1>4
  <1>6. ~(d < q)
    <2> SUFFICES ASSUME d + 1 <= q  PROVE FALSE
      BY <1>2, <1>4
    <2>1. (d + 1) * YEAR <= q * YEAR  BY <1>1, <1>2, <1>4, MulMono
    <2>2. (d + 1) * YEAR = d * YEAR + YEAR  BY <1>1, <1>2, <1>4
    <2> QED  BY <2>1, <2>2, <1>1, <1>2, <1>3, <1>4
  <1>7. d = q  BY <1>2, <1>4, <1>5, <1>6
  <1> QED  BY <1>7 DEF AccrueMP, MAX_LOCKUP_PERIOD

\* ReduceMP rounds up: between m*a/b and less than one above it.
LEMMA ReduceMPBounds ==
    ASSUME NEW b \in Nat \ {0}, NEW m \in Nat, NEW a \in Nat
    PROVE  /\ ReduceMP(b, m, a) \in Int
           /\ m * a <= ReduceMP(b, m, a) * b
           /\ ReduceMP(b, m, a) * b <= m * a + (b - 1)
  <1>1. m * a + (b - 1) \in Int  OBVIOUS
  <1>2. ReduceMP(b, m, a) = (m * a + (b - 1)) \div b  BY DEF ReduceMP
  <1> QED  BY <1>1, <1>2, DivBounds

\* Reducing never takes away more MPs than there are.
LEMMA ReduceMPType ==
    ASSUME NEW b \in Nat \ {0}, NEW m \in Nat, NEW a \in Nat, a <= b
    PROVE  ReduceMP(b, m, a) \in 0 .. m
  <1> DEFINE d == ReduceMP(b, m, a)
  <1>1. d \in Int /\ m * a <= d * b /\ d * b <= m * a + (b - 1)
    BY ReduceMPBounds
  <1> HIDE DEF d
  <1>2. a * m <= b * m  BY MulMono
  <1>3. m * a = a * m /\ m * b = b * m  OBVIOUS
  <1>4. d <= m
    <2> SUFFICES ASSUME m + 1 <= d  PROVE FALSE
      BY <1>1
    <2>1. (m + 1) * b <= d * b  BY <1>1, MulMono
    <2>2. (m + 1) * b = m * b + b  OBVIOUS
    <2>3. m * a \in Int /\ m * b \in Int /\ d * b \in Int  BY <1>1
    <2> QED  BY <2>1, <2>2, <2>3, <1>1, <1>2, <1>3
  <1>5. d >= 0
    <2> SUFFICES ASSUME d <= -1  PROVE FALSE
      BY <1>1
    <2>1. d * b <= (-1) * b  BY <1>1, MulMono
    <2>2. (-1) * b = -b  OBVIOUS
    <2>3. m * a \in Nat /\ d * b \in Int  BY <1>1
    <2> QED  BY <2>1, <2>2, <2>3, <1>1
  <1> QED  BY <1>1, <1>4, <1>5 DEF d

\* A lower bound of k MPs per token survives an unstake.
LEMMA ReduceMPLower ==
    ASSUME NEW b \in Nat \ {0}, NEW m \in Nat, NEW a \in Nat, a <= b,
           NEW k \in Nat, k * b <= m
    PROVE  k * (b - a) <= m - ReduceMP(b, m, a)
  <1> DEFINE d == ReduceMP(b, m, a)
             c == b - a
  <1>1. d \in Int /\ d * b <= m * a + (b - 1)  BY ReduceMPBounds
  <1> HIDE DEF d
  <1>2. c \in Nat  OBVIOUS
  <1> SUFFICES ASSUME m - k * c + 1 <= d  PROVE FALSE
    BY <1>1, <1>2 DEF d
  <1>3. (m - k * c + 1) * b <= d * b  BY <1>1, <1>2, MulMono
  <1>4. (k * b) * c <= m * c  BY <1>2, MulMono
  <1>5. (m - k * c + 1) * b = m * b - (k * b) * c + b  BY <1>2
  <1>6. m * c = m * b - m * a  OBVIOUS
  <1>7. m * b \in Int /\ (k * b) * c \in Int /\ m * a \in Int /\ d * b \in Int /\ m * c \in Int
    BY <1>1, <1>2
  <1> HIDE DEF c
  <1> QED  BY <1>1, <1>3, <1>4, <1>5, <1>6, <1>7

\* An upper bound of k MPs per token survives an unstake.
LEMMA ReduceMPUpper ==
    ASSUME NEW b \in Nat \ {0}, NEW m \in Nat, NEW a \in Nat, a <= b,
           NEW k \in Nat, m <= k * b
    PROVE  m - ReduceMP(b, m, a) <= k * (b - a)
  <1> DEFINE d == ReduceMP(b, m, a)
             c == b - a
  <1>1. d \in Int /\ m * a <= d * b  BY ReduceMPBounds
  <1> HIDE DEF d
  <1>2. c \in Nat  OBVIOUS
  <1> SUFFICES ASSUME k * c + 1 <= m - d  PROVE FALSE
    BY <1>1, <1>2 DEF d
  <1>3. (k * c + 1) * b <= (m - d) * b  BY <1>1, <1>2, MulMono
  <1>4. m * c <= (k * b) * c  BY <1>2, MulMono
  <1>5. (k * c + 1) * b = (k * b) * c + b  BY <1>2
  <1>6. m * c = m * b - m * a  OBVIOUS
  <1>7. (m - d) * b = m * b - d * b  BY <1>1
  <1>8. m * b \in Int /\ (k * b) * c \in Int /\ m * a \in Int /\ d * b \in Int /\ m * c \in Int
    BY <1>1, <1>2
  <1> HIDE DEF c
  <1> QED  BY <1>1, <1>3, <1>4, <1>5, <1>6, <1>7, <1>8

\* The order between accrued and maximal MPs survives an unstake.
LEMMA ReduceMPMono ==
    ASSUME NEW b \in Nat \ {0}, NEW m \in Nat, NEW n \in Nat, NEW a \in Nat,
           a <= b, m <= n
    PROVE  m - ReduceMP(b, m, a) <= n - ReduceMP(b, n, a)
  <1> DEFINE d == ReduceMP(b, m, a)
             e == ReduceMP(b, n, a)
             c == b - a
  <1>1. d \in Int /\ m * a <= d * b  BY ReduceMPBounds
  <1>2. e \in Int /\ e * b <= n * a + (b - 1)  BY ReduceMPBounds
  <1> HIDE DEF d, e
  <1>3. c \in Nat  OBVIOUS
  <1> SUFFICES ASSUME n - e + 1 <= m - d  PROVE FALSE
    BY <1>1, <1>2 DEF d, e
  <1>4. (n - e + 1) * b <= (m - d) * b  BY <1>1, <1>2, MulMono
  <1>5. (n - e + 1) * b = n * b - e * b + b  BY <1>2
  <1>6. (m - d) * b = m * b - d * b  BY <1>1
  <1>7. m * c <= n * c  BY <1>3, MulMono
  <1>8. m * c = m * b - m * a /\ n * c = n * b - n * a  OBVIOUS
  <1>9. /\ m * b \in Int /\ n * b \in Int /\ m * a \in Int /\ n * a \in Int
        /\ d * b \in Int /\ e * b \in Int /\ m * c \in Int /\ n * c \in Int
    BY <1>1, <1>2, <1>3
  <1> HIDE DEF c
  <1> QED  BY <1>1, <1>2, <1>4, <1>5, <1>6, <1>7, <1>8, <1>9
=============================================================================
