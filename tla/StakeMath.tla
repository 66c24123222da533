----------------------------- MODULE StakeMath -----------------------------
(***************************************************************************)
(* The arithmetic of multiplier points (MPs): MultiplierPointMath.sol and  *)
(* StakeMath.sol.  Solidity's mulDiv rounds down, and rounds up where the  *)
(* code says Math.Rounding.Up; both roundings are kept, because the MP     *)
(* bounds of a vault depend on them.                                       *)
(***************************************************************************)
EXTENDS Integers

CONSTANTS
    YEAR,               \* length of a year, in units of time (365 days)
    MAX_MULTIPLIER,     \* MPs a token can accrue, per token (4)
    MIN_LOCKUP_PERIOD   \* shortest lock (90 days)

ASSUME StakeMathAssumption ==
    /\ YEAR \in Nat \ {0}
    /\ MAX_MULTIPLIER \in Nat \ {0}
    /\ MIN_LOCKUP_PERIOD \in Nat \ {0}

MAX_LOCKUP_PERIOD == MAX_MULTIPLIER * YEAR

\* A balance has at most this many MPs per token: initial, accrued, bonus.
MP_MPY_ABSOLUTE == 1 + 2 * MAX_MULTIPLIER

Least(a, b) == IF a < b THEN a ELSE b
Greatest(a, b) == IF a < b THEN b ELSE a

\* MPs a balance accrues in a period; also the bonus for locking that long.
AccrueMP(balance, dt) == (balance * dt) \div YEAR

\* Fault: one MP per token is taken away.
ReduceMPByAmount(balance, mp, amount) == amount

\* MPs taken away with part of a balance, rounded up.
ReduceMP(balance, mp, amount) == (mp * amount + (balance - 1)) \div balance

MaxAbsoluteTotalMP(balance) == balance * MP_MPY_ABSOLUTE

\* The periods for which a vault may end up locked.
ValidLock(dtLock) ==
    dtLock = 0 \/ (MIN_LOCKUP_PERIOD <= dtLock /\ dtLock <= MAX_LOCKUP_PERIOD)

\* MPs and maximal MPs gained when amount is added to balance, the vault is
\* then locked for dtLock in all, and its lock was extended by seconds.
StakeDeltaMP(balance, amount, dtLock, seconds) ==
    amount + AccrueMP(amount, dtLock) + AccrueMP(balance, seconds)

StakeDeltaMaxMP(balance, amount, dtLock, seconds) ==
    StakeDeltaMP(balance, amount, dtLock, seconds)
      + AccrueMP(amount, MAX_LOCKUP_PERIOD)

\* MPs that became due in dt, capped by the maximum.
CalculateAccrual(balance, mp, max, dt) ==
    IF mp < max THEN Least(AccrueMP(balance, dt), max - mp) ELSE 0
=============================================================================
