--------------------------- MODULE Staking_proofs ---------------------------
(***************************************************************************)
(* Safety of staking for any number of vaults and accounts, any amounts,   *)
(* lock periods and block times.  The argument is one inductive invariant, *)
(* IInv: the types of the variables that hold stakes, MPs and deposits,    *)
(* the three invariants that are the point, and who owns a vault.  Rewards *)
(* and the totals appear in no proof: they never guard what a vault holds. *)
(***************************************************************************)
EXTENDS Staking, StakeMath_proofs

\* Types of the variables the invariants speak about.
VaultTypes ==
    /\ now \in Nat
    /\ emergencyModeEnabled \in BOOLEAN
    /\ lastRewardTime \in Nat /\ rewardStartTime \in Nat /\ rewardEndTime \in Nat
    /\ vaultOwners \in [Vaults -> Accounts \cup {NoAccount}]
    /\ stakedBalance \in [Vaults -> Nat] /\ mpAccrued \in [Vaults -> Nat]
    /\ maxMP \in [Vaults -> Nat] /\ lastMPUpdateTime \in [Vaults -> Nat]
    /\ owner \in [Vaults -> Accounts \cup {NoAccount}]
    /\ lockUntil \in [Vaults -> Nat] /\ depositedBalance \in [Vaults -> Nat]
    /\ hasLeft \in [Vaults -> BOOLEAN]
    /\ balance \in [Vaults -> Nat]

\* A vault is registered under its owner only, and an address at which no
\* vault has been created yet has no deposit.
VaultOwnership ==
    \A v \in Vaults : /\ Registered(v) => vaultOwners[v] = owner[v]
                      /\ owner[v] = NoAccount => depositedBalance[v] = 0

IInv ==
    /\ VaultTypes
    /\ MPBounds
    /\ VaultBacked
    /\ ClocksOrdered
    /\ VaultOwnership

\* The initial state satisfies the invariant.
LEMMA InitIInv == Init => IInv
  <1> SUFFICES ASSUME Init PROVE IInv
    OBVIOUS
  <1> USE StakeMathAssumption, StakingAssumption DEF Init, Zero
  <1>1. VaultTypes  BY DEF VaultTypes
  <1>2. MPBounds
    <2>1. MP_MPY_ABSOLUTE \in Nat /\ 1 + MAX_MULTIPLIER \in Nat
      BY DEF MP_MPY_ABSOLUTE
    <2>2. MaxAbsoluteTotalMP(0) = 0  BY <2>1 DEF MaxAbsoluteTotalMP
    <2>3. (1 + MAX_MULTIPLIER) * 0 = 0  BY <2>1
    <2> QED  BY <2>2, <2>3 DEF MPBounds
  <1>3. VaultBacked  BY DEF VaultBacked
  <1>4. ClocksOrdered  BY DEF ClocksOrdered, Least
  <1>5. VaultOwnership  BY DEF VaultOwnership, Registered
  <1> QED  BY <1>1, <1>2, <1>3, <1>4, <1>5 DEF IInv

\* The MPs due to a vault never take it above its maximum.
LEMMA PendingMP ==
    ASSUME IInv, NEW v \in Vaults
    PROVE  /\ VaultPendingMP(v) \in Nat
           /\ mpAccrued[v] + VaultPendingMP(v) <= maxMP[v]
  <1>1. /\ stakedBalance[v] \in Nat /\ mpAccrued[v] \in Nat /\ maxMP[v] \in Nat
        /\ lastMPUpdateTime[v] \in Nat /\ now \in Nat
        /\ mpAccrued[v] <= maxMP[v] /\ lastMPUpdateTime[v] <= now
    BY DEF IInv, VaultTypes, MPBounds, ClocksOrdered
  <1>2. now - lastMPUpdateTime[v] \in Nat  BY <1>1
  <1>3. AccrueMP(stakedBalance[v], now - lastMPUpdateTime[v]) \in Nat
    BY <1>1, <1>2, AccrueMPType
  <1> QED  BY <1>1, <1>3 DEF VaultPendingMP, CalculateAccrual, Least

\* Settling a set of vaults (updateVault, updateAccount, redeemRewards).
LEMMA AccrueMPsPreserves ==
    ASSUME IInv, NEW S, S \subseteq Vaults, AccrueMPs(S),
           lastRewardTime' = (IF NewRewardIndex > lastRewardIndex
                              THEN Least(now, rewardEndTime) ELSE lastRewardTime),
           UNCHANGED <<now, adminVars, periodVars, vaultOwners, stakedBalance,
                       maxMP, vaultVars, balance>>
    PROVE  IInv'
  <1> USE DEF adminVars, periodVars, vaultVars
  <1> DEFINE due(v) == IF v \in S THEN VaultPendingMP(v) ELSE 0
  <1>1. \A v \in Vaults : due(v) \in Nat /\ mpAccrued[v] + due(v) <= maxMP[v]
    <2>1. \A v \in Vaults : mpAccrued[v] <= maxMP[v] /\ mpAccrued[v] \in Nat /\ maxMP[v] \in Nat
      BY DEF IInv, VaultTypes, MPBounds
    <2> QED  BY <2>1, PendingMP
  <1>2. /\ mpAccrued' = [v \in Vaults |-> mpAccrued[v] + due(v)]
        /\ lastMPUpdateTime' = [v \in Vaults |-> IF due(v) > 0 THEN now
                                                 ELSE lastMPUpdateTime[v]]
    BY DEF AccrueMPs
  <1> HIDE DEF due
  <1>3. VaultTypes'
    BY <1>1, <1>2 DEF IInv, VaultTypes, Least
  <1>4. MPBounds'
    BY <1>1, <1>2 DEF IInv, VaultTypes, MPBounds, MaxAbsoluteTotalMP
  <1>5. VaultBacked'
    BY DEF IInv, VaultBacked
  <1>6. ClocksOrdered'
    BY <1>1, <1>2 DEF IInv, VaultTypes, ClocksOrdered, Least
  <1>7. VaultOwnership'
    BY DEF IInv, VaultOwnership, Registered
  <1> QED  BY <1>3, <1>4, <1>5, <1>6, <1>7 DEF IInv

\* Staking.
LEMMA StakePreserves ==
    ASSUME IInv, NEW v \in Vaults, NEW amount \in Amounts,
           NEW seconds \in LockPeriods, Stake(v, amount, seconds)
    PROVE  IInv'
  <1> DEFINE lockEnd == Greatest(lockUntil[v], now) + seconds
             dtLock  == lockEnd - now
             mp  == StakeDeltaMP(stakedBalance[v], amount, dtLock, seconds)
             max == StakeDeltaMaxMP(stakedBalance[v], amount, dtLock, seconds)
             due == VaultPendingMP(v)
  <1>1. amount \in Nat /\ amount > 0 /\ seconds \in Nat
    BY StakingAssumption DEF Stake
  <1>2. lockEnd \in Nat /\ dtLock \in Nat
    BY <1>1 DEF IInv, VaultTypes, Greatest
  <1>3. stakedBalance[v] \in Nat /\ mpAccrued[v] \in Nat /\ maxMP[v] \in Nat
    BY DEF IInv, VaultTypes
  <1>4. due \in Nat /\ mpAccrued[v] + due <= maxMP[v]
    BY PendingMP
  <1>5. mp \in Nat /\ amount <= mp
    <2>1. AccrueMP(amount, dtLock) \in Nat  BY <1>1, <1>2, AccrueMPType
    <2>2. AccrueMP(stakedBalance[v], seconds) \in Nat
      BY <1>1, <1>3, AccrueMPType
    <2> QED  BY <1>1, <2>1, <2>2 DEF StakeDeltaMP
  <1>6. max = mp + MAX_MULTIPLIER * amount
    BY <1>1, AccrueMPMax DEF StakeDeltaMaxMP
  <1>7. MAX_MULTIPLIER \in Nat /\ MAX_MULTIPLIER * amount \in Nat
    BY <1>1, StakeMathAssumption
  <1>8. /\ Active /\ Registered(v)
        /\ max + maxMP[v] <= MaxAbsoluteTotalMP(stakedBalance[v] + amount)
        /\ lastRewardTime' = (IF NewRewardIndex > lastRewardIndex
                              THEN Least(now, rewardEndTime) ELSE lastRewardTime)
        /\ stakedBalance' = [stakedBalance EXCEPT ![v] = @ + amount]
        /\ mpAccrued' = [mpAccrued EXCEPT ![v] = @ + due + mp]
        /\ maxMP' = [maxMP EXCEPT ![v] = @ + max]
        /\ lastMPUpdateTime' = [lastMPUpdateTime EXCEPT ![v] = now]
        /\ depositedBalance' = [depositedBalance EXCEPT ![v] = @ + amount]
        /\ lockUntil' = [lockUntil EXCEPT ![v] = lockEnd]
        /\ balance' = [balance EXCEPT ![v] = @ + amount]
        /\ UNCHANGED <<now, adminVars, periodVars, vaultOwners, owner, hasLeft>>
    BY DEF Stake, UpdateRewardIndex, ActiveVault
  <1> HIDE DEF lockEnd, dtLock, mp, max, due
  <1> USE DEF adminVars, periodVars
  <1>9. VaultTypes'
    BY <1>1, <1>2, <1>4, <1>5, <1>6, <1>7, <1>8 DEF IInv, VaultTypes, Least
  <1>10. MPBounds'
    <2> SUFFICES ASSUME NEW u \in Vaults
                 PROVE  /\ stakedBalance'[u] <= mpAccrued'[u]
                        /\ mpAccrued'[u] <= maxMP'[u]
                        /\ (1 + MAX_MULTIPLIER) * stakedBalance'[u] <= maxMP'[u]
                        /\ maxMP'[u] <= MaxAbsoluteTotalMP(stakedBalance'[u])
      BY DEF MPBounds, MaxAbsoluteTotalMP
    <2>1. CASE u # v
      BY <2>1, <1>8 DEF IInv, VaultTypes, MPBounds
    <2>2. CASE u = v
      <3>1. /\ stakedBalance'[u] = stakedBalance[v] + amount
            /\ mpAccrued'[u] = mpAccrued[v] + due + mp
            /\ maxMP'[u] = maxMP[v] + max
        BY <2>2, <1>8 DEF IInv, VaultTypes
      <3>2. /\ stakedBalance[v] <= mpAccrued[v]
            /\ (1 + MAX_MULTIPLIER) * stakedBalance[v] <= maxMP[v]
        BY DEF IInv, MPBounds
      <3>3. (1 + MAX_MULTIPLIER) * (stakedBalance[v] + amount)
              = (1 + MAX_MULTIPLIER) * stakedBalance[v] + amount + MAX_MULTIPLIER * amount
        BY ZenonT(60), <1>1, <1>3, <1>7, Distribute
      <3>4. (1 + MAX_MULTIPLIER) * stakedBalance[v] \in Nat
        BY <1>3, <1>7
      <3>5. maxMP'[u] <= MaxAbsoluteTotalMP(stakedBalance'[u])
        BY <3>1, <1>3, <1>5, <1>6, <1>7, <1>8
      <3>6. (1 + MAX_MULTIPLIER) * stakedBalance'[u] <= maxMP'[u]
        BY <3>1, <3>2, <3>3, <3>4, <1>1, <1>3, <1>5, <1>6, <1>7
      <3> QED  BY <3>1, <3>2, <3>5, <3>6, <1>1, <1>3, <1>4, <1>5, <1>6, <1>7
    <2> QED  BY <2>1, <2>2
  <1>11. VaultBacked'
    BY <1>1, <1>8 DEF IInv, VaultTypes, VaultBacked, Active
  <1>12. ClocksOrdered'
    BY <1>8 DEF IInv, VaultTypes, ClocksOrdered, Least
  <1>13. VaultOwnership'
    BY <1>8 DEF IInv, VaultTypes, VaultOwnership, Registered
  <1> QED  BY <1>9, <1>10, <1>11, <1>12, <1>13 DEF IInv

\* Locking.
LEMMA LockPreserves ==
    ASSUME IInv, NEW v \in Vaults, NEW seconds \in LockPeriods, Lock(v, seconds)
    PROVE  IInv'
  <1> DEFINE lockEnd == Greatest(lockUntil[v], now) + seconds
             bonus == AccrueMP(stakedBalance[v], seconds)
             due == VaultPendingMP(v)
  <1>1. seconds \in Nat
    BY StakingAssumption
  <1>2. lockEnd \in Nat
    BY <1>1 DEF IInv, VaultTypes, Greatest
  <1>3. stakedBalance[v] \in Nat /\ mpAccrued[v] \in Nat /\ maxMP[v] \in Nat
    BY DEF IInv, VaultTypes
  <1>4. due \in Nat /\ mpAccrued[v] + due <= maxMP[v]
    BY PendingMP
  <1>5. bonus \in Nat
    BY <1>1, <1>3, AccrueMPType
  <1>6. /\ Registered(v)
        /\ bonus + maxMP[v] <= MaxAbsoluteTotalMP(stakedBalance[v])
        /\ lastRewardTime' = (IF NewRewardIndex > lastRewardIndex
                              THEN Least(now, rewardEndTime) ELSE lastRewardTime)
        /\ mpAccrued' = [mpAccrued EXCEPT ![v] = @ + due + bonus]
        /\ maxMP' = [maxMP EXCEPT ![v] = @ + bonus]
        /\ lastMPUpdateTime' = [lastMPUpdateTime EXCEPT
                                   ![v] = IF due > 0 THEN now ELSE @]
        /\ lockUntil' = [lockUntil EXCEPT ![v] = lockEnd]
        /\ UNCHANGED <<now, adminVars, periodVars, vaultOwners, stakedBalance,
                       owner, depositedBalance, hasLeft, balance>>
    BY DEF Lock, UpdateRewardIndex, ActiveVault, tokenVars
  <1> HIDE DEF lockEnd, bonus, due
  <1> USE DEF adminVars, periodVars
  <1>7. VaultTypes'
    BY <1>2, <1>4, <1>5, <1>6 DEF IInv, VaultTypes, Least
  <1>8. MPBounds'
    <2> SUFFICES ASSUME NEW u \in Vaults
                 PROVE  /\ stakedBalance[u] <= mpAccrued'[u]
                        /\ mpAccrued'[u] <= maxMP'[u]
                        /\ (1 + MAX_MULTIPLIER) * stakedBalance[u] <= maxMP'[u]
                        /\ maxMP'[u] <= MaxAbsoluteTotalMP(stakedBalance[u])
      BY <1>6 DEF MPBounds, MaxAbsoluteTotalMP
    <2>1. CASE u # v
      BY <2>1, <1>6 DEF IInv, VaultTypes, MPBounds
    <2>2. CASE u = v
      <3>1. /\ mpAccrued'[u] = mpAccrued[v] + due + bonus
            /\ maxMP'[u] = maxMP[v] + bonus
        BY <2>2, <1>6 DEF IInv, VaultTypes
      <3>2. /\ stakedBalance[v] <= mpAccrued[v]
            /\ (1 + MAX_MULTIPLIER) * stakedBalance[v] <= maxMP[v]
            /\ (1 + MAX_MULTIPLIER) * stakedBalance[v] \in Int
        BY SMTT(60), <1>3, StakeMathAssumption DEF IInv, MPBounds
      <3> QED  BY <2>2, <3>1, <3>2, <1>3, <1>4, <1>5, <1>6
    <2> QED  BY <2>1, <2>2
  <1>9. VaultBacked'
    BY <1>6 DEF IInv, VaultBacked
  <1>10. ClocksOrdered'
    BY <1>6 DEF IInv, VaultTypes, ClocksOrdered, Least
  <1>11. VaultOwnership'
    BY <1>6 DEF IInv, VaultOwnership, Registered
  <1> QED  BY <1>7, <1>8, <1>9, <1>10, <1>11 DEF IInv

\* Unstaking, with the MPs of the rest rounded by ReduceMP.
LEMMA UnstakePreserves ==
    ASSUME IInv, NEW v \in Vaults, NEW amount \in Amounts, Unstake(v, amount)
    PROVE  IInv'
  <1> DEFINE b   == stakedBalance[v]
             due == VaultPendingMP(v)
             m   == mpAccrued[v] + due
             n   == maxMP[v]
             mp  == ReduceMP(b, m, amount)
             max == ReduceMP(b, n, amount)
  <1>1. /\ amount \in Nat /\ amount > 0 /\ amount <= b /\ Registered(v)
        /\ amount <= depositedBalance[v]
        /\ lastRewardTime' = (IF NewRewardIndex > lastRewardIndex
                              THEN Least(now, rewardEndTime) ELSE lastRewardTime)
        /\ stakedBalance' = [stakedBalance EXCEPT ![v] = @ - amount]
        /\ mpAccrued' = [mpAccrued EXCEPT ![v] = @ + due - mp]
        /\ maxMP' = [maxMP EXCEPT ![v] = @ - max]
        /\ lastMPUpdateTime' = [lastMPUpdateTime EXCEPT
                                   ![v] = IF due > 0 THEN now ELSE @]
        /\ depositedBalance' = [depositedBalance EXCEPT ![v] = @ - amount]
        /\ balance' = [balance EXCEPT ![v] = @ - amount]
        /\ UNCHANGED <<now, adminVars, periodVars, vaultOwners, owner,
                       lockUntil, hasLeft>>
    BY StakingAssumption DEF Unstake, UpdateRewardIndex, ActiveVault
  <1>2. /\ b \in Nat \ {0} /\ n \in Nat /\ mpAccrued[v] \in Nat
        /\ depositedBalance[v] \in Nat /\ balance[v] \in Nat
        /\ b <= mpAccrued[v] /\ (1 + MAX_MULTIPLIER) * b <= n
        /\ n <= MaxAbsoluteTotalMP(b)
        /\ depositedBalance[v] <= balance[v]
    BY <1>1 DEF IInv, VaultTypes, MPBounds, VaultBacked
  <1>3. due \in Nat /\ m <= n
    BY PendingMP
  <1>4. m \in Nat /\ 1 * b <= m
    BY <1>2, <1>3
  <1>5. 1 + MAX_MULTIPLIER \in Nat /\ MP_MPY_ABSOLUTE \in Nat
    BY StakeMathAssumption DEF MP_MPY_ABSOLUTE
  <1>6. n <= MP_MPY_ABSOLUTE * b
    BY <1>2, <1>5 DEF MaxAbsoluteTotalMP
  <1>7. mp \in 0 .. m /\ max \in 0 .. n
    BY <1>1, <1>2, <1>4, ReduceMPType
  <1>8. 1 * (b - amount) <= m - mp
    BY <1>1, <1>2, <1>4, ReduceMPLower
  <1>9. (1 + MAX_MULTIPLIER) * (b - amount) <= n - max
    BY <1>1, <1>2, <1>5, ReduceMPLower
  <1>10. n - max <= MP_MPY_ABSOLUTE * (b - amount)
    BY <1>1, <1>2, <1>5, <1>6, ReduceMPUpper
  <1>11. m - mp <= n - max
    BY <1>1, <1>2, <1>3, <1>4, ReduceMPMono
  <1>12. MaxAbsoluteTotalMP(b - amount) = MP_MPY_ABSOLUTE * (b - amount)
    BY <1>1, <1>2, <1>5 DEF MaxAbsoluteTotalMP
  <1>13. /\ mpAccrued'[v] = m - mp /\ maxMP'[v] = n - max
         /\ stakedBalance'[v] = b - amount
    BY <1>1, <1>2, <1>3, <1>7 DEF IInv, VaultTypes
  <1> HIDE DEF b, due, m, n, mp, max
  <1> USE DEF adminVars, periodVars
  <1>14. VaultTypes'
    <2>1. m - mp \in Nat /\ n - max \in Nat /\ b - amount \in Nat
      BY <1>1, <1>2, <1>4, <1>7
    <2>2. /\ stakedBalance' = [stakedBalance EXCEPT ![v] = b - amount]
          /\ mpAccrued' = [mpAccrued EXCEPT ![v] = m - mp]
          /\ maxMP' = [maxMP EXCEPT ![v] = n - max]
      BY <1>1, <1>13 DEF IInv, VaultTypes
    <2>3. depositedBalance[v] - amount \in Nat /\ balance[v] - amount \in Nat
      BY <1>1, <1>2
    <2> QED  BY <1>1, <2>1, <2>2, <2>3 DEF IInv, VaultTypes, Least
  <1>15. MPBounds'
    <2> SUFFICES ASSUME NEW u \in Vaults
                 PROVE  /\ stakedBalance'[u] <= mpAccrued'[u]
                        /\ mpAccrued'[u] <= maxMP'[u]
                        /\ (1 + MAX_MULTIPLIER) * stakedBalance'[u] <= maxMP'[u]
                        /\ maxMP'[u] <= MaxAbsoluteTotalMP(stakedBalance'[u])
      BY DEF MPBounds, MaxAbsoluteTotalMP
    <2>1. CASE u # v
      BY <2>1, <1>1 DEF IInv, VaultTypes, MPBounds
    <2>2. CASE u = v
      <3>1. 1 * (b - amount) = b - amount
        BY <1>1, <1>2
      <3> QED  BY <2>2, <3>1, <1>8, <1>9, <1>10, <1>11, <1>12, <1>13
    <2> QED  BY <2>1, <2>2
  <1>16. VaultBacked'
    BY <1>1, <1>2 DEF IInv, VaultTypes, VaultBacked, b
  <1>17. ClocksOrdered'
    BY <1>1 DEF IInv, VaultTypes, ClocksOrdered, Least
  <1>18. VaultOwnership'
    BY <1>1, <1>2 DEF IInv, VaultTypes, VaultOwnership, Registered
  <1> QED  BY <1>14, <1>15, <1>16, <1>17, <1>18 DEF IInv

\* An empty vault is within the MP bounds.
LEMMA EmptyBounds == (1 + MAX_MULTIPLIER) * 0 = 0 /\ MaxAbsoluteTotalMP(0) = 0
  <1>1. MP_MPY_ABSOLUTE \in Nat /\ 1 + MAX_MULTIPLIER \in Nat
    BY StakeMathAssumption DEF MP_MPY_ABSOLUTE
  <1> QED  BY <1>1 DEF MaxAbsoluteTotalMP

\* Leaving, whether or not the manager's part of it reverts.
LEMMA LeavePreserves ==
    ASSUME IInv, NEW v \in Vaults, Leave(v)
    PROVE  IInv'
  <1> USE DEF adminVars, indexVars, periodVars, totalVars, mpVars, claimVars, tokenVars
  <1>1. /\ hasLeft' = [hasLeft EXCEPT ![v] = TRUE]
        /\ owner[v] # NoAccount
        /\ UNCHANGED <<now, emergencyModeEnabled, lastRewardTime,
                       rewardStartTime, rewardEndTime, owner, lockUntil>>
    BY DEF Leave
  <1>2. \/ /\ DeleteVaultData(v)
           /\ vaultOwners' = [vaultOwners EXCEPT ![v] = NoAccount]
        \/ UNCHANGED <<stakedBalance, mpAccrued, maxMP, lastMPUpdateTime, vaultOwners>>
    BY DEF Leave, ManagerLeave
  <1>3. \/ /\ depositedBalance' = [depositedBalance EXCEPT ![v] = 0]
           /\ balance' = [balance EXCEPT ![v] = 0]
        \/ UNCHANGED <<depositedBalance, balance>>
    BY DEF Leave, ReleaseFunds
  <1>4. VaultTypes'
    BY <1>1, <1>2, <1>3 DEF IInv, VaultTypes, DeleteVaultData
  <1>5. MPBounds'
    <2>1. CASE UNCHANGED <<stakedBalance, mpAccrued, maxMP>>
      BY <2>1 DEF IInv, MPBounds, MaxAbsoluteTotalMP
    <2>2. CASE DeleteVaultData(v)
      <3> SUFFICES ASSUME NEW u \in Vaults
                   PROVE  /\ stakedBalance'[u] <= mpAccrued'[u]
                          /\ mpAccrued'[u] <= maxMP'[u]
                          /\ (1 + MAX_MULTIPLIER) * stakedBalance'[u] <= maxMP'[u]
                          /\ maxMP'[u] <= MaxAbsoluteTotalMP(stakedBalance'[u])
        BY DEF MPBounds, MaxAbsoluteTotalMP
      <3>1. CASE u # v
        BY <3>1, <2>2 DEF IInv, VaultTypes, MPBounds, DeleteVaultData
      <3>2. CASE u = v
        <4>1. stakedBalance'[u] = 0 /\ mpAccrued'[u] = 0 /\ maxMP'[u] = 0
          BY <3>2, <2>2 DEF IInv, VaultTypes, DeleteVaultData
        <4> QED  BY <4>1, EmptyBounds
      <3> QED  BY <3>1, <3>2
    <2> QED  BY <1>2, <2>1, <2>2
  <1>6. VaultBacked'
    BY <1>1, <1>2, <1>3 DEF IInv, VaultTypes, VaultBacked, DeleteVaultData
  <1>7. ClocksOrdered'
    BY <1>1, <1>2 DEF IInv, VaultTypes, ClocksOrdered, DeleteVaultData, Least
  <1>8. VaultOwnership'
    BY <1>1, <1>2, <1>3 DEF IInv, VaultTypes, VaultOwnership, Registered
  <1> QED  BY <1>4, <1>5, <1>6, <1>7, <1>8 DEF IInv

\* What migrateToVault and replaceVault have in common: the data of v moves
\* to w, a vault without a deposit.
LEMMA MovePreserves ==
    ASSUME IInv, NEW v \in Vaults, NEW w \in Vaults, v # w, MoveVault(v, w),
           ~hasLeft[v], ~emergencyModeEnabled, depositedBalance[w] = 0,
           UNCHANGED <<now, emergencyModeEnabled, rewardStartTime, rewardEndTime,
                       hasLeft>>
    PROVE  /\ lastRewardTime' \in Nat
           /\ stakedBalance' \in [Vaults -> Nat] /\ mpAccrued' \in [Vaults -> Nat]
           /\ maxMP' \in [Vaults -> Nat] /\ lastMPUpdateTime' \in [Vaults -> Nat]
           /\ lockUntil' \in [Vaults -> Nat] /\ depositedBalance' \in [Vaults -> Nat]
           /\ balance' \in [Vaults -> Nat]
           /\ depositedBalance' = [depositedBalance EXCEPT
                                      ![w] = depositedBalance[v], ![v] = 0]
           /\ MPBounds' /\ VaultBacked' /\ ClocksOrdered'
  <1> DEFINE due == VaultPendingMP(v)
  <1>1. due \in Nat /\ mpAccrued[v] + due <= maxMP[v]
    BY PendingMP
  <1>2. /\ stakedBalance' = [stakedBalance EXCEPT ![w] = stakedBalance[v], ![v] = 0]
        /\ mpAccrued' = [mpAccrued EXCEPT ![w] = mpAccrued[v] + due, ![v] = 0]
        /\ maxMP' = [maxMP EXCEPT ![w] = maxMP[v], ![v] = 0]
        /\ lastMPUpdateTime' = [lastMPUpdateTime EXCEPT
               ![w] = IF due > 0 THEN now ELSE lastMPUpdateTime[v], ![v] = 0]
        /\ lockUntil' = [lockUntil EXCEPT ![w] = lockUntil[v], ![v] = 0]
        /\ depositedBalance' = [depositedBalance EXCEPT
                                   ![w] = depositedBalance[v], ![v] = 0]
        /\ balance' = [balance EXCEPT ![w] = balance[w] + balance[v], ![v] = 0]
        /\ lastRewardTime' = (IF NewRewardIndex > lastRewardIndex
                              THEN Least(now, rewardEndTime) ELSE lastRewardTime)
    BY DEF MoveVault, UpdateRewardIndex
  <1> HIDE DEF due
  <1>3. /\ lastRewardTime' \in Nat
        /\ stakedBalance' \in [Vaults -> Nat] /\ mpAccrued' \in [Vaults -> Nat]
        /\ maxMP' \in [Vaults -> Nat] /\ lastMPUpdateTime' \in [Vaults -> Nat]
        /\ lockUntil' \in [Vaults -> Nat] /\ depositedBalance' \in [Vaults -> Nat]
        /\ balance' \in [Vaults -> Nat]
    BY SMTT(60), <1>1, <1>2 DEF IInv, VaultTypes, Least
  <1>4. MPBounds'
    <2> SUFFICES ASSUME NEW u \in Vaults
                 PROVE  /\ stakedBalance'[u] <= mpAccrued'[u]
                        /\ mpAccrued'[u] <= maxMP'[u]
                        /\ (1 + MAX_MULTIPLIER) * stakedBalance'[u] <= maxMP'[u]
                        /\ maxMP'[u] <= MaxAbsoluteTotalMP(stakedBalance'[u])
      BY DEF MPBounds, MaxAbsoluteTotalMP
    <2>0. /\ stakedBalance \in [Vaults -> Nat] /\ mpAccrued \in [Vaults -> Nat]
          /\ maxMP \in [Vaults -> Nat]
      BY DEF IInv, VaultTypes
    <2>1. CASE u # v /\ u # w
      <3>1. /\ stakedBalance'[u] = stakedBalance[u] /\ mpAccrued'[u] = mpAccrued[u]
            /\ maxMP'[u] = maxMP[u]
        BY <2>0, <2>1, <1>2
      <3> QED  BY <3>1 DEF IInv, MPBounds
    <2>2. CASE u = v
      <3>1. stakedBalance'[u] = 0 /\ mpAccrued'[u] = 0 /\ maxMP'[u] = 0
        BY <2>0, <2>2, <1>2
      <3> QED  BY <3>1, EmptyBounds
    <2>3. CASE u = w
      <3>1. /\ stakedBalance'[u] = stakedBalance[v] /\ maxMP'[u] = maxMP[v]
            /\ mpAccrued'[u] = mpAccrued[v] + due
        BY <2>3, <1>2 DEF IInv, VaultTypes
      <3>2. /\ stakedBalance[v] <= mpAccrued[v] /\ stakedBalance[v] \in Nat
            /\ mpAccrued[v] \in Nat
        BY DEF IInv, VaultTypes, MPBounds
      <3>3. /\ (1 + MAX_MULTIPLIER) * stakedBalance[v] <= maxMP[v]
            /\ maxMP[v] <= MaxAbsoluteTotalMP(stakedBalance[v])
        BY DEF IInv, MPBounds
      <3>4. stakedBalance'[u] <= mpAccrued'[u] /\ mpAccrued'[u] <= maxMP'[u]
        BY <3>1, <3>2, <1>1
      <3> QED  BY ZenonT(60), <3>1, <3>3, <3>4
    <2> QED  BY <2>1, <2>2, <2>3
  <1>5. VaultBacked'
    BY <1>2 DEF IInv, VaultTypes, VaultBacked
  <1>6. ClocksOrdered'
    BY <1>2 DEF IInv, VaultTypes, ClocksOrdered, Least
  <1> QED  BY <1>2, <1>3, <1>4, <1>5, <1>6

\* migrateToVault, to an empty registered vault of the same owner.
LEMMA MigratePreserves ==
    ASSUME IInv, NEW v \in Vaults, NEW w \in Vaults, MigrateToVault(v, w)
    PROVE  IInv'
  <1>1. /\ ~hasLeft[v] /\ ~hasLeft[w] /\ v # w /\ ~emergencyModeEnabled
        /\ Registered(v) /\ Registered(w) /\ owner[w] = owner[v]
        /\ stakedBalance[w] = 0 /\ MoveVault(v, w)
        /\ vaultOwners' = [vaultOwners EXCEPT ![v] = NoAccount]
        /\ UNCHANGED <<now, emergencyModeEnabled, rewardStartTime, rewardEndTime,
                       hasLeft, owner>>
    BY DEF MigrateToVault, ActiveVault, Active, adminVars, periodVars
  <1>2. depositedBalance[w] = 0
    BY <1>1 DEF IInv, VaultBacked
  <1>3. /\ lastRewardTime' \in Nat
        /\ stakedBalance' \in [Vaults -> Nat] /\ mpAccrued' \in [Vaults -> Nat]
        /\ maxMP' \in [Vaults -> Nat] /\ lastMPUpdateTime' \in [Vaults -> Nat]
        /\ lockUntil' \in [Vaults -> Nat] /\ depositedBalance' \in [Vaults -> Nat]
        /\ balance' \in [Vaults -> Nat]
        /\ depositedBalance' = [depositedBalance EXCEPT
                                   ![w] = depositedBalance[v], ![v] = 0]
        /\ MPBounds' /\ VaultBacked' /\ ClocksOrdered'
    BY <1>1, <1>2, MovePreserves
  <1>4. VaultTypes'
    BY <1>1, <1>3 DEF IInv, VaultTypes
  <1>5. VaultOwnership'
    BY <1>1, <1>3 DEF IInv, VaultTypes, VaultOwnership, Registered
  <1> QED  BY <1>3, <1>4, <1>5 DEF IInv

\* replaceVault, to a vault that is created in the same transaction.
LEMMA ReplacePreserves ==
    ASSUME IInv, NEW v \in Vaults, NEW w \in Vaults, ReplaceVault(v, w)
    PROVE  IInv' /\ v # w
  <1>1. /\ ~hasLeft[v] /\ ~emergencyModeEnabled
        /\ Registered(v) /\ owner[w] = NoAccount /\ MoveVault(v, w)
        /\ owner' = [owner EXCEPT ![w] = vaultOwners[v]]
        /\ vaultOwners' = [vaultOwners EXCEPT ![w] = vaultOwners[v], ![v] = NoAccount]
        /\ UNCHANGED <<now, emergencyModeEnabled, rewardStartTime, rewardEndTime,
                       hasLeft>>
    BY DEF ReplaceVault, ActiveVault, Active, adminVars, periodVars
  <1>2. depositedBalance[w] = 0 /\ v # w
    BY <1>1 DEF IInv, VaultOwnership, Registered
  <1>3. /\ lastRewardTime' \in Nat
        /\ stakedBalance' \in [Vaults -> Nat] /\ mpAccrued' \in [Vaults -> Nat]
        /\ maxMP' \in [Vaults -> Nat] /\ lastMPUpdateTime' \in [Vaults -> Nat]
        /\ lockUntil' \in [Vaults -> Nat] /\ depositedBalance' \in [Vaults -> Nat]
        /\ balance' \in [Vaults -> Nat]
        /\ depositedBalance' = [depositedBalance EXCEPT
                                   ![w] = depositedBalance[v], ![v] = 0]
        /\ MPBounds' /\ VaultBacked' /\ ClocksOrdered'
    BY <1>1, <1>2, MovePreserves
  <1>4. VaultTypes'
    BY <1>1, <1>3 DEF IInv, VaultTypes
  <1>5. VaultOwnership'
    BY <1>1, <1>2, <1>3 DEF IInv, VaultTypes, VaultOwnership, Registered
  <1> QED  BY <1>2, <1>3, <1>4, <1>5 DEF IInv

\* A step that changes only a vault's deposit to d and its tokens to b.
LEMMA DepositPreserves ==
    ASSUME IInv, NEW v \in Vaults, NEW d \in Nat, NEW b \in Nat, d <= b,
           d = depositedBalance[v] \/ hasLeft[v] \/ emergencyModeEnabled,
           owner[v] # NoAccount,
           depositedBalance' = [depositedBalance EXCEPT ![v] = d],
           balance' = [balance EXCEPT ![v] = b],
           UNCHANGED <<now, emergencyModeEnabled, lastRewardTime, rewardStartTime,
                       rewardEndTime, vaultOwners, stakedBalance, mpAccrued, maxMP,
                       lastMPUpdateTime, owner, lockUntil, hasLeft>>
    PROVE  IInv'
  <1>1. /\ depositedBalance \in [Vaults -> Nat] /\ balance \in [Vaults -> Nat]
        /\ depositedBalance' \in [Vaults -> Nat] /\ balance' \in [Vaults -> Nat]
    BY DEF IInv, VaultTypes
  <1>2. VaultTypes'
    BY <1>1 DEF IInv, VaultTypes
  <1>3. /\ depositedBalance'[v] = d /\ balance'[v] = b
        /\ \A u \in Vaults : u # v => /\ depositedBalance'[u] = depositedBalance[u]
                                     /\ balance'[u] = balance[u]
    BY <1>1
  <1>4. VaultBacked'
    BY <1>3 DEF IInv, VaultBacked
  <1>5. MPBounds'
    BY DEF IInv, MPBounds, MaxAbsoluteTotalMP
  <1>6. ClocksOrdered'
    BY DEF IInv, ClocksOrdered, Least
  <1>7. VaultOwnership'
    BY <1>3 DEF IInv, VaultOwnership, Registered
  <1> QED  BY <1>2, <1>4, <1>5, <1>6, <1>7 DEF IInv

LEMMA EmergencyExitPreserves ==
    ASSUME IInv, NEW v \in Vaults, EmergencyExit(v)
    PROVE  IInv'
  <1>1. /\ depositedBalance' = [depositedBalance EXCEPT ![v] = 0]
        /\ balance' = [balance EXCEPT ![v] = 0]
        /\ emergencyModeEnabled /\ owner[v] # NoAccount
        /\ UNCHANGED <<now, emergencyModeEnabled, lastRewardTime, rewardStartTime,
                       rewardEndTime, vaultOwners, stakedBalance, mpAccrued, maxMP,
                       lastMPUpdateTime, owner, lockUntil, hasLeft>>
    BY DEF EmergencyExit, adminVars, indexVars, periodVars, mpVars
  <1>2. 0 \in Nat /\ 0 <= 0
    OBVIOUS
  <1> QED  BY <1>1, <1>2, DepositPreserves

LEMMA DonatePreserves ==
    ASSUME IInv, NEW v \in Vaults, NEW amount \in Amounts, Donate(v, amount)
    PROVE  IInv'
  <1>1. /\ depositedBalance[v] \in Nat /\ balance[v] + amount \in Nat
        /\ depositedBalance[v] <= balance[v] + amount
    BY StakingAssumption DEF IInv, VaultTypes, VaultBacked
  <1>2. depositedBalance' = [depositedBalance EXCEPT ![v] = depositedBalance[v]]
    BY DEF Donate, vaultVars, IInv, VaultTypes
  <1>3. /\ balance' = [balance EXCEPT ![v] = balance[v] + amount]
        /\ owner[v] # NoAccount
        /\ UNCHANGED <<now, emergencyModeEnabled, lastRewardTime, rewardStartTime,
                       rewardEndTime, vaultOwners, stakedBalance, mpAccrued, maxMP,
                       lastMPUpdateTime, owner, lockUntil, hasLeft>>
    BY DEF Donate, adminVars, indexVars, periodVars, mpVars, vaultVars
  <1> QED  BY <1>1, <1>2, <1>3, DepositPreserves

LEMMA WithdrawPreserves ==
    ASSUME IInv, NEW v \in Vaults, NEW amount \in Amounts, Withdraw(v, amount)
    PROVE  IInv'
  <1> DEFINE x == Greatest(amount - Excess(v), 0)
  <1>1. /\ depositedBalance' = [depositedBalance EXCEPT ![v] = depositedBalance[v] - x]
        /\ balance' = [balance EXCEPT ![v] = balance[v] - amount]
        /\ amount <= balance[v] /\ (amount > Excess(v) => hasLeft[v])
        /\ owner[v] # NoAccount
        /\ UNCHANGED <<now, emergencyModeEnabled, lastRewardTime, rewardStartTime,
                       rewardEndTime, vaultOwners, stakedBalance, mpAccrued, maxMP,
                       lastMPUpdateTime, owner, lockUntil, hasLeft>>
    BY DEF Withdraw, adminVars, indexVars, periodVars, mpVars
  <1>2. /\ amount \in Nat /\ depositedBalance[v] \in Nat /\ balance[v] \in Nat
        /\ depositedBalance[v] <= balance[v]
    BY StakingAssumption DEF IInv, VaultTypes, VaultBacked
  <1>3. /\ x \in 0 .. depositedBalance[v]
        /\ depositedBalance[v] - x <= balance[v] - amount
        /\ x = 0 \/ amount > Excess(v)
    BY <1>1, <1>2 DEF Excess, Greatest
  <1> HIDE DEF x
  <1>4. /\ depositedBalance[v] - x \in Nat /\ balance[v] - amount \in Nat
        /\ depositedBalance[v] - x = depositedBalance[v] \/ hasLeft[v]
    BY <1>1, <1>2, <1>3
  <1> QED  BY <1>1, <1>3, <1>4, DepositPreserves

\* Every step keeps the invariant.
LEMMA NextIInv == IInv /\ [Next]_vars => IInv'
  <1> SUFFICES ASSUME IInv, [Next]_vars PROVE IInv'
    OBVIOUS
  <1>1. ASSUME NEW v \in Vaults, NEW a \in Accounts, CreateVault(v, a)
        PROVE  IInv'
    <2>1. /\ owner' = [owner EXCEPT ![v] = a] /\ owner[v] = NoAccount
          /\ vaultOwners' = [vaultOwners EXCEPT ![v] = a]
          /\ UNCHANGED <<now, emergencyModeEnabled, lastRewardTime, rewardStartTime,
                         rewardEndTime, stakedBalance, mpAccrued, maxMP,
                         lastMPUpdateTime, lockUntil, depositedBalance, hasLeft, balance>>
      BY <1>1 DEF CreateVault, adminVars, indexVars, periodVars, mpVars, tokenVars
    <2>2. VaultTypes'  BY <2>1 DEF IInv, VaultTypes
    <2>3. MPBounds'  BY <2>1 DEF IInv, MPBounds, MaxAbsoluteTotalMP
    <2>4. VaultBacked'  BY <2>1 DEF IInv, VaultBacked
    <2>5. ClocksOrdered'  BY <2>1 DEF IInv, ClocksOrdered, Least
    <2>6. VaultOwnership'
      <3>1. /\ owner'[v] = a /\ vaultOwners'[v] = a /\ a # NoAccount
            /\ \A u \in Vaults : u # v => owner'[u] = owner[u] /\ vaultOwners'[u] = vaultOwners[u]
        BY <2>1, StakingAssumption DEF IInv, VaultTypes
      <3> QED  BY <2>1, <3>1 DEF IInv, VaultOwnership, Registered
    <2> QED  BY <2>2, <2>3, <2>4, <2>5, <2>6 DEF IInv
  <1>2. CASE UpdateRewards
    BY <1>2, AccrueMPsPreserves
    DEF UpdateRewards, UpdateVaults, UpdateRewardIndex, tokenVars
  <1>3. ASSUME NEW v \in Vaults, UpdateVault(v)  PROVE IInv'
    BY <1>3, AccrueMPsPreserves
    DEF UpdateVault, UpdateVaults, UpdateRewardIndex, tokenVars
  <1>4. ASSUME NEW a \in Accounts, UpdateAccount(a) \/ RedeemRewards(a)
        PROVE  IInv'
    <2>1. VaultsOf(a) \subseteq Vaults
      BY DEF VaultsOf
    <2> QED
      BY ZenonT(60), <1>4, <2>1, AccrueMPsPreserves
      DEF UpdateAccount, UpdateVaults, UpdateRewardIndex, RedeemRewards, tokenVars
  <1>5. ASSUME NEW amount \in RewardAmounts, NEW duration \in RewardDurations,
               SetReward(amount, duration)
        PROVE  IInv'
    <2>1. /\ UNCHANGED <<now, emergencyModeEnabled, vaultOwners, stakedBalance,
                         mpAccrued, maxMP, lastMPUpdateTime, owner, lockUntil,
                         depositedBalance, hasLeft, balance>>
          /\ lastRewardTime' = now /\ rewardStartTime' = now
          /\ rewardEndTime' = now + duration
      BY <1>5 DEF SetReward, adminVars, mpVars, vaultVars, tokenVars
    <2>2. now \in Nat /\ duration \in Nat
      BY StakingAssumption DEF IInv, VaultTypes
    <2>3. VaultTypes'  BY <2>1, <2>2 DEF IInv, VaultTypes
    <2>4. MPBounds'  BY <2>1 DEF IInv, MPBounds, MaxAbsoluteTotalMP
    <2>5. VaultBacked'  BY <2>1 DEF IInv, VaultBacked
    <2>6. ClocksOrdered'  BY <2>1, <2>2 DEF IInv, ClocksOrdered, Least
    <2>7. VaultOwnership'  BY <2>1 DEF IInv, VaultOwnership, Registered
    <2> QED  BY <2>3, <2>4, <2>5, <2>6, <2>7 DEF IInv
  <1>6. CASE \/ EnableEmergencyMode \/ Pause \/ Unpause
             \/ \E t \in BOOLEAN : SetTrustedCodehash(t)
             \/ Tick \/ UNCHANGED vars
    <2>1. /\ UNCHANGED <<lastRewardTime, rewardStartTime, rewardEndTime,
                         vaultOwners, stakedBalance, mpAccrued, maxMP,
                         lastMPUpdateTime, owner, lockUntil, depositedBalance,
                         hasLeft, balance>>
          /\ emergencyModeEnabled' \in BOOLEAN
          /\ ~emergencyModeEnabled' => ~emergencyModeEnabled
          /\ now' \in {now, now + 1}
      BY ZenonT(60), <1>6
      DEF IInv, VaultTypes, EnableEmergencyMode, Pause, Unpause, SetTrustedCodehash, Tick, vars,
          adminVars, totalVars, indexVars, periodVars, mpVars, claimVars,
          vaultVars, tokenVars
    <2>2. VaultTypes'  BY <2>1 DEF IInv, VaultTypes
    <2>3. MPBounds'  BY <2>1 DEF IInv, MPBounds, MaxAbsoluteTotalMP
    <2>4. VaultBacked'  BY <2>1 DEF IInv, VaultTypes, VaultBacked
    <2>5. ClocksOrdered'  BY <2>1 DEF IInv, VaultTypes, ClocksOrdered, Least
    <2>6. VaultOwnership'  BY ZenonT(60), <2>1 DEF IInv, VaultOwnership, Registered
    <2> QED  BY <2>2, <2>3, <2>4, <2>5, <2>6 DEF IInv
  <1> QED
    BY <1>1, <1>2, <1>3, <1>4, <1>5, <1>6, StakePreserves, LockPreserves,
       UnstakePreserves, LeavePreserves, MigratePreserves, ReplacePreserves,
       EmergencyExitPreserves, DonatePreserves, WithdrawPreserves
    DEF Next

\* The invariant holds in every reachable state.
THEOREM Invariance == Spec => []IInv
  BY InitIInv, NextIInv, PTL DEF Spec

\* The MPs of a vault stay within its bounds, for every year length and
\* multiplier (StakeMath.sol and the three-way rounding of _reduceMP).
THEOREM MPsBounded == Spec => []MPBounds
  <1>1. IInv => MPBounds  BY DEF IInv
  <1> QED  BY <1>1, Invariance, PTL

\* Every vault holds its deposit, and the manager counts exactly that.
THEOREM VaultsBacked == Spec => []VaultBacked
  <1>1. IInv => VaultBacked  BY DEF IInv
  <1> QED  BY <1>1, Invariance, PTL

\* No subtraction of timestamps underflows.
THEOREM ClocksStayOrdered == Spec => []ClocksOrdered
  <1>1. IInv => ClocksOrdered  BY DEF IInv
  <1> QED  BY <1>1, Invariance, PTL


\* A vault step is one of these kinds, as far as deposits and locks go.
LEMMA LockedStep ==
    ASSUME IInv, [Next]_vars, NEW v \in Vaults, depositedBalance[v] > 0,
           lockUntil[v] > now, ~emergencyModeEnabled
    PROVE  \E w \in Vaults : /\ depositedBalance'[w] >= depositedBalance[v]
                             /\ lockUntil'[w] >= lockUntil[v]
                             /\ owner'[w] = owner[v]
  <1> DEFINE Stays == /\ depositedBalance'[v] >= depositedBalance[v]
                      /\ lockUntil'[v] >= lockUntil[v]
                      /\ owner'[v] = owner[v]
             Moved(w) == /\ depositedBalance'[w] >= depositedBalance[v]
                         /\ lockUntil'[w] >= lockUntil[v]
                         /\ owner'[w] = owner[v]
  <1>1. /\ now \in Nat
        /\ depositedBalance \in [Vaults -> Nat] /\ lockUntil \in [Vaults -> Nat]
        /\ owner \in [Vaults -> Accounts \cup {NoAccount}]
    BY DEF IInv, VaultTypes
  <1>2. owner[v] # NoAccount
    BY <1>1 DEF IInv, VaultOwnership
  <1>3. ASSUME NEW u \in Vaults, NEW w \in Vaults,
               MigrateToVault(u, w) \/ ReplaceVault(u, w)
        PROVE  Stays \/ Moved(w)
    <2>1. /\ depositedBalance' = [depositedBalance EXCEPT
                                     ![w] = depositedBalance[u], ![u] = 0]
          /\ lockUntil' = [lockUntil EXCEPT ![w] = lockUntil[u], ![u] = 0]
          /\ Registered(u)
      BY <1>3 DEF MigrateToVault, ReplaceVault, MoveVault, ActiveVault
    <2>2. vaultOwners[u] = owner[u]
      BY <2>1 DEF IInv, VaultOwnership
    <2>3. v # w
      BY <1>1, <1>2, <1>3 DEF MigrateToVault, ReplaceVault, IInv, VaultBacked
    <2>4. u # w /\ owner'[w] = owner[u] /\ \A x \in Vaults : x # w => owner'[x] = owner[x]
      BY <1>1, <1>3, <2>2, ReplacePreserves DEF MigrateToVault, ReplaceVault
    <2>5. CASE v = u
      BY <2>1, <2>4, <2>5, <1>1
    <2>6. CASE v # u
      BY SMTT(60), <2>1, <2>3, <2>4, <2>6, <1>1
    <2> QED  BY <2>5, <2>6
  <1>4. ASSUME NEW u \in Vaults, NEW seconds \in LockPeriods,
               \/ Lock(u, seconds)
               \/ \E amount \in Amounts : Stake(u, amount, seconds)
        PROVE  Stays
    <2>1. seconds \in Nat /\ \A amount \in Amounts : amount \in Nat
      BY StakingAssumption
    <2>2. /\ lockUntil' = [lockUntil EXCEPT ![u] = Greatest(lockUntil[u], now) + seconds]
          /\ owner' = owner
      BY ZenonT(60), <1>4 DEF Lock, Stake
    <2>3. lockUntil'[v] >= lockUntil[v]
      BY <1>1, <2>1, <2>2 DEF Greatest
    <2>4. depositedBalance'[v] >= depositedBalance[v]
      <3>1. CASE Lock(u, seconds)
        <4>1. UNCHANGED depositedBalance
          BY Zenon, <3>1 DEF Lock
        <4>2. depositedBalance[v] \in Nat
          BY DEF IInv, VaultTypes
        <4> QED  BY <4>1, <4>2
      <3>2. ASSUME NEW amount \in Amounts, Stake(u, amount, seconds)
            PROVE  depositedBalance'[v] >= depositedBalance[v]
        <4>1. depositedBalance' = [depositedBalance EXCEPT ![u] = @ + amount]
          BY <3>2 DEF Stake
        <4> QED  BY <1>1, <2>1, <4>1
      <3> QED  BY <1>4, <3>1, <3>2
    <2> QED  BY <2>2, <2>3, <2>4
  <1>5. ASSUME NEW u \in Vaults,
               \/ Leave(u) \/ EmergencyExit(u)
               \/ \E amount \in Amounts : Unstake(u, amount) \/ Donate(u, amount)
        PROVE  Stays
    <2>1. lockUntil' = lockUntil /\ owner' = owner
      BY ZenonT(60), <1>5 DEF Leave, EmergencyExit, Unstake, Donate, vaultVars
    <2>2. depositedBalance'[v] = depositedBalance[v]
      <3>1. CASE Leave(u)
        BY <1>1, <3>1 DEF Leave, ReleaseFunds, Unlocked
      <3>2. CASE EmergencyExit(u)
        BY <1>1, <3>2 DEF EmergencyExit
      <3>3. ASSUME NEW amount \in Amounts, Unstake(u, amount) \/ Donate(u, amount)
            PROVE  depositedBalance'[v] = depositedBalance[v]
        <4>1. CASE Unstake(u, amount)
          BY <1>1, <4>1 DEF Unstake, Unlocked
        <4>2. CASE Donate(u, amount)
          BY <4>2 DEF Donate, vaultVars
        <4> QED  BY <3>3, <4>1, <4>2
      <3> QED  BY <1>5, <3>1, <3>2, <3>3
    <2> QED  BY <1>1, <2>1, <2>2
  <1>6. ASSUME NEW u \in Vaults, NEW amount \in Amounts, Withdraw(u, amount)
        PROVE  Stays
    <2>1. amount \in Nat /\ balance[u] \in Nat /\ Excess(u) \in Int
      BY <1>1, StakingAssumption DEF IInv, VaultTypes, Excess, Greatest
    <2>2. /\ depositedBalance' = [depositedBalance EXCEPT
                                     ![u] = @ - Greatest(amount - Excess(u), 0)]
          /\ amount > Excess(u) => lockUntil[u] <= now
          /\ lockUntil' = lockUntil /\ owner' = owner
      BY <1>6 DEF Withdraw, Unlocked
    <2>3. CASE u = v
      <3>1. amount <= Excess(u)
        BY <1>1, <2>1, <2>2, <2>3
      <3>2. Greatest(amount - Excess(u), 0) = 0
        BY <2>1, <3>1 DEF Greatest
      <3>3. depositedBalance'[v] = depositedBalance[v]
        BY <1>1, <2>2, <2>3, <3>2
      <3> QED  BY <1>1, <2>2, <3>3
    <2>4. CASE u # v
      BY <1>1, <2>2, <2>4
    <2> QED  BY ZenonT(60), <2>3, <2>4
  <1>7. ASSUME NEW u \in Vaults, NEW a \in Accounts, CreateVault(u, a)
        PROVE  Stays
    BY <1>1, <1>2, <1>7 DEF CreateVault
  <1>8. ASSUME \/ UpdateRewards \/ EnableEmergencyMode \/ Pause \/ Unpause \/ Tick
               \/ \E u \in Vaults : UpdateVault(u)
               \/ \E a \in Accounts : UpdateAccount(a) \/ RedeemRewards(a)
               \/ \E amount \in RewardAmounts, duration \in RewardDurations :
                     SetReward(amount, duration)
               \/ \E t \in BOOLEAN : SetTrustedCodehash(t)
               \/ UNCHANGED vars
        PROVE  Stays
    <2>1. UNCHANGED vaultVars
      BY ZenonT(60), <1>8
      DEF UpdateRewards, EnableEmergencyMode, Pause, Unpause, Tick, UpdateVault,
          UpdateAccount, RedeemRewards, SetReward, SetTrustedCodehash, vars
    <2> QED  BY <1>1, <2>1 DEF vaultVars
  <1> DEFINE Kept == \E w \in Vaults : Moved(w)
  <1>9. Stays => Kept
    OBVIOUS
  <1>10. \A u, w \in Vaults : MigrateToVault(u, w) \/ ReplaceVault(u, w) => Kept
    BY ZenonT(60), <1>3, <1>9
  <1> SUFFICES Kept
    BY ZenonT(60)
  <1> HIDE DEF Stays, Kept
  <1>11. CASE \E u \in Vaults, amount \in Amounts, seconds \in LockPeriods :
                 Stake(u, amount, seconds)
    BY ZenonT(60), <1>4, <1>9, <1>11
  <1>12. CASE \E u \in Vaults, seconds \in LockPeriods : Lock(u, seconds)
    BY <1>4, <1>9, <1>12
  <1>13. CASE \E u \in Vaults, amount \in Amounts : Unstake(u, amount) \/ Donate(u, amount)
    BY <1>5, <1>9, <1>13
  <1>14. CASE \E u \in Vaults : Leave(u) \/ EmergencyExit(u)
    BY <1>5, <1>9, <1>14
  <1> QED
    BY ZenonT(60), <1>6, <1>7, <1>8, <1>9, <1>10, <1>11, <1>12, <1>13, <1>14 DEF Next

\* Tokens under lock stay in vaults of their owner, with their lock, outside
\* emergency mode (StakeVault.leave, withdraw, unstake, migrateToVault).
THEOREM LockedFundsAreKept == Spec => LockedFundsStay
  <1>1. ASSUME IInv, IInv', [Next]_vars
        PROVE  [\A v \in Vaults :
                  (/\ depositedBalance[v] > 0 /\ lockUntil[v] > now
                   /\ ~emergencyModeEnabled) =>
                     \E w \in Vaults :
                        /\ balance'[w] >= depositedBalance[v]
                        /\ depositedBalance'[w] >= depositedBalance[v]
                        /\ lockUntil'[w] >= lockUntil[v]
                        /\ owner'[w] = owner[v]]_vars
    <2> SUFFICES ASSUME NEW v \in Vaults, depositedBalance[v] > 0,
                        lockUntil[v] > now, ~emergencyModeEnabled
                 PROVE  \E w \in Vaults :
                           /\ balance'[w] >= depositedBalance[v]
                           /\ depositedBalance'[w] >= depositedBalance[v]
                           /\ lockUntil'[w] >= lockUntil[v]
                           /\ owner'[w] = owner[v]
      OBVIOUS
    <2>1. PICK w \in Vaults : /\ depositedBalance'[w] >= depositedBalance[v]
                              /\ lockUntil'[w] >= lockUntil[v]
                              /\ owner'[w] = owner[v]
      BY <1>1, LockedStep
    <2>2. balance'[w] >= depositedBalance'[w] /\ balance'[w] \in Nat
          /\ depositedBalance'[w] \in Nat /\ depositedBalance[v] \in Nat
      BY <1>1 DEF IInv, VaultTypes, VaultBacked
    <2> QED  BY <2>1, <2>2
  <1> QED  BY <1>1, Invariance, PTL DEF Spec, LockedFundsStay
=============================================================================
