------------------------------ MODULE Staking ------------------------------
(***************************************************************************)
(* SNT staking: the StakeManager, the StakeVaults that hold the tokens,    *)
(* the VaultFactory that creates them, and the staking and reward tokens   *)
(* as far as these contracts use them.  A transaction is one action: a     *)
(* call that reverts changes nothing, so the conditions under which the    *)
(* code reverts are the negations of the action's guards.  Checked         *)
(* subtractions of totals are guards too (Solidity 0.8 reverts).           *)
(***************************************************************************)
EXTENDS StakeMath, FiniteSets, FiniteSetsExt

CONSTANTS
    Vaults,             \* addresses of StakeVaults, created or not
    Accounts,           \* owners of vaults
    NoAccount,          \* address(0)
    MaxVaultsPerUser,
    SCALE_FACTOR,
    Supply,             \* SNT held outside the vaults at the start
    Amounts,            \* amounts callers stake, unstake, withdraw, donate
    LockPeriods,        \* periods callers lock for
    RewardAmounts,
    RewardDurations,
    MaxTime,            \* bound on the block timestamp
    MaxRewards          \* bound on the Karma minted to the StakeManager

ASSUME StakingAssumption ==
    /\ NoAccount \notin Accounts
    /\ MaxVaultsPerUser \in Nat
    /\ SCALE_FACTOR \in Nat \ {0}
    /\ Supply \in Nat /\ MaxTime \in Nat /\ MaxRewards \in Nat
    /\ Amounts \subseteq Nat /\ LockPeriods \subseteq Nat
    /\ RewardAmounts \subseteq Nat /\ RewardDurations \subseteq Nat

VARIABLES
    now,                                      \* block.timestamp
    paused, emergencyModeEnabled, trusted,    \* trusted: the vaults' codehash
    \* StakeManager, totals and reward period
    totalStaked, totalMPStaked,
    totalRewardsAccrued, lastRewardIndex, lastRewardTime,
    rewardAmount, rewardStartTime, rewardEndTime,
    \* StakeManager, per vault: vaultOwners and the fields of vaultData
    vaultOwners, stakedBalance, mpAccrued, maxMP, lastMPUpdateTime,
    rewardIndex, rewardsAccrued,
    \* StakeVault, per vault; owner is NoAccount before the vault exists
    owner, lockUntil, depositedBalance, hasLeft,
    \* tokens: SNT of each vault and of everyone else, Karma of the manager
    balance, wallet, rewardBalance

adminVars  == <<paused, emergencyModeEnabled, trusted>>
totalVars  == <<totalStaked, totalMPStaked>>
indexVars  == <<totalRewardsAccrued, lastRewardIndex, lastRewardTime>>
periodVars == <<rewardAmount, rewardStartTime, rewardEndTime>>
mpVars     == <<stakedBalance, mpAccrued, maxMP, lastMPUpdateTime>>
claimVars  == <<rewardIndex, rewardsAccrued>>
vaultVars  == <<owner, lockUntil, depositedBalance, hasLeft>>
tokenVars  == <<balance, wallet>>

vars == <<now, adminVars, totalVars, indexVars, periodVars, vaultOwners,
          mpVars, claimVars, vaultVars, tokenVars, rewardBalance>>

Zero == [v \in Vaults |-> 0]

Init ==
    /\ now = 0
    /\ paused = FALSE /\ emergencyModeEnabled = FALSE /\ trusted = TRUE
    /\ totalStaked = 0 /\ totalMPStaked = 0
    /\ totalRewardsAccrued = 0 /\ lastRewardIndex = 0 /\ lastRewardTime = 0
    /\ rewardAmount = 0 /\ rewardStartTime = 0 /\ rewardEndTime = 0
    /\ vaultOwners = [v \in Vaults |-> NoAccount]
    /\ stakedBalance = Zero /\ mpAccrued = Zero /\ maxMP = Zero
    /\ lastMPUpdateTime = Zero /\ rewardIndex = Zero /\ rewardsAccrued = Zero
    /\ owner = [v \in Vaults |-> NoAccount]
    /\ lockUntil = Zero /\ depositedBalance = Zero
    /\ hasLeft = [v \in Vaults |-> FALSE]
    /\ balance = Zero /\ wallet = Supply /\ rewardBalance = 0

----------------------------------------------------------------------------
(* What the contracts compute from their state                              *)

Registered(v) == vaultOwners[v] # NoAccount
VaultsOf(a) == {v \in Vaults : vaultOwners[v] = a}
SumOver(f, S) == MapThenSumSet(LAMBDA v : f[v], S)

TotalShares == totalStaked + totalMPStaked

\* Karma streamed since lastRewardTime.
CalculatePendingRewards ==
    LET currentTime == Least(now, rewardEndTime)
    IN  IF rewardEndTime <= rewardStartTime \/ currentTime <= lastRewardTime
        THEN 0
        ELSE ((currentTime - lastRewardTime) * rewardAmount)
                \div (rewardEndTime - rewardStartTime)

AccruedRewards == IF TotalShares = 0 THEN 0 ELSE CalculatePendingRewards

NewRewardIndex ==
    IF TotalShares = 0
    THEN lastRewardIndex
    ELSE lastRewardIndex + (CalculatePendingRewards * SCALE_FACTOR) \div TotalShares

VaultPendingRewards(v) ==
    ((stakedBalance[v] + mpAccrued[v]) * (NewRewardIndex - rewardIndex[v]))
        \div SCALE_FACTOR

VaultPendingMP(v) ==
    CalculateAccrual(stakedBalance[v], mpAccrued[v], maxMP[v],
                     now - lastMPUpdateTime[v])

\* Fault: what was streamed already is carried over as well.
RemainingRewardsAll == IF rewardEndTime > now THEN rewardAmount ELSE 0

\* Karma of the current period that has not been streamed yet.
RemainingRewards ==
    IF rewardEndTime > now
    THEN rewardAmount - ((now - rewardStartTime) * rewardAmount)
                           \div (rewardEndTime - rewardStartTime)
    ELSE 0

----------------------------------------------------------------------------
(* Internal functions shared by the operations                              *)

\* onlyNotEmergencyMode whenNotPaused
Active == ~emergencyModeEnabled /\ ~paused

\* ... onlyTrustedCodehash onlyRegisteredVault, called from the vault
ActiveVault(v) == Active /\ trusted /\ Registered(v)

UpdateRewardIndex ==
    /\ totalRewardsAccrued' = totalRewardsAccrued + AccruedRewards
    /\ lastRewardIndex' = NewRewardIndex
    /\ lastRewardTime' = IF NewRewardIndex > lastRewardIndex
                         THEN Least(now, rewardEndTime) ELSE lastRewardTime

\* Fault: the index of the vault is not advanced.
SettleRewardsOnly(S) ==
    /\ rewardIndex' = rewardIndex
    /\ rewardsAccrued' = [v \in Vaults |-> rewardsAccrued[v]
                             + (IF v \in S THEN VaultPendingRewards(v) ELSE 0)]

\* The reward part of _updateVault for the vaults in S.  _rewardIndex() was
\* just applied by UpdateRewardIndex and returns the new lastRewardIndex.
SettleRewards(S) ==
    /\ rewardIndex' = [v \in Vaults |-> IF v \in S THEN NewRewardIndex
                                        ELSE rewardIndex[v]]
    /\ rewardsAccrued' = [v \in Vaults |-> rewardsAccrued[v]
                             + (IF v \in S THEN VaultPendingRewards(v) ELSE 0)]

\* The MP part of _updateVault for the vaults in S.
AccrueMPs(S) ==
    LET due(v) == IF v \in S THEN VaultPendingMP(v) ELSE 0
    IN  /\ mpAccrued' = [v \in Vaults |-> mpAccrued[v] + due(v)]
        /\ lastMPUpdateTime' = [v \in Vaults |-> IF due(v) > 0 THEN now
                                                 ELSE lastMPUpdateTime[v]]
        /\ totalMPStaked' = totalMPStaked + MapThenSumSet(due, S)

UpdateVaults(S) ==
    /\ UpdateRewardIndex
    /\ SettleRewards(S)
    /\ AccrueMPs(S)
    /\ UNCHANGED <<totalStaked, stakedBalance, maxMP>>

----------------------------------------------------------------------------
(* StakeVault operations, with the StakeManager calls they make             *)

\* Variants with a fault, against which the properties are tried.
UnlockedEarly(v) == lockUntil[v] <= now + 1
ExcessOfAll(v) == balance[v]

CanRegister(a) == Cardinality(VaultsOf(a)) < MaxVaultsPerUser

\* The vault's lock has expired.
Unlocked(v) == lockUntil[v] <= now

\* SNT in the vault that is not deposited.
Excess(v) == Greatest(balance[v] - depositedBalance[v], 0)

\* VaultFactory.createVault and StakeManager.registerVault.
CreateVault(v, a) ==
    /\ Active /\ trusted
    /\ owner[v] = NoAccount
    /\ CanRegister(a)
    /\ owner' = [owner EXCEPT ![v] = a]
    /\ vaultOwners' = [vaultOwners EXCEPT ![v] = a]
    /\ UNCHANGED <<now, adminVars, totalVars, indexVars, periodVars, mpVars,
                   claimVars, lockUntil, depositedBalance, hasLeft, tokenVars,
                   rewardBalance>>

Stake(v, amount, seconds) ==
    LET lockEnd == Greatest(lockUntil[v], now) + seconds
        dtLock  == lockEnd - now
        mp      == StakeDeltaMP(stakedBalance[v], amount, dtLock, seconds)
        max     == StakeDeltaMaxMP(stakedBalance[v], amount, dtLock, seconds)
    IN  /\ ~hasLeft[v] /\ ActiveVault(v)
        /\ amount > 0 /\ amount <= wallet
        /\ seconds <= MAX_LOCKUP_PERIOD /\ ValidLock(dtLock)
        /\ max + maxMP[v] <= MaxAbsoluteTotalMP(stakedBalance[v] + amount)
        /\ lockEnd <= MaxTime
        /\ UpdateRewardIndex
        /\ SettleRewards({v})
        /\ stakedBalance' = [stakedBalance EXCEPT ![v] = @ + amount]
        /\ mpAccrued' = [mpAccrued EXCEPT ![v] = @ + VaultPendingMP(v) + mp]
        /\ maxMP' = [maxMP EXCEPT ![v] = @ + max]
        /\ lastMPUpdateTime' = [lastMPUpdateTime EXCEPT ![v] = now]
        /\ totalStaked' = totalStaked + amount
        /\ totalMPStaked' = totalMPStaked + VaultPendingMP(v) + mp
        /\ depositedBalance' = [depositedBalance EXCEPT ![v] = @ + amount]
        /\ lockUntil' = [lockUntil EXCEPT ![v] = lockEnd]
        /\ balance' = [balance EXCEPT ![v] = @ + amount]
        /\ wallet' = wallet - amount
        /\ UNCHANGED <<now, adminVars, periodVars, vaultOwners, owner, hasLeft,
                       rewardBalance>>

Lock(v, seconds) ==
    LET lockEnd == Greatest(lockUntil[v], now) + seconds
        bonus   == AccrueMP(stakedBalance[v], seconds)
        due     == VaultPendingMP(v)
    IN  /\ ~hasLeft[v] /\ ActiveVault(v)
        /\ seconds > 0 /\ seconds <= MAX_LOCKUP_PERIOD
        /\ stakedBalance[v] > 0
        /\ ValidLock(lockEnd - now)
        /\ bonus + maxMP[v] <= MaxAbsoluteTotalMP(stakedBalance[v])
        /\ lockEnd <= MaxTime
        /\ UpdateRewardIndex
        /\ SettleRewards({v})
        /\ mpAccrued' = [mpAccrued EXCEPT ![v] = @ + due + bonus]
        /\ maxMP' = [maxMP EXCEPT ![v] = @ + bonus]
        /\ lastMPUpdateTime' = [lastMPUpdateTime EXCEPT
                                   ![v] = IF due > 0 THEN now ELSE @]
        /\ totalMPStaked' = totalMPStaked + due + bonus
        /\ lockUntil' = [lockUntil EXCEPT ![v] = lockEnd]
        /\ UNCHANGED <<now, adminVars, totalStaked, periodVars, vaultOwners,
                       stakedBalance, owner, depositedBalance, hasLeft,
                       tokenVars, rewardBalance>>

\* A vault that has left may still call unstake: there is no onlyNotLeft.
Unstake(v, amount) ==
    LET due  == VaultPendingMP(v)
        mp   == ReduceMP(stakedBalance[v], mpAccrued[v] + due, amount)
        max  == ReduceMP(stakedBalance[v], maxMP[v], amount)
    IN  /\ ActiveVault(v)
        /\ Unlocked(v)
        /\ amount > 0
        /\ amount <= depositedBalance[v] /\ amount <= stakedBalance[v]
        /\ amount <= totalStaked /\ mp <= totalMPStaked + due
        /\ amount <= balance[v]
        /\ UpdateRewardIndex
        /\ SettleRewards({v})
        /\ stakedBalance' = [stakedBalance EXCEPT ![v] = @ - amount]
        /\ mpAccrued' = [mpAccrued EXCEPT ![v] = @ + due - mp]
        /\ maxMP' = [maxMP EXCEPT ![v] = @ - max]
        /\ lastMPUpdateTime' = [lastMPUpdateTime EXCEPT
                                   ![v] = IF due > 0 THEN now ELSE @]
        /\ totalStaked' = totalStaked - amount
        /\ totalMPStaked' = totalMPStaked + due - mp
        /\ depositedBalance' = [depositedBalance EXCEPT ![v] = @ - amount]
        /\ balance' = [balance EXCEPT ![v] = @ - amount]
        /\ wallet' = wallet + amount
        /\ UNCHANGED <<now, adminVars, periodVars, vaultOwners, owner,
                       lockUntil, hasLeft, rewardBalance>>

\* delete vaultData[v]
DeleteVaultData(v) ==
    /\ stakedBalance' = [stakedBalance EXCEPT ![v] = 0]
    /\ mpAccrued' = [mpAccrued EXCEPT ![v] = 0]
    /\ maxMP' = [maxMP EXCEPT ![v] = 0]
    /\ lastMPUpdateTime' = [lastMPUpdateTime EXCEPT ![v] = 0]
    /\ rewardIndex' = [rewardIndex EXCEPT ![v] = 0]
    /\ rewardsAccrued' = [rewardsAccrued EXCEPT ![v] = 0]

\* Fault: the vault's MPs stay in the total.
ManagerLeaveKeepsMP(v) ==
    /\ totalStaked' = totalStaked - stakedBalance[v]
    /\ totalMPStaked' = totalMPStaked
    /\ DeleteVaultData(v)
    /\ vaultOwners' = [vaultOwners EXCEPT ![v] = NoAccount]

\* StakeManager.leave: the unsettled and the accrued rewards are dropped.
ManagerLeave(v) ==
    /\ totalStaked' = totalStaked - stakedBalance[v]
    /\ totalMPStaked' = totalMPStaked - mpAccrued[v]
    /\ DeleteVaultData(v)
    /\ vaultOwners' = [vaultOwners EXCEPT ![v] = NoAccount]

\* The manager rejects the call, or one of its subtractions would underflow.
ManagerLeaveReverts(v) ==
    ~trusted \/ stakedBalance[v] > totalStaked \/ mpAccrued[v] > totalMPStaked

\* Fault: only the deposit is released, tokens sent to the vault stay.
ReleaseDeposit(v) ==
    IF Unlocked(v)
    THEN /\ depositedBalance' = [depositedBalance EXCEPT ![v] = 0]
         /\ balance' = [balance EXCEPT ![v] = @ - depositedBalance[v]]
         /\ wallet' = wallet + depositedBalance[v]
    ELSE UNCHANGED <<depositedBalance, tokenVars>>

\* Everything the vault holds goes to the destination, if it is unlocked.
ReleaseFunds(v) ==
    IF Unlocked(v)
    THEN /\ depositedBalance' = [depositedBalance EXCEPT ![v] = 0]
         /\ balance' = [balance EXCEPT ![v] = 0]
         /\ wallet' = wallet + balance[v]
    ELSE UNCHANGED <<depositedBalance, tokenVars>>

\* StakeVault.leave ignores the outcome of the low-level call to the manager.
Leave(v) ==
    /\ owner[v] # NoAccount
    /\ hasLeft' = [hasLeft EXCEPT ![v] = TRUE]
    /\ \/ ~ManagerLeaveReverts(v) /\ ManagerLeave(v)
       \/ /\ ManagerLeaveReverts(v)
          /\ UNCHANGED <<totalVars, mpVars, claimVars, vaultOwners>>
    /\ ReleaseFunds(v)
    /\ UNCHANGED <<now, adminVars, indexVars, periodVars, owner, lockUntil,
                   rewardBalance>>

\* Everything the manager and the vault hold of v moves to w.
MoveVault(v, w) ==
    LET moved(f, x) == [f EXCEPT ![w] = x, ![v] = 0]
    IN  /\ UpdateRewardIndex
        /\ stakedBalance' = moved(stakedBalance, stakedBalance[v])
        /\ mpAccrued' = moved(mpAccrued, mpAccrued[v] + VaultPendingMP(v))
        /\ maxMP' = moved(maxMP, maxMP[v])
        /\ lastMPUpdateTime' = moved(lastMPUpdateTime,
               IF VaultPendingMP(v) > 0 THEN now ELSE lastMPUpdateTime[v])
        /\ rewardIndex' = moved(rewardIndex, NewRewardIndex)
        /\ rewardsAccrued' = moved(rewardsAccrued,
               rewardsAccrued[v] + VaultPendingRewards(v))
        /\ totalMPStaked' = totalMPStaked + VaultPendingMP(v)
        /\ lockUntil' = moved(lockUntil, lockUntil[v])
        /\ depositedBalance' = moved(depositedBalance, depositedBalance[v])
        /\ balance' = moved(balance, balance[w] + balance[v])

MigrateToVault(v, w) ==
    /\ ~hasLeft[v] /\ ActiveVault(v)
    /\ w # v /\ ~hasLeft[w] /\ owner[w] = owner[v]
    /\ Registered(w) /\ stakedBalance[w] = 0 /\ rewardsAccrued[w] = 0
    /\ MoveVault(v, w)
    /\ vaultOwners' = [vaultOwners EXCEPT ![v] = NoAccount]
    /\ UNCHANGED <<now, adminVars, totalStaked, periodVars, owner, hasLeft,
                   wallet, rewardBalance>>

\* replaceVault: the manager has the factory create w, registers it without
\* looking at maxVaultsPerUser, and v migrates to it in the same transaction.
ReplaceVault(v, w) ==
    /\ ~hasLeft[v] /\ ActiveVault(v)
    /\ owner[w] = NoAccount
    /\ MoveVault(v, w)
    /\ owner' = [owner EXCEPT ![w] = vaultOwners[v]]
    /\ vaultOwners' = [vaultOwners EXCEPT ![w] = vaultOwners[v], ![v] = NoAccount]
    /\ UNCHANGED <<now, adminVars, totalStaked, periodVars, hasLeft, wallet,
                   rewardBalance>>

Withdraw(v, amount) ==
    /\ owner[v] # NoAccount
    /\ amount <= balance[v]
    /\ amount > Excess(v) => Unlocked(v) /\ hasLeft[v]
    /\ depositedBalance' = [depositedBalance EXCEPT
                               ![v] = @ - Greatest(amount - Excess(v), 0)]
    /\ balance' = [balance EXCEPT ![v] = @ - amount]
    /\ wallet' = wallet + amount
    /\ UNCHANGED <<now, adminVars, totalVars, indexVars, periodVars,
                   vaultOwners, mpVars, claimVars, owner, lockUntil, hasLeft,
                   rewardBalance>>

EmergencyExit(v) ==
    /\ owner[v] # NoAccount
    /\ emergencyModeEnabled
    /\ depositedBalance' = [depositedBalance EXCEPT ![v] = 0]
    /\ balance' = [balance EXCEPT ![v] = 0]
    /\ wallet' = wallet + balance[v]
    /\ UNCHANGED <<now, adminVars, totalVars, indexVars, periodVars,
                   vaultOwners, mpVars, claimVars, owner, lockUntil, hasLeft,
                   rewardBalance>>

\* Anyone may send SNT to a vault without staking it.
Donate(v, amount) ==
    /\ owner[v] # NoAccount
    /\ amount <= wallet
    /\ balance' = [balance EXCEPT ![v] = @ + amount]
    /\ wallet' = wallet - amount
    /\ UNCHANGED <<now, adminVars, totalVars, indexVars, periodVars,
                   vaultOwners, mpVars, claimVars, vaultVars, rewardBalance>>

----------------------------------------------------------------------------
(* StakeManager operations anyone, the Karma contract or an admin may call  *)

UpdateRewards ==
    /\ Active
    /\ UpdateVaults({})
    /\ UNCHANGED <<now, adminVars, periodVars, vaultOwners, vaultVars,
                   tokenVars, rewardBalance>>

UpdateVault(v) ==
    /\ Active
    /\ UpdateVaults({v})
    /\ UNCHANGED <<now, adminVars, periodVars, vaultOwners, vaultVars,
                   tokenVars, rewardBalance>>

UpdateAccount(a) ==
    /\ Active
    /\ UpdateVaults(VaultsOf(a))
    /\ UNCHANGED <<now, adminVars, periodVars, vaultOwners, vaultVars,
                   tokenVars, rewardBalance>>

\* Karma an account would redeem now.
Redeemable(a) ==
    MapThenSumSet(LAMBDA v : rewardsAccrued[v] + VaultPendingRewards(v), VaultsOf(a))

RedeemRewards(a) ==
    LET redeemed == Redeemable(a)
    IN  /\ Active
        /\ redeemed <= totalRewardsAccrued + AccruedRewards
        /\ redeemed <= rewardBalance
        /\ totalRewardsAccrued' = totalRewardsAccrued + AccruedRewards - redeemed
        /\ lastRewardIndex' = NewRewardIndex
        /\ lastRewardTime' = IF NewRewardIndex > lastRewardIndex
                             THEN Least(now, rewardEndTime) ELSE lastRewardTime
        /\ rewardIndex' = [v \in Vaults |-> IF v \in VaultsOf(a)
                                            THEN NewRewardIndex ELSE rewardIndex[v]]
        /\ rewardsAccrued' = [v \in Vaults |-> IF v \in VaultsOf(a) THEN 0
                                               ELSE rewardsAccrued[v]]
        /\ AccrueMPs(VaultsOf(a))
        /\ rewardBalance' = rewardBalance - redeemed
        /\ UNCHANGED <<now, adminVars, totalStaked, periodVars, vaultOwners,
                       stakedBalance, maxMP, vaultVars, tokenVars>>

\* Karma._setReward mints the reward to the manager and calls setReward.
SetReward(amount, duration) ==
    /\ Active
    /\ amount > 0 /\ duration > 0
    /\ rewardBalance + amount <= MaxRewards
    /\ now + duration <= MaxTime
    /\ totalRewardsAccrued' = totalRewardsAccrued + AccruedRewards
    /\ lastRewardIndex' = NewRewardIndex
    /\ lastRewardTime' = now
    /\ rewardAmount' = RemainingRewards + amount
    /\ rewardStartTime' = now
    /\ rewardEndTime' = now + duration
    /\ rewardBalance' = rewardBalance + amount
    /\ UNCHANGED <<now, adminVars, totalVars, vaultOwners, mpVars, claimVars,
                   vaultVars, tokenVars>>

EnableEmergencyMode ==
    /\ ~emergencyModeEnabled
    /\ emergencyModeEnabled' = TRUE
    /\ UNCHANGED <<now, paused, trusted, totalVars, indexVars, periodVars,
                   vaultOwners, mpVars, claimVars, vaultVars, tokenVars,
                   rewardBalance>>

Pause ==
    /\ ~emergencyModeEnabled /\ ~paused
    /\ paused' = TRUE
    /\ UNCHANGED <<now, emergencyModeEnabled, trusted, totalVars, indexVars,
                   periodVars, vaultOwners, mpVars, claimVars, vaultVars,
                   tokenVars, rewardBalance>>

Unpause ==
    /\ ~emergencyModeEnabled /\ paused
    /\ paused' = FALSE
    /\ UNCHANGED <<now, emergencyModeEnabled, trusted, totalVars, indexVars,
                   periodVars, vaultOwners, mpVars, claimVars, vaultVars,
                   tokenVars, rewardBalance>>

SetTrustedCodehash(t) ==
    /\ trusted' = t
    /\ UNCHANGED <<now, paused, emergencyModeEnabled, totalVars, indexVars,
                   periodVars, vaultOwners, mpVars, claimVars, vaultVars,
                   tokenVars, rewardBalance>>

\* The next block.
Tick ==
    /\ now < MaxTime
    /\ now' = now + 1
    /\ UNCHANGED <<adminVars, totalVars, indexVars, periodVars, vaultOwners,
                   mpVars, claimVars, vaultVars, tokenVars, rewardBalance>>

Next ==
    \/ \E v \in Vaults, a \in Accounts : CreateVault(v, a)
    \/ \E v \in Vaults, amount \in Amounts, seconds \in LockPeriods :
          Stake(v, amount, seconds)
    \/ \E v \in Vaults, seconds \in LockPeriods : Lock(v, seconds)
    \/ \E v \in Vaults, amount \in Amounts : Unstake(v, amount)
    \/ \E v \in Vaults : Leave(v)
    \/ \E v, w \in Vaults : MigrateToVault(v, w)
    \/ \E v, w \in Vaults : ReplaceVault(v, w)
    \/ \E v \in Vaults, amount \in Amounts : Withdraw(v, amount)
    \/ \E v \in Vaults : EmergencyExit(v)
    \/ \E v \in Vaults, amount \in Amounts : Donate(v, amount)
    \/ UpdateRewards
    \/ \E v \in Vaults : UpdateVault(v)
    \/ \E a \in Accounts : UpdateAccount(a)
    \/ \E a \in Accounts : RedeemRewards(a)
    \/ \E amount \in RewardAmounts, duration \in RewardDurations :
          SetReward(amount, duration)
    \/ EnableEmergencyMode
    \/ Pause
    \/ Unpause
    \/ \E t \in BOOLEAN : SetTrustedCodehash(t)
    \/ Tick

Spec == Init /\ [][Next]_vars

\* Blocks keep coming, and an owner who has left calls leave() again.
FairSpec ==
    /\ Spec
    /\ WF_vars(Tick)
    /\ \A v \in Vaults : WF_vars(hasLeft[v] /\ Leave(v))

----------------------------------------------------------------------------
(* Properties                                                               *)

\* Types, and a vault is registered only with its owner.
TypeOK ==
    /\ now \in Nat
    /\ paused \in BOOLEAN /\ emergencyModeEnabled \in BOOLEAN /\ trusted \in BOOLEAN
    /\ totalStaked \in Nat /\ totalMPStaked \in Nat
    /\ totalRewardsAccrued \in Nat /\ lastRewardIndex \in Nat
    /\ lastRewardTime \in Nat /\ rewardAmount \in Nat
    /\ rewardStartTime \in Nat /\ rewardEndTime \in Nat
    /\ vaultOwners \in [Vaults -> Accounts \cup {NoAccount}]
    /\ stakedBalance \in [Vaults -> Nat] /\ mpAccrued \in [Vaults -> Nat]
    /\ maxMP \in [Vaults -> Nat] /\ lastMPUpdateTime \in [Vaults -> Nat]
    /\ rewardIndex \in [Vaults -> Nat] /\ rewardsAccrued \in [Vaults -> Nat]
    /\ owner \in [Vaults -> Accounts \cup {NoAccount}]
    /\ lockUntil \in [Vaults -> Nat] /\ depositedBalance \in [Vaults -> Nat]
    /\ hasLeft \in [Vaults -> BOOLEAN]
    /\ balance \in [Vaults -> Nat] /\ wallet \in Nat /\ rewardBalance \in Nat

\* Staking, locking, accrual over time, unstaking with its rounding and
\* migration keep the MPs of every vault between its stake and its maximum,
\* and the maximum between what an unlocked stake earns and the absolute cap.
MPBounds ==
    \A v \in Vaults :
        /\ stakedBalance[v] <= mpAccrued[v]
        /\ mpAccrued[v] <= maxMP[v]
        /\ (1 + MAX_MULTIPLIER) * stakedBalance[v] <= maxMP[v]
        /\ maxMP[v] <= MaxAbsoluteTotalMP(stakedBalance[v])

\* The manager's totals are the sums over its vaults, so that the shares used
\* for the reward index are exactly the shares rewards are paid on, and the
\* subtractions in unstake and leave cannot underflow.
TotalsMatch ==
    /\ totalStaked = SumOver(stakedBalance, Vaults)
    /\ totalMPStaked = SumOver(mpAccrued, Vaults)

\* Each vault holds the tokens it records as deposited; a vault that has not
\* left records exactly what the manager counts as its stake, unless its owner
\* took the emergency exit.
VaultBacked ==
    \A v \in Vaults :
        /\ depositedBalance[v] <= balance[v]
        /\ ~hasLeft[v] /\ ~emergencyModeEnabled =>
              depositedBalance[v] = stakedBalance[v]

\* The manager holds the Karma it owes: what was streamed and not redeemed and
\* what is still to be streamed (setReward carries the remainder over).
RewardsSolvent ==
    totalRewardsAccrued + CalculatePendingRewards + RemainingRewards
        <= rewardBalance

\* redeemRewards never reverts while the distributor is not paused, which
\* Karma.slash relies on: the vaults' claims never exceed the accrued rewards.
ClaimsCovered ==
    /\ \A v \in Vaults : rewardIndex[v] <= lastRewardIndex
    /\ MapThenSumSet(LAMBDA v : rewardsAccrued[v] + VaultPendingRewards(v), Vaults)
          <= totalRewardsAccrued + AccruedRewards

\* The subtractions of timestamps in _rewardIndex and _vaultPendingMP do not
\* underflow, however updates, new reward periods and deletions interleave.
ClocksOrdered ==
    /\ lastRewardTime <= Least(now, rewardEndTime)
    /\ rewardStartTime <= Least(now, rewardEndTime)
    /\ \A v \in Vaults : lastMPUpdateTime[v] <= now

\* Tokens under lock stay: outside emergency mode a step leaves the deposit of
\* a locked vault in it, or moves it to a vault of the same owner with the
\* same lock.  leave(), withdraw() and migrateToVault() are all covered.
LockedFundsStay ==
    [][\A v \in Vaults :
          (/\ depositedBalance[v] > 0 /\ lockUntil[v] > now
           /\ ~emergencyModeEnabled) =>
             \E w \in Vaults :
                /\ balance'[w] >= depositedBalance[v]
                /\ depositedBalance'[w] >= depositedBalance[v]
                /\ lockUntil'[w] >= lockUntil[v]
                /\ owner'[w] = owner[v]]_vars

\* Whoever has left gets every token out, whatever the manager and its admins
\* do meanwhile: pause, emergency mode, distrust of the vault's code.
LeaveCompletes == \A v \in Vaults : hasLeft[v] ~> balance[v] = 0
----------------------------------------------------------------------------
=============================================================================
