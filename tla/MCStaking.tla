----------------------------- MODULE MCStaking -----------------------------
(***************************************************************************)
(* Staking for TLC.  The accounting instance explores every operation      *)
(* without rewards, the rewards instance every operation without admin     *)
(* intervention.                                                           *)
(***************************************************************************)
EXTENDS Staking, TLC

Symmetry == Permutations(Vaults) \cup Permutations(Accounts)

\* For the rewards instance: admins do not intervene, nobody donates SNT.
NoIntervention ==
    /\ ~paused /\ ~emergencyModeEnabled /\ trusted
    /\ \A v \in Vaults : balance[v] = depositedBalance[v]
=============================================================================
