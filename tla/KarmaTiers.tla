----------------------------- MODULE KarmaTiers -----------------------------
(***************************************************************************)
(* Tier limits: the KarmaTiers contract, which the owner updates, and the  *)
(* copy the prover keeps in PostgreSQL.  The prover reads all tiers when   *)
(* it starts, then subscribes to TiersUpdated; the listener stores what it *)
(* reads in the NEXT row, and the user database service moves NEXT to      *)
(* CURRENT when the epoch service announces a new slice.                   *)
(*                                                                         *)
(* A list of tiers is a sequence of records [name, min, max, tx].          *)
(***************************************************************************)
EXTENDS Integers, Sequences, FiniteSetsExt

CONSTANTS
  Inputs,      \* tier lists the owner submits
  Initial,     \* the tiers at deployment
  Null,        \* SQL NULL
  MaxUpdates, MaxCrashes, MaxErrors   \* bounds

VARIABLES
  chain,       \* KarmaTiers.tiers
  current,     \* tier_limits, row CURRENT
  next,        \* tier_limits, row NEXT
  up,          \* the prover process runs
  listener,    \* TiersListener: "none" (not subscribed yet), "open" or "ended"
  logs,        \* TiersUpdated logs not yet handled
  reading,     \* the tier count the listener has read, 0 when it is idle
  permit,      \* epoch_changes: a stored notification
  astray,      \* history: the copy is off until a log is handled, see below
  updates, crashes, errors

vars == <<chain, current, next, up, listener, logs, reading, permit, astray, updates,
          crashes, errors>>

-----------------------------------------------------------------------------
(* Validation and look-up *)

\* updateTiers accepts a list; an empty name stands for every invalid name.
Accepts(tiers) ==
  /\ tiers # << >> /\ tiers[1].min = 0
  /\ \A i \in DOMAIN tiers :
       /\ tiers[i].name # "" /\ tiers[i].min <= tiers[i].max
       /\ i > 1 => tiers[i].min = tiers[i - 1].max + 1

\* TierLimits::validate of the prover.
Validate(tiers) ==
  \A i \in DOMAIN tiers :
    /\ tiers[i].min <= tiers[i].max
    /\ i > 1 => /\ tiers[i].min > tiers[i - 1].min /\ tiers[i].min > tiers[i - 1].max
                /\ tiers[i].tx > tiers[i - 1].tx
    /\ \A j \in 1 .. i - 1 : tiers[j].name # tiers[i].name

\* Fault: a balance equal to a tier's minimum is left in the tier below.
TierIdBelow(tiers, karma) ==
  LET unmet == {i \in DOMAIN tiers : karma <= tiers[i].min}
  IN IF unmet = {} THEN Len(tiers) ELSE Min(unmet) - 1

\* getTierIdByKarmaBalance, counting tiers from 1.
GetTierIdByKarmaBalance(tiers, karma) ==
  LET unmet == {i \in DOMAIN tiers : karma < tiers[i].min}
  IN IF unmet = {} THEN Len(tiers) ELSE Min(unmet) - 1

\* get_tier_by_karma: the tier at which the search stops, if it contains the
\* balance; 0 when the balance is under the lowest or above the highest tier.
GetTierByKarma(tiers, karma) ==
  LET stop == {i \in DOMAIN tiers : karma < tiers[i].min \/ karma <= tiers[i].max}
  IN IF stop = {} \/ karma < tiers[Min(stop)].min THEN 0 ELSE Min(stop)

-----------------------------------------------------------------------------

(* astray: the process does not hear of an update, because it has not       *)
(* subscribed yet or its listener has ended; it reads an update and cannot  *)
(* store it; or it starts with limits of an earlier process in NEXT, which  *)
(* UserDb2::new leaves there.  The next list that is read and stored is     *)
(* the contract's again.                                                    *)

Init ==
  /\ chain = Initial /\ current = Initial /\ next = Null
  /\ up = TRUE /\ listener = "none"
  /\ logs = 0 /\ reading = 0 /\ permit = FALSE
  /\ astray = FALSE
  /\ updates = 0 /\ crashes = 0 /\ errors = 0

\* The owner updates the tiers; a log reaches open subscriptions only.
UpdateTiers(tiers) ==
  /\ updates < MaxUpdates /\ Accepts(tiers)
  /\ chain' = tiers
  /\ logs' = IF listener = "open" THEN logs + 1 ELSE logs
  /\ astray' = (astray \/ (up /\ listener # "open"))
  /\ updates' = updates + 1
  /\ UNCHANGED <<current, next, up, listener, reading, permit, crashes, errors>>

\* TiersListener::listen opens its subscription.
Subscribe ==
  /\ up /\ listener = "none"
  /\ listener' = "open"
  /\ UNCHANGED <<chain, current, next, up, logs, reading, permit, astray, updates, crashes,
                 errors>>

\* A log is taken up: the number of tiers is read ...
ReadCount ==
  /\ logs > 0 /\ reading = 0
  /\ logs' = logs - 1
  /\ reading' = Len(chain)
  /\ UNCHANGED <<chain, current, next, up, listener, permit, astray, updates, crashes,
                 errors>>

\* A statement of the database fails.
DbError ==
  /\ errors < MaxErrors
  /\ errors' = errors + 1

\* Fault: an update that is already waiting is kept.
SetTierLimitsOnce(tiers) == IF next = Null THEN tiers ELSE next

SetTierLimits(tiers) == tiers

\* on_tier_limits_updated: a list that does not validate is ignored, and so is
\* an error of the database.  The listener logs both and goes on.
OnTierLimitsUpdated(tiers) ==
  \/ /\ Validate(tiers)
     /\ next' = SetTierLimits(tiers) /\ astray' = FALSE
     /\ UNCHANGED errors
  \/ /\ Validate(tiers) /\ DbError
     /\ astray' = TRUE
     /\ UNCHANGED next
  \/ /\ ~ Validate(tiers)
     /\ UNCHANGED <<next, astray, errors>>

\* ... and then that many tiers.  A failed call ends the listener.
ReadTiers ==
  /\ reading > 0 /\ reading' = 0
  /\ \/ /\ reading <= Len(chain)
        /\ OnTierLimitsUpdated(SubSeq(chain, 1, reading))
        /\ UNCHANGED <<listener, logs>>
     \/ /\ listener' = "ended" /\ logs' = 0
        /\ astray' = TRUE
        /\ UNCHANGED <<next, errors>>
  /\ UNCHANGED <<chain, current, up, permit, updates, crashes>>

\* Fault: the user database service is not notified.
NewSliceSilent ==
  /\ up
  /\ UNCHANGED vars

\* The epoch service begins a slice: notify_one stores a permit.
NewSlice ==
  /\ up
  /\ permit' = TRUE
  /\ UNCHANGED <<chain, current, next, up, listener, logs, reading, astray, updates, crashes,
                 errors>>

Applied(limits, waiting) == IF waiting = Null THEN limits ELSE waiting

\* The user database service wakes up: update_current_tier_limits moves NEXT to
\* CURRENT in one statement, or fails and is logged.
OnEpochChange ==
  /\ up /\ permit
  /\ permit' = FALSE
  /\ \/ current' = Applied(current, next) /\ next' = Null /\ UNCHANGED errors
     \/ DbError /\ UNCHANGED <<current, next>>
  /\ UNCHANGED <<chain, up, listener, logs, reading, astray, updates, crashes>>

Crash ==
  /\ up /\ crashes < MaxCrashes
  /\ crashes' = crashes + 1
  /\ up' = FALSE /\ listener' = "none"
  /\ logs' = 0 /\ reading' = 0 /\ permit' = FALSE
  /\ UNCHANGED <<chain, current, next, astray, updates, errors>>

\* run_prover reads the tiers and refuses to start on invalid ones;
\* UserDb2::new writes them to the CURRENT row.
Start ==
  /\ ~ up /\ Validate(chain)
  /\ up' = TRUE /\ current' = chain
  /\ astray' = (next # Null)
  /\ UNCHANGED <<chain, next, listener, logs, reading, permit, updates, crashes, errors>>

Next ==
  \/ \E tiers \in Inputs : UpdateTiers(tiers)
  \/ Subscribe \/ ReadCount \/ ReadTiers
  \/ NewSlice \/ OnEpochChange
  \/ Crash \/ Start

Spec == Init /\ [][Next]_vars

\* Slices follow each other as time passes, and the service is a running task.
FairSpec == Spec /\ WF_vars(NewSlice) /\ WF_vars(OnEpochChange)
-----------------------------------------------------------------------------

\* For every list the contract accepts, contract and prover find the same tier
\* for every balance up to the highest tier's maximum.
LookupsAgree ==
  \A karma \in 0 .. chain[Len(chain)].max :
    /\ GetTierIdByKarmaBalance(chain, karma) = GetTierByKarma(chain, karma)
    /\ GetTierByKarma(chain, karma) # 0

Quiescent == up /\ listener = "open" /\ logs = 0 /\ reading = 0 /\ next = Null

\* "The prover's TiersListener watches for tier updates on-chain and syncs them
\* to PostgreSQL": once every log is handled and NEXT is applied, the limits in
\* force are the contract's.  It is enough that they validate and that one list
\* was stored since the copy last went astray: whatever was missed, could not be
\* written or came from the NEXT row of an earlier process, and however slices,
\* failed statements and updates fall between two readings, the next log that
\* is handled repairs it.
TiersSynced == Quiescent /\ ~ astray /\ Validate(chain) => current = chain

\* Limits waiting in the NEXT row come into force as long as the process runs.
NextApplied == (next # Null) ~> (next = Null \/ ~ up)
=============================================================================
