-------------------------------- MODULE RLN --------------------------------
(***************************************************************************)
(* The RLN contract: the registry of identity commitments and the          *)
(* commit-reveal scheme by which whoever has recovered the secret of a     *)
(* member slashes it, together with the slashing of the Karma contract     *)
(* that a reveal calls.                                                    *)
(*                                                                         *)
(* A secret stands for itself and for its identity commitment.  A slash    *)
(* commitment is keyed by its sender and its secret: the hash also covers  *)
(* the reward recipient, which the slasher sets to one address of its own. *)
(***************************************************************************)
EXTENDS Integers

CONSTANTS
  Accounts,         \* addresses of users
  Slashers,         \* addresses that commit, reveal and are rewarded
  Secrets,          \* private keys, of members and others
  NoAccount,        \* address(0)
  Windows,          \* reveal windows the admin chooses from, 1 s to 1 day
  DefaultWindow,    \* 1 hour
  Balances,         \* Karma balances to start from
  MIN_SLASH_AMOUNT, MAX_SLASH_PERCENTAGE, SlashPercentage, SlashRewardPercentage

\* The limits that setSlashRevealWindowTime, setSlashPercentage and
\* setSlashRewardPercentage enforce.
ASSUME RLNAssumption ==
  /\ NoAccount \notin Accounts
  /\ Windows \subseteq Nat \ {0} /\ DefaultWindow \in Windows
  /\ Balances \subseteq Nat
  /\ MIN_SLASH_AMOUNT \in Nat \ {0} /\ MAX_SLASH_PERCENTAGE \in Nat \ {0}
  /\ SlashPercentage \in 0 .. MAX_SLASH_PERCENTAGE
  /\ SlashRewardPercentage \in 0 .. MAX_SLASH_PERCENTAGE

VARIABLES
  now,                    \* block.timestamp
  slashRevealWindowTime,
  members,                \* secret -> userAddress
  slashCommitments,       \* account -> <<sender, secret>> -> revealStartTime
  lastRevealStartTime,    \* account -> time
  karma,                  \* Karma balances, redeemed rewards included
  shortest,               \* history: the shortest window ever set
  registrations, slashes  \* history: of each secret, how often

rln == <<slashRevealWindowTime, members, slashCommitments, lastRevealStartTime,
         karma, shortest, registrations, slashes>>

Keys    == Slashers \X Secrets
Holders == Accounts \cup Slashers

-----------------------------------------------------------------------------
InitRLN ==
  /\ now = 1
  /\ slashRevealWindowTime = DefaultWindow
  /\ members = [i \in Secrets |-> NoAccount]
  /\ slashCommitments = [a \in Accounts |-> [k \in Keys |-> 0]]
  /\ lastRevealStartTime = [a \in Accounts |-> 0]
  /\ \E balance \in Balances : karma = [h \in Holders |-> balance]
  /\ shortest = DefaultWindow
  /\ registrations = [i \in Secrets |-> 0]
  /\ slashes = [i \in Secrets |-> 0]

setSlashRevealWindowTime(w) ==
  /\ slashRevealWindowTime' = w
  /\ shortest' = IF w < shortest THEN w ELSE shortest
  /\ UNCHANGED <<now, members, slashCommitments, lastRevealStartTime, karma,
                 registrations, slashes>>

register(i, a) ==
  /\ members[i] = NoAccount
  /\ members' = [members EXCEPT ![i] = a]
  /\ registrations' = [registrations EXCEPT ![i] = @ + 1]
  /\ UNCHANGED <<now, slashRevealWindowTime, slashCommitments,
                 lastRevealStartTime, karma, shortest, slashes>>

-----------------------------------------------------------------------------
(* Commit *)

\* Fault: the end of the queue is forgotten once its window has started.
RevealStartTimeOfStarted(a) ==
  LET last == lastRevealStartTime[a]
  IN IF last = 0 \/ last < now THEN now ELSE last + slashRevealWindowTime

\* One window after the last commitment on the account, or at once when that
\* time has passed.
RevealStartTime(a) ==
  LET last == lastRevealStartTime[a]
  IN IF last = 0 \/ last + slashRevealWindowTime < now
     THEN now ELSE last + slashRevealWindowTime

slashCommit(sender, a, i) ==
  /\ slashCommitments' =
       [slashCommitments EXCEPT ![a][<<sender, i>>] = RevealStartTime(a)]
  /\ lastRevealStartTime' = [lastRevealStartTime EXCEPT ![a] = RevealStartTime(a)]
  /\ UNCHANGED <<now, slashRevealWindowTime, members, karma, shortest,
                 registrations, slashes>>

-----------------------------------------------------------------------------
(* Reveal *)

\* Fault: small balances round to a slash of nothing.
SlashAmountRounded(balance) ==
  (balance * SlashPercentage) \div MAX_SLASH_PERCENTAGE

\* _calculateSlashAmount and the minimum applied by _slash.
SlashAmount(balance) ==
  LET share == (balance * SlashPercentage) \div MAX_SLASH_PERCENTAGE
      least == IF MIN_SLASH_AMOUNT < balance THEN MIN_SLASH_AMOUNT ELSE balance
  IN IF share < least THEN least ELSE share

Reward(amount) == (amount * SlashRewardPercentage) \div MAX_SLASH_PERCENTAGE

\* Karma._slash: the amount is burnt and the reward minted to the recipient.
\* It reverts for an account without Karma.
Slashed(a, recipient) ==
  LET amount == SlashAmount(karma[a])
      burnt  == [karma EXCEPT ![a] = @ - amount]
  IN [burnt EXCEPT ![recipient] = @ + Reward(amount)]

\* slashReveal does not revert.
Revealable(sender, a, i) ==
  /\ slashCommitments[a][<<sender, i>>] # 0
  /\ now >= slashCommitments[a][<<sender, i>>]
  /\ members[i] = a
  /\ karma[a] > 0

\* Fault: the member is looked up and slashed but stays registered.
slashRevealKeepsMember(sender, a, i) ==
  /\ Revealable(sender, a, i)
  /\ slashCommitments' = [slashCommitments EXCEPT ![a][<<sender, i>>] = 0]
  /\ karma' = Slashed(a, sender)
  /\ slashes' = [slashes EXCEPT ![i] = @ + 1]
  /\ UNCHANGED <<now, slashRevealWindowTime, members, lastRevealStartTime,
                 shortest, registrations>>

slashReveal(sender, a, i) ==
  /\ Revealable(sender, a, i)
  /\ slashCommitments' = [slashCommitments EXCEPT ![a][<<sender, i>>] = 0]
  /\ karma' = Slashed(a, sender)
  /\ members' = [members EXCEPT ![i] = NoAccount]
  /\ slashes' = [slashes EXCEPT ![i] = @ + 1]
  /\ UNCHANGED <<now, slashRevealWindowTime, lastRevealStartTime, shortest,
                 registrations>>

-----------------------------------------------------------------------------
TypeRLN ==
  /\ now \in Nat \ {0}
  /\ slashRevealWindowTime \in Windows
  /\ members \in [Secrets -> Accounts \cup {NoAccount}]
  /\ slashCommitments \in [Accounts -> [Keys -> Nat]]
  /\ lastRevealStartTime \in [Accounts -> Nat]
  /\ karma \in [Holders -> Nat]
  /\ shortest \in Windows
  /\ registrations \in [Secrets -> Nat]
  /\ slashes \in [Secrets -> Nat]

\* Commitments on one account that are not revealed yet never open together:
\* each opens at least one reveal window (the shortest the admin ever set)
\* after the one before it, whoever made them, whatever was committed again or
\* revealed in between and however the window was changed.  So when one of them
\* opens, no other on the account opens within a window of it.
QueueSpaced ==
  \A a \in Accounts : \A k, l \in Keys :
    k # l /\ slashCommitments[a][k] # 0
          /\ slashCommitments[a][k] <= slashCommitments[a][l]
      => slashCommitments[a][k] + shortest <= slashCommitments[a][l]

\* Every registration of a secret is slashed at most once and ends only by a
\* slash, however many slashers hold commitments on it.
OneSlashEach ==
  \A i \in Secrets :
    registrations[i] = slashes[i] + (IF members[i] = NoAccount THEN 0 ELSE 1)

\* No slash is free, however small the balance: the account loses Karma unless
\* it slashes itself, and whoever slashes it gains at most what it loses.
SlashCosts ==
  [][\A a \in Accounts, s \in Slashers, i \in Secrets :
       /\ slashes'[i] # slashes[i] /\ members[i] = a
       /\ slashCommitments'[a][<<s, i>>] # slashCommitments[a][<<s, i>>]
       => /\ karma'[a] <= karma[a]
          /\ s # a => /\ karma'[a] < karma[a]
                      /\ karma'[s] - karma[s] <= karma[a] - karma'[a]
    ]_<<now, rln>>
=============================================================================
