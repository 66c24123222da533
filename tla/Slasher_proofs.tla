--------------------------- MODULE Slasher_proofs ---------------------------
(***************************************************************************)
(* Proofs about the RLN contract and the slashers that call it, for any    *)
(* number of slashers, tasks, accounts and secrets and any windows and     *)
(* percentages within the limits of the contracts.                         *)
(***************************************************************************)
EXTENDS Slasher, TLAPS

\* lastRevealStartTime is the end of the account's queue (RLN.sol:163), and no
\* window was ever shorter than the one the history records.
QueueEnd ==
  /\ \A a \in Accounts : \A k \in Keys :
       slashCommitments[a][k] <= lastRevealStartTime[a]
  /\ shortest <= slashRevealWindowTime

\* The inductive invariant of the contract.
IRLN == TypeRLN /\ QueueEnd /\ QueueSpaced /\ OneSlashEach

IInv == TypeOK /\ IRLN

-----------------------------------------------------------------------------
(* Arithmetic of a slash *)

LEMMA MulMono ==
    ASSUME NEW x \in Nat, NEW y \in Nat, NEW z \in Nat, x <= y
    PROVE  z * x <= z * y
  <1>1. z * (y - x) >= 0
    <2>1. y - x \in Nat  OBVIOUS
    <2>2. \A p, q \in Nat : p * q >= 0  OBVIOUS
    <2> QED  BY <2>1, <2>2
  <1>2. z * (y - x) = z * y - z * x  OBVIOUS
  <1> QED  BY <1>1, <1>2

\* A percentage of an amount is at most the amount.
LEMMA ShareBounds ==
    ASSUME NEW b \in Nat, NEW m \in Nat \ {0}, NEW p \in 0 .. m
    PROVE  (b * p) \div m \in 0 .. b
  <1> DEFINE q == (b * p) \div m
  <1>1. b * p \in Nat  OBVIOUS
  <1>2. b * p <= b * m  BY MulMono
  <1>3. q \in Nat /\ q * m <= b * p
    <2>1. \A x \in Nat, y \in Nat \ {0} : x \div y \in Nat /\ (x \div y) * y <= x
      OBVIOUS
    <2> QED  BY <1>1, <2>1
  <1> HIDE DEF q
  <1>4. q <= b
    <2> SUFFICES ASSUME q >= b + 1 PROVE FALSE  BY <1>3
    <2>1. m * (b + 1) <= m * q  BY <1>3, MulMono
    <2>2. m * (b + 1) = b * m + m /\ m * q = q * m  BY <1>3
    <2> QED  BY <1>1, <1>2, <1>3, <2>1, <2>2
  <1> QED  BY <1>3, <1>4 DEF q

\* Karma._slash (Karma.sol:370) takes at least 1 and at most everything from
\* an account that has Karma, and rewards no more than it takes.
LEMMA SlashBounds ==
    ASSUME NEW b \in Nat \ {0}
    PROVE  /\ SlashAmount(b) \in 1 .. b
           /\ Reward(SlashAmount(b)) \in 0 .. SlashAmount(b)
  <1>1. (b * SlashPercentage) \div MAX_SLASH_PERCENTAGE \in 0 .. b
    BY ShareBounds, RLNAssumption
  <1>2. SlashAmount(b) \in 1 .. b
    BY <1>1, RLNAssumption DEF SlashAmount
  <1>3. SlashAmount(b) \in Nat  BY <1>2
  <1>4. Reward(SlashAmount(b)) \in 0 .. SlashAmount(b)
    BY <1>3, ShareBounds, RLNAssumption DEF Reward
  <1> QED  BY <1>2, <1>4

\* What a slash does to the balances.
LEMMA SlashedBalances ==
    ASSUME TypeRLN, NEW a \in Accounts, NEW s \in Slashers, karma[a] > 0
    PROVE  /\ Slashed(a, s) \in [Holders -> Nat]
           /\ Slashed(a, s)[a] <= karma[a]
           /\ s # a => /\ Slashed(a, s)[a] < karma[a]
                       /\ Slashed(a, s)[s] - karma[s] <= karma[a] - Slashed(a, s)[a]
  <1> DEFINE n == SlashAmount(karma[a])
             r == Reward(n)
  <1>1. a \in Holders /\ s \in Holders  BY DEF Holders
  <1>2. karma \in [Holders -> Nat] /\ karma[a] \in Nat \ {0}  BY <1>1 DEF TypeRLN
  <1>3. n \in 1 .. karma[a] /\ r \in 0 .. n  BY <1>2, SlashBounds
  <1>4. Slashed(a, s) = [[karma EXCEPT ![a] = @ - n] EXCEPT ![s] = @ + r]
    BY DEF Slashed
  <1> HIDE DEF n, r
  <1>5. CASE s = a
    <2>1. Slashed(a, s) = [karma EXCEPT ![a] = karma[a] - n + r]
      BY <1>1, <1>2, <1>4, <1>5
    <2> QED  BY <1>1, <1>2, <1>3, <1>5, <2>1
  <1>6. CASE s # a
    <2>1. /\ Slashed(a, s) = [karma EXCEPT ![a] = karma[a] - n, ![s] = karma[s] + r]
      BY <1>1, <1>2, <1>4, <1>6
    <2>2. karma[s] \in Nat  BY <1>1, <1>2
    <2> QED  BY <1>1, <1>2, <1>3, <1>6, <2>1, <2>2
  <1> QED  BY <1>5, <1>6

-----------------------------------------------------------------------------
(* The operations of the contract *)

\* slashCommit (RLN.sol:163) puts a commitment at the end of the queue, one
\* window after everything in it.
LEMMA StartTime ==
    ASSUME IRLN, NEW a \in Accounts
    PROVE  /\ RevealStartTime(a) \in Nat \ {0}
           /\ lastRevealStartTime[a] <= RevealStartTime(a)
           /\ lastRevealStartTime[a] # 0 =>
                lastRevealStartTime[a] + shortest <= RevealStartTime(a)
  <1>1. /\ lastRevealStartTime[a] \in Nat /\ now \in Nat \ {0}
        /\ slashRevealWindowTime \in Nat \ {0} /\ shortest \in Nat \ {0}
        /\ shortest <= slashRevealWindowTime
    BY RLNAssumption DEF IRLN, TypeRLN, QueueEnd
  <1> QED  BY <1>1 DEF RevealStartTime

LEMMA CommitPreserves ==
    ASSUME IRLN, NEW s \in Slashers, NEW a \in Accounts, NEW i \in Secrets,
           slashCommit(s, a, i)
    PROVE  IRLN'
  <1> DEFINE r == RevealStartTime(a)
             key == <<s, i>>
  <1>1. /\ r \in Nat \ {0} /\ lastRevealStartTime[a] <= r
        /\ lastRevealStartTime[a] # 0 => lastRevealStartTime[a] + shortest <= r
    BY StartTime
  <1>2. key \in Keys  BY DEF Keys
  <1>3. /\ slashCommitments' = [slashCommitments EXCEPT ![a][key] = r]
        /\ lastRevealStartTime' = [lastRevealStartTime EXCEPT ![a] = r]
        /\ UNCHANGED <<now, slashRevealWindowTime, members, karma, shortest,
                       registrations, slashes>>
    BY DEF slashCommit
  <1> HIDE DEF r, key
  <1>4. TypeRLN'
    BY <1>1, <1>2, <1>3 DEF IRLN, TypeRLN
  <1>5. \A b \in Accounts : \A k \in Keys :
          /\ slashCommitments'[b][k] =
               IF b = a /\ k = key THEN r ELSE slashCommitments[b][k]
          /\ slashCommitments[b][k] \in Nat
          /\ lastRevealStartTime[b] \in Nat
          /\ lastRevealStartTime'[b] = IF b = a THEN r ELSE lastRevealStartTime[b]
          /\ slashCommitments[b][k] <= lastRevealStartTime[b]
    BY <1>2, <1>3 DEF IRLN, TypeRLN, QueueEnd
  <1>6. shortest' = shortest /\ shortest \in Nat
    BY <1>3, RLNAssumption DEF IRLN, TypeRLN
  <1>7. QueueEnd'
    <2>1. \A b \in Accounts : \A k \in Keys :
            slashCommitments'[b][k] <= lastRevealStartTime'[b]
      BY <1>1, <1>5
    <2>2. (shortest <= slashRevealWindowTime)'
      BY <1>3 DEF IRLN, QueueEnd
    <2> QED  BY <2>1, <2>2 DEF QueueEnd
  <1>8. QueueSpaced'
    <2> SUFFICES ASSUME NEW b \in Accounts, NEW k \in Keys, NEW l \in Keys, k # l,
                        slashCommitments'[b][k] # 0,
                        slashCommitments'[b][k] <= slashCommitments'[b][l]
                 PROVE  slashCommitments'[b][k] + shortest <= slashCommitments'[b][l]
      BY <1>6 DEF QueueSpaced
    <2>1. CASE b # a \/ (k # key /\ l # key)
      BY <1>5, <2>1 DEF IRLN, QueueSpaced
    <2>2. CASE b = a /\ l = key
      BY <1>1, <1>5, <1>6, <2>2
    <2>3. CASE b = a /\ k = key
      <3>1. slashCommitments'[b][k] = r /\ slashCommitments'[b][l] = slashCommitments[a][l]
        BY <1>5, <2>3
      <3>2. r <= lastRevealStartTime[a] /\ r # 0 /\ r \in Nat
        BY <1>1, <1>5, <3>1
      <3> QED  BY <1>1, <1>5, <1>6, <3>2, RLNAssumption DEF IRLN, TypeRLN
    <2> QED  BY <2>1, <2>2, <2>3
  <1>9. OneSlashEach'
    BY <1>3 DEF IRLN, OneSlashEach
  <1> QED  BY <1>4, <1>7, <1>8, <1>9 DEF IRLN

\* slashReveal (RLN.sol:188) takes the commitment out of the queue and the
\* member out of the registry, and counts as one slash.
LEMMA RevealPreserves ==
    ASSUME IRLN, NEW s \in Slashers, NEW a \in Accounts, NEW i \in Secrets,
           slashReveal(s, a, i)
    PROVE  IRLN'
  <1> DEFINE key == <<s, i>>
  <1>1. key \in Keys  BY DEF Keys
  <1>2. /\ members[i] = a /\ karma[a] > 0
        /\ slashCommitments' = [slashCommitments EXCEPT ![a][key] = 0]
        /\ karma' = Slashed(a, s)
        /\ members' = [members EXCEPT ![i] = NoAccount]
        /\ slashes' = [slashes EXCEPT ![i] = @ + 1]
        /\ UNCHANGED <<now, slashRevealWindowTime, lastRevealStartTime, shortest,
                       registrations>>
    BY DEF slashReveal, Revealable
  <1> HIDE DEF key
  <1>3. karma' \in [Holders -> Nat]
    BY <1>2, SlashedBalances DEF IRLN
  <1>4. TypeRLN'
    BY <1>1, <1>2, <1>3 DEF IRLN, TypeRLN
  <1>5. \A b \in Accounts : \A k \in Keys :
          /\ slashCommitments'[b][k] =
               IF b = a /\ k = key THEN 0 ELSE slashCommitments[b][k]
          /\ slashCommitments[b][k] \in Nat
          /\ lastRevealStartTime[b] \in Nat
    BY <1>1, <1>2 DEF IRLN, TypeRLN
  <1>6. shortest' = shortest /\ shortest \in Nat
    BY <1>2, RLNAssumption DEF IRLN, TypeRLN
  <1>7. QueueEnd'
    BY <1>2, <1>5 DEF IRLN, QueueEnd
  <1>8. QueueSpaced'
    <2> SUFFICES ASSUME NEW b \in Accounts, NEW k \in Keys, NEW l \in Keys, k # l,
                        slashCommitments'[b][k] # 0,
                        slashCommitments'[b][k] <= slashCommitments'[b][l]
                 PROVE  slashCommitments'[b][k] + shortest <= slashCommitments'[b][l]
      BY <1>6 DEF QueueSpaced
    <2>1. /\ slashCommitments'[b][k] = slashCommitments[b][k]
          /\ slashCommitments'[b][l] = slashCommitments[b][l]
      BY <1>5
    <2> QED  BY <2>1 DEF IRLN, QueueSpaced
  <1>9. OneSlashEach'
    <2> SUFFICES ASSUME NEW j \in Secrets
                 PROVE  registrations'[j] = slashes'[j] +
                          (IF members'[j] = NoAccount THEN 0 ELSE 1)
      BY DEF OneSlashEach
    <2>1. /\ registrations[j] = slashes[j] + (IF members[j] = NoAccount THEN 0 ELSE 1)
          /\ slashes[j] \in Nat /\ registrations'[j] = registrations[j]
      BY <1>2 DEF IRLN, OneSlashEach, TypeRLN
    <2>2. CASE j = i
      <3>1. slashes'[j] = slashes[j] + 1 /\ members'[j] = NoAccount /\ members[j] # NoAccount
        BY <1>2, <2>2, RLNAssumption DEF IRLN, TypeRLN
      <3> QED  BY <2>1, <3>1
    <2>3. CASE j # i
      BY <1>2, <2>1, <2>3 DEF IRLN, TypeRLN
    <2> QED  BY <2>2, <2>3
  <1> QED  BY <1>4, <1>7, <1>8, <1>9 DEF IRLN

\* setSlashRevealWindowTime (RLN.sol:125) moves no commitment.
LEMMA WindowPreserves ==
    ASSUME IRLN, NEW w \in Windows, setSlashRevealWindowTime(w)
    PROVE  IRLN'
  <1>1. /\ slashRevealWindowTime' = w
        /\ shortest' = IF w < shortest THEN w ELSE shortest
        /\ UNCHANGED <<now, members, slashCommitments, lastRevealStartTime, karma,
                       registrations, slashes>>
    BY DEF setSlashRevealWindowTime
  <1>2. /\ w \in Nat /\ shortest \in Nat /\ slashRevealWindowTime \in Nat
        /\ shortest <= slashRevealWindowTime
    BY RLNAssumption DEF IRLN, TypeRLN, QueueEnd
  <1>3. shortest' \in Nat /\ shortest' <= shortest /\ shortest' <= w
    BY <1>1, <1>2
  <1>4. TypeRLN'
    BY <1>1 DEF IRLN, TypeRLN
  <1>5. QueueEnd'
    BY <1>1, <1>3 DEF IRLN, QueueEnd
  <1>6. QueueSpaced'
    <2> SUFFICES ASSUME NEW b \in Accounts, NEW k \in Keys, NEW l \in Keys, k # l,
                        slashCommitments[b][k] # 0,
                        slashCommitments[b][k] <= slashCommitments[b][l]
                 PROVE  slashCommitments[b][k] + shortest' <= slashCommitments[b][l]
      BY <1>1 DEF QueueSpaced
    <2>1. slashCommitments[b][k] + shortest <= slashCommitments[b][l]
      BY DEF IRLN, QueueSpaced
    <2>2. slashCommitments[b][k] \in Nat /\ slashCommitments[b][l] \in Nat
      BY DEF IRLN, TypeRLN
    <2> QED  BY <1>2, <1>3, <2>1, <2>2
  <1>7. OneSlashEach'
    BY <1>1 DEF IRLN, OneSlashEach
  <1> QED  BY <1>4, <1>5, <1>6, <1>7 DEF IRLN

\* register (RLN.sol:139) adds a member that was none.
LEMMA RegisterPreserves ==
    ASSUME IRLN, NEW i \in Secrets, NEW a \in Accounts, register(i, a)
    PROVE  IRLN'
  <1>1. /\ members[i] = NoAccount
        /\ members' = [members EXCEPT ![i] = a]
        /\ registrations' = [registrations EXCEPT ![i] = @ + 1]
        /\ UNCHANGED <<now, slashRevealWindowTime, slashCommitments,
                       lastRevealStartTime, karma, shortest, slashes>>
    BY DEF register
  <1>2. TypeRLN'
    BY <1>1 DEF IRLN, TypeRLN
  <1>3. QueueEnd' /\ QueueSpaced'
    BY <1>1 DEF IRLN, QueueEnd, QueueSpaced
  <1>4. OneSlashEach'
    BY <1>1, RLNAssumption DEF IRLN, TypeRLN, OneSlashEach
  <1> QED  BY <1>2, <1>3, <1>4 DEF IRLN

\* Nothing in the contract's invariant depends on the time.
LEMMA TimePreserves ==
    ASSUME IRLN, UNCHANGED rln, now' = now \/ now' = now + 1
    PROVE  IRLN'
  BY DEF IRLN, TypeRLN, QueueEnd, QueueSpaced, OneSlashEach, rln

-----------------------------------------------------------------------------
(* The tasks *)

LEMMA TaskIds ==
    ASSUME NEW t \in Tasks
    PROVE  t[1] \in Slashers
  BY DEF Tasks

\* The action of a task that calls the contract calls it with values of the
\* right type.
LEMMA TaskData ==
    ASSUME TypeOK, NEW t \in Tasks, ~ Idle(t)
    PROVE  /\ task[t] \in Task
           /\ task[t].account \in Accounts /\ task[t].secret \in Secrets
  <1>1. task[t] \in Task
    BY DEF TypeOK, Idle
  <1> QED  BY <1>1 DEF Task

\* Every way a task goes on keeps the type of the tasks.
LEMMA TaskType ==
    ASSUME TypeOK, NEW t \in Tasks,
           \/ End(t)
           \/ ~ Idle(t) /\ \E p \in {"read", "call", "send"} : To(t, p)
           \/ ~ Idle(t) /\ \E at \in Nat : ToWait(t, at)
    PROVE  task' \in [Tasks -> Task \cup {NoTask}]
  <1>1. CASE End(t)
    BY <1>1 DEF TypeOK, End
  <1>2. ASSUME ~ Idle(t), NEW p \in {"read", "call", "send"}, To(t, p)
        PROVE  task' \in [Tasks -> Task \cup {NoTask}]
    <2>1. [task[t] EXCEPT !.phase = p] \in Task
      BY <1>2, TaskData DEF Task
    <2>2. task' = [task EXCEPT ![t] = [task[t] EXCEPT !.phase = p]]
      BY <1>2 DEF To
    <2> QED  BY <2>1, <2>2 DEF TypeOK
  <1>3. ASSUME ~ Idle(t), NEW at \in Nat, ToWait(t, at)
        PROVE  task' \in [Tasks -> Task \cup {NoTask}]
    <2>1. [task[t] EXCEPT !.phase = "wait", !.until = at] \in Task
      BY <1>3, TaskData DEF Task
    <2>2. task' = [task EXCEPT ![t] = [task[t] EXCEPT !.phase = "wait", !.until = at]]
      BY <1>3 DEF ToWait, TypeOK
    <2> QED  BY <2>1, <2>2 DEF TypeOK
  <1> QED  BY <1>1, <1>2, <1>3

-----------------------------------------------------------------------------
(* Every step is one operation of the contract, or none *)

LEMMA StepIsOperation ==
    ASSUME IInv, [Next]_vars
    PROVE  \/ UNCHANGED rln /\ (now' = now \/ now' = now + 1)
           \/ \E s \in Slashers, a \in Accounts, i \in Secrets :
                slashCommit(s, a, i) \/ slashReveal(s, a, i)
           \/ \E w \in Windows : setSlashRevealWindowTime(w)
           \/ \E i \in Secrets, a \in Accounts : register(i, a)
  <1> DEFINE Goal == \/ UNCHANGED rln /\ (now' = now \/ now' = now + 1)
                     \/ \E s \in Slashers, a \in Accounts, i \in Secrets :
                          slashCommit(s, a, i) \/ slashReveal(s, a, i)
                     \/ \E w \in Windows : setSlashRevealWindowTime(w)
                     \/ \E i \in Secrets, a \in Accounts : register(i, a)
  <1>1. ASSUME NEW t \in Tasks, SlashCommit(t)
        PROVE  Goal
    <2>1. ~ Idle(t) /\ slashCommit(t[1], task[t].account, task[t].secret)
      BY <1>1 DEF SlashCommit, At
    <2> QED  BY <2>1, TaskIds, TaskData DEF IInv
  <1>2. ASSUME NEW t \in Tasks, ReadLast(t) \/ RereadLast(t) \/ CallReveal(t)
        PROVE  Goal
    BY <1>2 DEF ReadLast, RereadLast, CallReveal
  <1>3. ASSUME NEW t \in Tasks, SendReveal(t)
        PROVE  Goal
    <2>1. /\ ~ Idle(t)
          /\ slashReveal(t[1], task[t].account, task[t].secret) \/ UNCHANGED <<now, rln>>
      BY <1>3 DEF SendReveal, At
    <2> QED  BY <2>1, TaskIds, TaskData DEF IInv
  <1>4. ASSUME NEW t \in Tasks, NodeFails(t)
        PROVE  Goal
    <2>1. /\ ~ Idle(t)
          /\ \/ slashReveal(t[1], task[t].account, task[t].secret)
             \/ slashCommit(t[1], task[t].account, task[t].secret)
             \/ UNCHANGED <<now, rln>>
      BY <1>4 DEF NodeFails
    <2> QED  BY <2>1, TaskIds, TaskData DEF IInv
  <1>5. ASSUME NEW t \in Tasks, NEW a \in Accounts, NEW i \in Secrets, Start(t, a, i)
        PROVE  Goal
    BY <1>5 DEF Start
  <1>6. CASE SetWindow
    BY <1>6 DEF SetWindow
  <1>7. CASE Register
    BY <1>7 DEF Register
  <1>8. CASE Tick
    BY <1>8 DEF Tick
  <1>9. CASE UNCHANGED vars
    BY <1>9 DEF vars
  <1> QED
    BY <1>1, <1>2, <1>3, <1>4, <1>5, <1>6, <1>7, <1>8, <1>9 DEF Next, Step

LEMMA ContractInductive ==
    ASSUME IInv, [Next]_vars
    PROVE  IRLN'
  <1>1. IRLN  BY DEF IInv
  <1> QED
    BY <1>1, StepIsOperation, CommitPreserves, RevealPreserves, WindowPreserves,
       RegisterPreserves, TimePreserves

\* The tasks and the counters keep their types.
LEMMA TasksInductive ==
    ASSUME IInv, [Next]_vars
    PROVE  /\ task' \in [Tasks -> Task \cup {NoTask}]
           /\ commits' \in 0 .. MaxCommits /\ errors' \in 0 .. MaxErrors
           /\ changes' \in 0 .. MaxWindowChanges
  <1> DEFINE Goal == /\ task' \in [Tasks -> Task \cup {NoTask}]
                     /\ commits' \in 0 .. MaxCommits /\ errors' \in 0 .. MaxErrors
                     /\ changes' \in 0 .. MaxWindowChanges
  <1>1. /\ TypeOK /\ task \in [Tasks -> Task \cup {NoTask}]
        /\ commits \in 0 .. MaxCommits /\ errors \in 0 .. MaxErrors
        /\ changes \in 0 .. MaxWindowChanges
        /\ lastRevealStartTime \in [Accounts -> Nat]
    BY DEF IInv, TypeOK, TypeRLN
  <1>2. ASSUME NEW t \in Tasks, SlashCommit(t) \/ CallReveal(t) \/ SendReveal(t)
        PROVE  Goal
    <2>1. /\ End(t) \/ (~ Idle(t) /\ (To(t, "read") \/ To(t, "send")))
          /\ UNCHANGED <<commits, errors, changes>>
      BY <1>2 DEF SlashCommit, CallReveal, SendReveal, At
    <2> QED  BY <1>1, <2>1, TaskType
  <1>3. ASSUME NEW t \in Tasks, ReadLast(t) \/ RereadLast(t)
        PROVE  Goal
    <2>1. /\ ~ Idle(t)
          /\ ToWait(t, lastRevealStartTime[task[t].account]) \/ To(t, "call")
          /\ UNCHANGED <<commits, errors, changes>>
      BY <1>3 DEF ReadLast, RereadLast, At
    <2>2. lastRevealStartTime[task[t].account] \in Nat
      BY <1>1, <2>1, TaskData
    <2> QED  BY <1>1, <2>1, <2>2, TaskType
  <1>4. ASSUME NEW t \in Tasks, NodeFails(t)
        PROVE  Goal
    <2>1. /\ End(t) \/ (~ Idle(t) /\ To(t, "send"))
          /\ errors < MaxErrors /\ errors' = errors + 1
          /\ UNCHANGED <<commits, changes>>
      BY <1>4 DEF NodeFails
    <2>2. task' \in [Tasks -> Task \cup {NoTask}]
      BY <1>1, <2>1, TaskType
    <2> QED  BY <1>1, <2>1, <2>2, SlasherAssumption
  <1>5. ASSUME NEW t \in Tasks, NEW a \in Accounts, NEW i \in Secrets, Start(t, a, i)
        PROVE  Goal
    <2>1. [phase |-> "commit", account |-> a, secret |-> i, until |-> 0] \in Task
      BY DEF Task
    <2> QED  BY <1>1, <1>5, <2>1, SlasherAssumption DEF Start
  <1>6. CASE SetWindow
    BY <1>1, <1>6, SlasherAssumption DEF SetWindow
  <1>7. CASE Register \/ Tick \/ UNCHANGED vars
    BY <1>1, <1>7 DEF Register, Tick, vars
  <1> QED
    BY <1>2, <1>3, <1>4, <1>5, <1>6, <1>7 DEF Next, Step

-----------------------------------------------------------------------------
(* The results *)

\* The contract's registry, queue and balances (RLN.sol, Karma.sol) and the
\* slashers' tasks satisfy the inductive invariant in every reachable state.
THEOREM Invariance == Spec => []IInv
  <1>1. Init => IInv
    <2> SUFFICES ASSUME Init PROVE IInv  OBVIOUS
    <2>1. PICK balance \in Balances : karma = [h \in Holders |-> balance]
      BY DEF Init, InitRLN
    <2>2. TypeRLN
      BY <2>1, RLNAssumption DEF Init, InitRLN, TypeRLN
    <2>3. TypeOK
      BY <2>2, SlasherAssumption DEF Init, TypeOK
    <2>4. QueueEnd /\ QueueSpaced /\ OneSlashEach
      BY RLNAssumption DEF Init, InitRLN, QueueEnd, QueueSpaced, OneSlashEach
    <2> QED  BY <2>2, <2>3, <2>4 DEF IInv, IRLN
  <1>2. IInv /\ [Next]_vars => IInv'
    <2> SUFFICES ASSUME IInv, [Next]_vars PROVE IInv'  OBVIOUS
    <2> QED  BY ContractInductive, TasksInductive DEF IInv, IRLN, TypeOK
  <1> QED  BY <1>1, <1>2, PTL DEF Spec

\* Commitments on one account open one reveal window apart (RLN.sol:163),
\* whoever made them and however often the window was changed.
THEOREM QueueIsSpaced == Spec => []QueueSpaced
  <1>1. IInv => QueueSpaced  BY DEF IInv, IRLN
  <1> QED  BY <1>1, Invariance, PTL

\* Each registration is slashed at most once and ends only so (RLN.sol:188).
THEOREM SlashedOnce == Spec => []OneSlashEach
  <1>1. IInv => OneSlashEach  BY DEF IInv, IRLN
  <1> QED  BY <1>1, Invariance, PTL

\* A slash (Karma.sol:370) takes Karma from the account and gives the slasher
\* no more than that, for every balance and every admissible percentage.
THEOREM SlashAlwaysCosts == Spec => SlashCosts
  <1> DEFINE Costs ==
        \A a \in Accounts, s \in Slashers, i \in Secrets :
          /\ slashes'[i] # slashes[i] /\ members[i] = a
          /\ slashCommitments'[a][<<s, i>>] # slashCommitments[a][<<s, i>>]
          => /\ karma'[a] <= karma[a]
             /\ s # a => /\ karma'[a] < karma[a]
                         /\ karma'[s] - karma[s] <= karma[a] - karma'[a]
  <1>1. IInv /\ [Next]_vars => [Costs]_<<now, rln>>
    <2> SUFFICES ASSUME IInv, [Next]_vars,
                        NEW a \in Accounts, NEW s \in Slashers, NEW i \in Secrets,
                        slashes'[i] # slashes[i], members[i] = a,
                        slashCommitments'[a][<<s, i>>] # slashCommitments[a][<<s, i>>]
                 PROVE  /\ karma'[a] <= karma[a]
                        /\ s # a => /\ karma'[a] < karma[a]
                                    /\ karma'[s] - karma[s] <= karma[a] - karma'[a]
      OBVIOUS
    <2>1. PICK r \in Slashers, b \in Accounts, j \in Secrets : slashReveal(r, b, j)
      BY StepIsOperation DEF slashCommit, setSlashRevealWindowTime, register, rln
    <2>2. /\ slashes' = [slashes EXCEPT ![j] = @ + 1]
          /\ slashCommitments' = [slashCommitments EXCEPT ![b][<<r, j>>] = 0]
          /\ members[j] = b /\ karma[b] > 0 /\ karma' = Slashed(b, r)
      BY <2>1 DEF slashReveal, Revealable
    <2>3. /\ slashes \in [Secrets -> Nat]
          /\ slashCommitments \in [Accounts -> [Keys -> Nat]]
          /\ <<s, i>> \in Keys /\ TypeRLN
      BY DEF IInv, TypeOK, TypeRLN, Keys
    <2>4. i = j /\ a = b
      BY <2>2, <2>3
    <2>5. s = r
      BY <2>2, <2>3, <2>4
    <2> QED  BY <2>2, <2>3, <2>4, <2>5, SlashedBalances
  <1>2. Spec => [][Costs]_<<now, rln>>
    BY <1>1, Invariance, PTL DEF Spec
  <1> QED  BY <1>2 DEF SlashCosts
=============================================================================
