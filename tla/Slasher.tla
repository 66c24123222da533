------------------------------ MODULE Slasher ------------------------------
(***************************************************************************)
(* The slashing service of the slasher, once per slasher address, against  *)
(* the RLN contract.  Two proofs of one account that share a nullifier     *)
(* give the secret; a task of the service then commits, waits until the    *)
(* last commitment on the account may be revealed, and reveals.            *)
(*                                                                         *)
(* A slasher runs at most as many tasks as its semaphore has permits, and  *)
(* may run several for one account: every further proof of a spammer is    *)
(* new slashing data.  Other users of the contract are slashers too.       *)
(***************************************************************************)
EXTENDS RLN

CONSTANTS
  SlashingLimit,    \* slasher -> the permits of its semaphore
  MaxTime, MaxCommits, MaxErrors, MaxWindowChanges, MaxRegistrations   \* bounds

ASSUME SlasherAssumption ==
  /\ SlashingLimit \in [Slashers -> Nat]
  /\ MaxCommits \in Nat /\ MaxErrors \in Nat /\ MaxWindowChanges \in Nat

VARIABLES
  task,      \* <<slasher, permit>> -> the task that holds the permit
  commits,   \* number of tasks started
  errors,    \* number of failed calls of the node
  changes    \* number of window changes

vars == <<now, rln, task, commits, errors, changes>>

Tasks == UNION {{s} \X (1 .. SlashingLimit[s]) : s \in Slashers}

\* A task has the account and the recovered secret, and waits for a time.
Task   == [phase : {"commit", "read", "wait", "call", "send"},
           account : Accounts, secret : Secrets, until : Nat]
NoTask == [phase |-> "idle"]

Idle(t)       == task[t] = NoTask
At(t, p)      == ~ Idle(t) /\ task[t].phase = p
To(t, p)      == task' = [task EXCEPT ![t].phase = p]
ToWait(t, at) == task' = [task EXCEPT ![t].phase = "wait", ![t].until = at]
End(t)        == task' = [task EXCEPT ![t] = NoTask]

-----------------------------------------------------------------------------
Init ==
  /\ InitRLN
  /\ task = [t \in Tasks |-> NoTask]
  /\ commits = 0
  /\ errors = 0
  /\ changes = 0

\* Slashing data arrives and a permit is free; without one it is skipped.
\* Permits are alike, so the first free one is taken.
\* The secret recovered from two proofs without a common nullifier is that of
\* nobody, or of nobody with this account.
Start(t, a, i) ==
  /\ Idle(t) /\ \A p \in 1 .. t[2] - 1 : ~ Idle(<<t[1], p>>)
  /\ commits < MaxCommits
  /\ task' = [task EXCEPT ![t] =
                [phase |-> "commit", account |-> a, secret |-> i, until |-> 0]]
  /\ commits' = commits + 1
  /\ UNCHANGED <<now, rln, errors, changes>>

SlashCommit(t) ==
  /\ At(t, "commit")
  /\ slashCommit(t[1], task[t].account, task[t].secret)
  /\ To(t, "read")
  /\ UNCHANGED <<commits, errors, changes>>

ReadLast(t) ==
  /\ At(t, "read")
  /\ ToWait(t, lastRevealStartTime[task[t].account])
  /\ UNCHANGED <<now, rln, commits, errors, changes>>

\* Fault: after waiting, the time is read again but always found to be later.
RereadLastAgain(t) ==
  /\ At(t, "wait") /\ now >= task[t].until
  /\ ToWait(t, lastRevealStartTime[task[t].account])
  /\ UNCHANGED <<now, rln, commits, errors, changes>>

\* Fault: the reveal follows at once when the queue has not grown.
RereadLastAtOnce(t) ==
  /\ At(t, "wait")
  /\ IF lastRevealStartTime[task[t].account] > task[t].until
     THEN ToWait(t, lastRevealStartTime[task[t].account])
     ELSE To(t, "call")
  /\ UNCHANGED <<now, rln, commits, errors, changes>>

\* The awaited time has come: wait on if the queue has grown, else reveal.
RereadLast(t) ==
  /\ At(t, "wait") /\ now >= task[t].until
  /\ IF lastRevealStartTime[task[t].account] > task[t].until
     THEN ToWait(t, lastRevealStartTime[task[t].account])
     ELSE To(t, "call")
  /\ UNCHANGED <<now, rln, commits, errors, changes>>

\* slashReveal is tried by a call; a revert ends the task.
CallReveal(t) ==
  /\ At(t, "call")
  /\ IF Revealable(t[1], task[t].account, task[t].secret) THEN To(t, "send") ELSE End(t)
  /\ UNCHANGED <<now, rln, commits, errors, changes>>

\* The transaction, which may revert although the call did not.
SendReveal(t) ==
  /\ At(t, "send")
  /\ \/ slashReveal(t[1], task[t].account, task[t].secret)
     \/ /\ ~ Revealable(t[1], task[t].account, task[t].secret)
        /\ UNCHANGED <<now, rln>>
  /\ End(t)
  /\ UNCHANGED <<commits, errors, changes>>

\* The node fails: the task ends, after a lost reply with its transaction
\* executed; only a failed call is ignored and followed by the transaction.
NodeFails(t) ==
  /\ ~ Idle(t) /\ errors < MaxErrors
  /\ errors' = errors + 1
  /\ IF At(t, "call") THEN To(t, "send") ELSE End(t)
  /\ \/ UNCHANGED <<now, rln>>
     \/ At(t, "commit") /\ slashCommit(t[1], task[t].account, task[t].secret)
     \/ At(t, "send") /\ slashReveal(t[1], task[t].account, task[t].secret)
  /\ UNCHANGED <<commits, changes>>

Step(t) == \/ SlashCommit(t) \/ ReadLast(t) \/ RereadLast(t)
           \/ CallReveal(t) \/ SendReveal(t)

-----------------------------------------------------------------------------
(* The other callers of the contracts and the passing of time *)

SetWindow ==
  /\ changes < MaxWindowChanges /\ changes' = changes + 1
  /\ \E w \in Windows : setSlashRevealWindowTime(w)
  /\ UNCHANGED <<task, commits, errors>>

Register ==
  /\ \E i \in Secrets, a \in Accounts :
       registrations[i] < MaxRegistrations /\ register(i, a)
  /\ UNCHANGED <<task, commits, errors, changes>>

\* Blocks go on while somebody may wait for a time to come.
Tick ==
  /\ now < MaxTime \/ \E a \in Accounts : now < lastRevealStartTime[a]
  /\ now' = now + 1
  /\ UNCHANGED <<rln, task, commits, errors, changes>>

Next == \/ \E t \in Tasks : \/ Step(t) \/ NodeFails(t)
                            \/ \E a \in Accounts, i \in Secrets : Start(t, a, i)
        \/ SetWindow \/ Register \/ Tick

Spec == Init /\ [][Next]_vars

\* Each task is scheduled and blocks keep coming.
FairSpec == Spec /\ WF_vars(Tick) /\ \A t \in Tasks : WF_vars(Step(t))

-----------------------------------------------------------------------------
\* Every variable has its type.
TypeOK ==
  /\ TypeRLN
  /\ task \in [Tasks -> Task \cup {NoTask}]
  /\ commits \in 0 .. MaxCommits
  /\ errors \in 0 .. MaxErrors
  /\ changes \in 0 .. MaxWindowChanges

\* Two tasks of one slasher for the same account and secret.
Twins(t, u) == /\ t # u /\ t[1] = u[1] /\ ~ Idle(u)
               /\ task[t].account = task[u].account /\ task[t].secret = task[u].secret

\* A task that has stopped waiting is not too early: its commitment is open
\* (or revealed already), unless the same slasher has committed again for the
\* same account meanwhile, or the node failed.
NeverTooEarly ==
  errors = 0 =>
    \A t \in Tasks :
      At(t, "call") \/ At(t, "send") =>
        \/ slashCommitments[task[t].account][<<t[1], task[t].secret>>] <= now
        \/ \E u \in Tasks : Twins(t, u)

\* The task holds the secret of a member and waits to reveal it.
Caught(t, i, a) ==
  /\ At(t, "wait") /\ task[t].secret = i /\ task[t].account = a
  /\ members[i] = a

\* The account has been committed on since the task last looked.
Overtaken(t) ==
  ~ Idle(t) /\ lastRevealStartTime[task[t].account] > task[t].until

\* Whoever is caught is slashed unless the account is committed on once more:
\* nothing but a later commitment (of a twin or a stranger) keeps a task that
\* waits with the secret of a member from ending with the member removed, by
\* this slasher or another, however the window changes, unless the account has
\* no Karma to slash or the node fails.  A task that was overtaken waits again,
\* and the same holds of its new wait: the member is slashed once the
\* commitments on its account cease.  Nothing makes them cease: slashCommit is
\* open to everybody, and the loop of slash waits for the last commitment on
\* the account where its own would do.
CaughtIsSlashed ==
  \A t \in Tasks, i \in Secrets, a \in Accounts :
    Caught(t, i, a) ~> (members[i] # a \/ Overtaken(t) \/ karma[a] = 0 \/ errors > 0)
=============================================================================
