------------------------ MODULE Registration_proofs ------------------------
(***************************************************************************)
(* Proofs about Registration, for every set of users, every size of the    *)
(* tree and every bound on faults.  The argument: a row of                 *)
(* pending_registrations never changes its identity, every transaction     *)
(* carries the identity of the row of its nonce, and the chain executes a  *)
(* nonce once.                                                             *)
(***************************************************************************)
EXTENDS Registration, TLAPS

\* Most steps are first-order: Zenon is tried first, then the SMT solver.
USE ZenonT(5), SMTT(20)

KeepsIds ==
    /\ DOMAIN rows' = DOMAIN rows
    /\ rows' \in [DOMAIN rows -> Row]
    /\ \A n \in DOMAIN rows : rows'[n].id = rows[n].id

\* What the three UPDATEs of a pending registration do to the table.
LEMMA SubmittedRow ==
    ASSUME rows \in [DOMAIN rows -> Row],
           NEW n \in DOMAIN rows, NEW gas \in Nat, Submitted(n, gas)
    PROVE  /\ KeepsIds
           /\ \A m \in DOMAIN rows : rows'[m].status = "confirmed" => rows[m].status = "confirmed"
BY DEF KeepsIds, Submitted, Row

\* mark_failed changes no identity and confirms nothing.
LEMMA FailedRow ==
    ASSUME rows \in [DOMAIN rows -> Row], NEW n \in DOMAIN rows, Failed(n)
    PROVE  /\ KeepsIds
           /\ \A m \in DOMAIN rows : rows'[m].status = "confirmed" => rows[m].status = "confirmed"
BY DEF KeepsIds, Failed, Row

\* mark_confirmed changes no identity and confirms one row.
LEMMA ConfirmedRow ==
    ASSUME rows \in [DOMAIN rows -> Row], NEW n \in DOMAIN rows, Confirmed(n)
    PROVE  /\ KeepsIds
           /\ \A m \in DOMAIN rows :
                 rows'[m].status = "confirmed" => rows[m].status = "confirmed" \/ m = n
BY DEF KeepsIds, Confirmed, Row

\* The same for one row, as recover_pending writes it.
LEMMA FailedRecord ==
    ASSUME NEW row \in Row, NEW new,
           new = [row EXCEPT !.status = "failed", !.attempts = @ + 1]
    PROVE  new \in Row /\ new.id = row.id /\ new.status = "failed"
<1> DEFINE mid == [row EXCEPT !.status = "failed"]
<1>1. mid \in Row /\ mid.id = row.id /\ mid.status = "failed"
  BY DEF Row
<1>2. new = [mid EXCEPT !.attempts = row.attempts + 1]
  OBVIOUS
<1>3. row.attempts + 1 \in Nat
  BY SMTT(20) DEF Row
<1> HIDE DEF mid
<1> QED
  BY <1>1, <1>2, <1>3 DEF Row

\* The same for one row that recover_pending confirms.
LEMMA ConfirmedRecord ==
    ASSUME NEW row \in Row, NEW new, new = [row EXCEPT !.status = "confirmed"]
    PROVE  new \in Row /\ new.id = row.id
BY DEF Row

\* recover_pending changes no identity, and confirms a row only on a receipt.
LEMMA RecoveredRow ==
    ASSUME rows \in [DOMAIN rows -> Row], NEW n \in DOMAIN rows, NEW seen \in BOOLEAN
    PROVE  /\ Recovered(n, seen) \in Row
           /\ Recovered(n, seen).id = rows[n].id
           /\ Recovered(n, seen).status = "confirmed" =>
                rows[n].status = "confirmed" \/ Receipt(n, TRUE)
<1>1. rows[n] \in Row
  OBVIOUS
<1>2. \/ Recovered(n, seen) = [rows[n] EXCEPT !.status = "failed", !.attempts = @ + 1]
      \/ /\ Receipt(n, TRUE)
         /\ Recovered(n, seen) = [rows[n] EXCEPT !.status = "confirmed"]
      \/ Recovered(n, seen) = rows[n]
  BY Zenon DEF Recovered
<1>3. CASE Recovered(n, seen) = [rows[n] EXCEPT !.status = "failed", !.attempts = @ + 1]
  BY <1>1, <1>3, FailedRecord
<1>4. CASE /\ Receipt(n, TRUE)
           /\ Recovered(n, seen) = [rows[n] EXCEPT !.status = "confirmed"]
  BY <1>1, <1>4, ConfirmedRecord
<1>5. CASE Recovered(n, seen) = rows[n]
  BY <1>1, <1>5
<1> QED
  BY <1>2, <1>3, <1>4, <1>5

-----------------------------------------------------------------------------
\* The bounds are used up one by one.
LEMMA UseType ==
    ASSUME used \in [Kinds -> Nat], NEW what \in Kinds, Use(what)
    PROVE  used' \in [Kinds -> Nat]
BY DEF Use

\* The kinds of events and faults that are counted.
LEMMA KindsOf ==
    {"events", "errors", "dbErrors", "crashes", "evictions", "reverts", "lost"} \subseteq Kinds
BY DEF Kinds, Faults

\* The counts of events and faults stay numbers.
LEMMA UsedType ==
    ASSUME used \in [Kinds -> Nat],
           \/ UNCHANGED used
           \/ Use("events") \/ Use("errors") \/ Use("dbErrors")
           \/ Use("crashes") \/ Use("evictions") \/ Use("reverts") \/ Use("lost")
    PROVE  used' \in [Kinds -> Nat]
BY UseType, KindsOf

\* What sending does to the chain.
LEMMA SendType ==
    ASSUME TypeOK, NEW tx \in Tx, NEW ok \in BOOLEAN, Send(tx, ok)
    PROVE  /\ mempool' \subseteq Tx /\ sent' \subseteq Tx
           /\ used' \in [Kinds -> Nat]
           /\ sent \subseteq sent' /\ sent' \subseteq sent \cup {tx}
           /\ mempool' \subseteq mempool \cup (sent' \cap {tx})
           /\ UNCHANGED <<chainNonce, receipts, members, slashed>>
<1>1. UNCHANGED used \/ Use("errors") \/ Use("lost")
  BY DEF Send
<1>2. used' \in [Kinds -> Nat]
  BY <1>1, UsedType DEF TypeOK
<1>3. \/ Enter(tx)
      \/ UNCHANGED <<mempool, sent>>
  BY DEF Send
<1>4. CASE Enter(tx)
  BY <1>2, <1>4 DEF Enter, TypeOK, Send
<1>5. CASE UNCHANGED <<mempool, sent>>
  BY <1>2, <1>5 DEF TypeOK, Send
<1> QED
  BY <1>3, <1>4, <1>5

\* A log that is emitted is appended to the logs the listener has not read.
LEMMA EmitType ==
    ASSUME TypeOK, NEW kind \in {"mint", "slash"}, NEW user \in Users, Emit(kind, user)
    PROVE  events' \in Seq([kind : {"mint", "slash"}, user : Users])
<1> DEFINE Events == [kind : {"mint", "slash"}, user : Users]
           e == [kind |-> kind, user |-> user]
<1>1. e \in Events /\ events \in Seq(Events)
  BY DEF TypeOK
<1>2. events' = Append(events, e) \/ events' = events
  BY DEF Emit
<1> HIDE DEF Events, e
<1>3. events' \in Seq(Events)
  BY <1>1, <1>2
<1> QED
  BY <1>3 DEF Events

-----------------------------------------------------------------------------
\* The types hold at the start.
LEMMA InitType == Init => TypeOK
<1> SUFFICES ASSUME Init PROVE TypeOK
  OBVIOUS
<1>1. DOMAIN rows = {} /\ rows \in [DOMAIN rows -> Row]
  BY DEF Init
<1>2. used \in [Kinds -> Nat]
  BY DEF Init
<1>3. keys \in 0..TreeSize
  BY ConstantsAssumption DEF Init
<1> QED
  BY <1>1, <1>2, <1>3, SMTT(20) DEF Init, TypeOK

\* The steps of the chain keep the types: mints, slashings, mining and evictions.
LEMMA ChainType ==
    ASSUME TypeOK,
           \/ \E user \in Users : Mint(user)
           \/ \E id \in members : slashReveal(id)
           \/ Miner
           \/ \E tx \in mempool : Evict(tx)
    PROVE  TypeOK'
<1>1. ASSUME NEW user \in Users, Mint(user) PROVE TypeOK'
  <2>1. events' \in Seq([kind : {"mint", "slash"}, user : Users])
    BY <1>1, EmitType DEF Mint
  <2>2. used' \in [Kinds -> Nat]
    BY <1>1, UsedType DEF Mint, TypeOK
  <2> QED
    BY <1>1, <2>1, <2>2 DEF Mint, TypeOK, tables, chain
<1>2. ASSUME NEW id \in members, slashReveal(id) PROVE TypeOK'
  <2>1. id \in Identity /\ id.user \in Users
    BY <1>2 DEF TypeOK, Identity
  <2>2. events' \in Seq([kind : {"mint", "slash"}, user : Users])
    BY <1>2, <2>1, EmitType DEF slashReveal
  <2>3. used' \in [Kinds -> Nat]
    BY <1>2, UsedType DEF slashReveal, TypeOK
  <2> QED
    BY <1>2, <2>1, <2>2, <2>3 DEF slashReveal, TypeOK, tables
<1>3. ASSUME NEW tx \in mempool, Mine(tx) PROVE TypeOK'
  <2>1. tx \in Tx /\ tx.id \in Identity /\ tx.nonce \in Nat /\ tx.gas \in Nat
    BY <1>3 DEF TypeOK, Tx
  <2>2. used' \in [Kinds -> Nat]
    <3>1. UNCHANGED used \/ Use("reverts")
      BY <1>3, Zenon DEF Mine, register
    <3> QED
      BY <3>1, UsedType DEF TypeOK
  <2>3. receipts' \subseteq [nonce : Nat, gas : Nat, ok : BOOLEAN] /\ members' \subseteq Identity
    <3>1. /\ receipts \subseteq [nonce : Nat, gas : Nat, ok : BOOLEAN]
          /\ members \subseteq Identity
      BY DEF TypeOK
    <3>2. ASSUME NEW ok \in BOOLEAN,
                 receipts' = receipts \cup {[nonce |-> tx.nonce, gas |-> tx.gas, ok |-> ok]}
          PROVE  receipts' \subseteq [nonce : Nat, gas : Nat, ok : BOOLEAN]
      BY <2>1, <3>1, <3>2, SMTT(20)
    <3>3. /\ members' = members \cup {tx.id} \/ members' = members
          /\ \E ok \in BOOLEAN :
                receipts' = receipts \cup {[nonce |-> tx.nonce, gas |-> tx.gas, ok |-> ok]}
      BY <1>3, Zenon DEF Mine, register
    <3> QED
      BY <2>1, <3>1, <3>2, <3>3
  <2> QED
    BY <1>3, <2>2, <2>3, SMTT(20) DEF Mine, TypeOK, tables, memory
<1>4. ASSUME NEW tx \in mempool, Evict(tx) PROVE TypeOK'
  <2>1. used' \in [Kinds -> Nat]
    BY <1>4, UsedType DEF Evict, TypeOK
  <2> QED
    BY <1>4, <2>1 DEF Evict, TypeOK, tables, memory
<1> QED
  BY <1>1, <1>2, <1>3, <1>4 DEF Miner

\* The types of the thread's and the monitor's states.
TaskType(t) ==
    \/ t \in [pc : {"idle", "stopped"}]
    \/ t \in [pc : busy, id : Identity, nonce : Nat]

MonType(m) ==
    \/ m \in [pc : {"sleep"}]
    \/ m \in [pc : {"stuck", "resend", "retry"}, todo : SUBSET DOMAIN rows]
    \/ m \in [pc : {"resent", "unsent"}, todo : SUBSET DOMAIN rows, gas : Nat,
              list : {"stuck", "retry"}]

\* What the monitor's current pass holds is well formed.
LEMMA MonSteps ==
    ASSUME TypeOK, mon.pc # "sleep"
    PROVE  /\ mon.todo \subseteq DOMAIN rows
           /\ mon.pc \in {"resent", "unsent"} => mon.gas \in Nat /\ mon.list \in {"stuck", "retry"}
           /\ \A n \in mon.todo, list \in {"stuck", "retry"} : MonType(Handled(n, list))
BY DEF TypeOK, MonType, Handled

\* What the registration task holds is well formed at each of its steps.
LEMMA TaskStep ==
    ASSUME TypeOK, task.pc \in busy
    PROVE  /\ task.id \in Identity /\ task.nonce \in Nat
           /\ \A pc \in busy : TaskType(Step(pc))
           /\ TaskType(Idle) /\ TaskType(Stopped)
BY DEF TypeOK, TaskType, busy, Step, Idle, Stopped

\* The thread holds a nonce of its own registration.
TaskRow ==
    task.pc \in {"inserted", "allocated", "sent", "rejected"} =>
        task.nonce \in DOMAIN rows /\ rows[task.nonce].id = task.id

\* The steps of the listener and of its registration task keep the types.
LEMMA ListenerType ==
    ASSUME TypeOK, TaskRow, Listener
    PROVE  TypeOK'
<1>1. CASE HandleMint
  <2> DEFINE Events == [kind : {"mint", "slash"}, user : Users]
  <2>1. events \in Seq(Events) /\ events # <<>>
    BY <1>1 DEF HandleMint, TypeOK
  <2> HIDE DEF Events
  <2>2. Head(events) \in Events /\ Tail(events) \in Seq(Events)
    BY <2>1
  <2>3. Head(events).user \in Users
    BY <2>2 DEF Events
  <2>4. events' \in Seq([kind : {"mint", "slash"}, user : Users])
    BY <1>1, <2>2 DEF HandleMint, Events
  <2>5. UNCHANGED used \/ Use("errors")
    BY <1>1, Zenon DEF HandleMint
  <2>6. used' \in [Kinds -> Nat]
    BY <2>5, UsedType DEF TypeOK
  <2>7. FreshIdentity(Head(events).user) \in Identity
    BY <2>3, ConstantsAssumption, SMTT(20) DEF TypeOK, FreshIdentity, Identity
  <2>8. db' \subseteq Identity /\ keys' \in 0..TreeSize
    BY SMTT(60), <1>1, <2>7, ConstantsAssumption DEF HandleMint, TypeOK, Full
  <2>9. TaskType(task')
    BY <1>1, <2>7, SMTT(20) DEF HandleMint, TypeOK, TaskType, Stopped, busy
  <2> QED
    BY <1>1, <2>4, <2>6, <2>8, <2>9 DEF HandleMint, TypeOK, TaskType, chain
<1>2. CASE HandleSlash
  <2> DEFINE Events == [kind : {"mint", "slash"}, user : Users]
  <2>1. events \in Seq(Events) /\ events # <<>>
    BY <1>2 DEF HandleSlash, TypeOK
  <2> HIDE DEF Events
  <2>2. Tail(events) \in Seq(Events)
    BY <2>1
  <2>3. events' \in Seq([kind : {"mint", "slash"}, user : Users])
    BY <1>2, <2>2 DEF HandleSlash, Events
  <2>4. used' \in [Kinds -> Nat]
    BY <1>2, UsedType DEF HandleSlash, TypeOK
  <2> QED
    BY <1>2, <2>3, <2>4 DEF HandleSlash, Without, TypeOK, chain
<1>3. CASE InsertPending
  <2>1. /\ task.id \in Identity /\ task.nonce \in Nat
        /\ TaskType(Step("undo"))
    BY <1>3, TaskStep DEF InsertPending, busy
  <2>2. used' \in [Kinds -> Nat]
    BY <1>3, UsedType DEF InsertPending, TypeOK
  <2>3. TaskType(task')
    BY <1>3, <2>1, SMTT(20) DEF InsertPending, TypeOK, TaskType, busy
  <2>4. /\ DOMAIN rows' \subseteq Nat
        /\ rows' \in [DOMAIN rows' -> Row]
        /\ DOMAIN rows \subseteq DOMAIN rows'
    BY <1>3, <2>1, SMTT(20) DEF InsertPending, TypeOK, Row
  <2> QED
    BY <1>3, <2>2, <2>3, <2>4 DEF InsertPending, TypeOK, TaskType, chain
<1>4. CASE SaveNonce
  <2>1. /\ task.id \in Identity /\ task.nonce \in Nat
        /\ TaskType(Step("undo")) /\ TaskType(Step("allocated"))
    BY <1>4, TaskStep DEF SaveNonce, busy
  <2>2. used' \in [Kinds -> Nat]
    BY <1>4, UsedType DEF SaveNonce, TypeOK
  <2>3. current' \in Nat /\ nonceState' \in Nat
    BY <1>4, <2>1, SMTT(20) DEF SaveNonce, TypeOK
  <2>4. TaskType(task') /\ UNCHANGED <<db, keys, rows, mon, up, events, chain>>
    BY Zenon, <1>4, <2>1 DEF SaveNonce
  <2> QED
    BY <2>2, <2>3, <2>4 DEF TypeOK, TaskType, chain
<1>5. CASE Submit
  <2>1. /\ task.id \in Identity /\ task.nonce \in Nat
        /\ TaskType(Step("sent")) /\ TaskType(Step("rejected"))
    BY <1>5, TaskStep DEF Submit, busy
  <2> DEFINE tx == [nonce |-> task.nonce, id |-> task.id, gas |-> MinGas]
  <2>2. tx \in Tx
    BY <2>1 DEF Tx, MinGas
  <2>3. PICK ok \in BOOLEAN : Send(tx, ok) /\ task' = Step(IF ok THEN "sent" ELSE "rejected")
    BY <1>5 DEF Submit
  <2>4. TaskType(task')
    BY <2>1, <2>3
  <2> HIDE DEF tx
  <2> QED
    BY <1>5, <2>2, <2>3, <2>4, SendType DEF Submit, TypeOK, TaskType, tables
<1>6. CASE MarkSubmit
  <2>1. /\ task.id \in Identity /\ task.nonce \in Nat
        /\ TaskType(Step("undo")) /\ TaskType(Idle)
    BY <1>6, TaskStep DEF MarkSubmit, busy
  <2>2. used' \in [Kinds -> Nat]
    BY <1>6, UsedType DEF MarkSubmit, TypeOK
  <2>3. TaskType(task')
    BY <1>6, <2>1 DEF MarkSubmit
  <2>4. DOMAIN rows' = DOMAIN rows /\ rows' \in [DOMAIN rows -> Row]
    <3>1. \/ Submitted(task.nonce, MinGas) \/ Failed(task.nonce) \/ UNCHANGED rows
      BY <1>6 DEF MarkSubmit
    <3>2. task.nonce \in DOMAIN rows /\ MinGas \in Nat /\ rows \in [DOMAIN rows -> Row]
      BY <1>6 DEF MarkSubmit, TaskRow, TypeOK, MinGas
    <3> QED
      BY <3>1, <3>2, SubmittedRow, FailedRow DEF KeepsIds
  <2> QED
    BY <1>6, <2>2, <2>3, <2>4 DEF MarkSubmit, TypeOK, TaskType, chain
<1>7. CASE UndoRegistration
  <2>1. used' \in [Kinds -> Nat]
    BY <1>7, UsedType DEF UndoRegistration, TypeOK
  <2> QED
    BY <1>7, <2>1 DEF UndoRegistration, Without, Stopped, TypeOK, chain
<1> QED
  BY <1>1, <1>2, <1>3, <1>4, <1>5, <1>6, <1>7 DEF Listener

\* The steps of the monitor's pass keep the types.
LEMMA MonitorType ==
    ASSUME TypeOK, Monitor
    PROVE  TypeOK'
<1>1. CASE MonitorWake
  <2>1. MonType(mon')
    BY <1>1, SMTT(20) DEF MonitorWake, Stuck, MonType
  <2> QED
    BY <1>1, <2>1 DEF MonitorWake, TypeOK, MonType, tables, chain
<1>2. CASE CheckStuck
  <2>1. PICK n \in mon.todo :
          /\ \/ Confirmed(n) \/ Failed(n) \/ UNCHANGED rows
          /\ \/ mon' = Handled(n, "stuck")
             \/ mon' = [pc |-> "resend", todo |-> mon.todo]
          /\ UNCHANGED used \/ Use("errors") \/ Use("dbErrors")
    BY <1>2, Zenon DEF CheckStuck
  <2>2. /\ n \in DOMAIN rows /\ mon.todo \subseteq DOMAIN rows
        /\ MonType(Handled(n, "stuck"))
    BY <1>2, MonSteps DEF CheckStuck
  <2>3. DOMAIN rows' = DOMAIN rows /\ rows' \in [DOMAIN rows -> Row]
    BY <2>1, <2>2, ConfirmedRow, FailedRow DEF KeepsIds, TypeOK
  <2>4. MonType(mon')
    BY <2>1, <2>2, SMTT(20) DEF MonType
  <2>5. used' \in [Kinds -> Nat]
    BY <2>1, UsedType DEF TypeOK
  <2> QED
    BY <1>2, <2>3, <2>4, <2>5 DEF CheckStuck, TypeOK, MonType, chain
<1>3. ASSUME NEW n \in mon.todo, NEW gas \in Nat, NEW list \in {"stuck", "retry"},
             mon.pc # "sleep",
             MonitorSend(n, gas, list), UNCHANGED <<tables, current, task, up, events>>
      PROVE  TypeOK'
  <2>1. n \in DOMAIN rows /\ mon.todo \subseteq DOMAIN rows
    BY <1>3, MonSteps
  <2> DEFINE tx == [nonce |-> n, id |-> rows[n].id, gas |-> gas]
  <2>2. tx \in Tx
    BY <2>1 DEF TypeOK, Row, Tx
  <2>3. PICK ok \in BOOLEAN :
          /\ Send(tx, ok)
          /\ mon' = [pc |-> IF ok THEN "resent" ELSE "unsent",
                     todo |-> mon.todo, gas |-> gas, list |-> list]
    BY <1>3 DEF MonitorSend
  <2>4. MonType(mon')
    BY <2>1, <2>3 DEF MonType
  <2> HIDE DEF tx
  <2>5. /\ mempool' \subseteq Tx /\ sent' \subseteq Tx
        /\ used' \in [Kinds -> Nat]
        /\ UNCHANGED <<chainNonce, receipts, members, slashed>>
    BY <2>2, <2>3, SendType
  <2>6. UNCHANGED <<db, keys, rows, nonceState, current, task, up, events>>
    BY <1>3 DEF tables
  <2> QED
    BY <2>4, <2>5, <2>6 DEF TypeOK, MonType
<1>4. CASE Resend
  <2>1. PICK n \in mon.todo : MonitorSend(n, 2 * rows[n].hash, "stuck")
    BY <1>4 DEF Resend
  <2>2. n \in DOMAIN rows
    BY <1>4, MonSteps DEF Resend
  <2>3. 2 * rows[n].hash \in Nat
    BY <2>2, SMTT(20) DEF TypeOK, Row
  <2> QED
    BY <1>3, <1>4, <2>1, <2>3 DEF Resend
<1>5. CASE MonitorRetry
  <2>1. MonType(mon')
    BY <1>5 DEF MonitorRetry, Retriable, MonType
  <2> QED
    BY <1>5, <2>1 DEF MonitorRetry, TypeOK, MonType, tables, chain
<1>6. CASE Retry
  <2>1. MinGas \in Nat
    BY DEF MinGas
  <2> QED
    BY <1>3, <1>6, <2>1 DEF Retry
<1>7. CASE MarkResend
  <2>1. PICK n \in mon.todo :
          /\ \/ Submitted(n, mon.gas) \/ Failed(n) \/ UNCHANGED rows
          /\ mon' = Handled(n, mon.list)
          /\ UNCHANGED used \/ Use("dbErrors")
    BY <1>7, Zenon DEF MarkResend
  <2>2. n \in DOMAIN rows /\ mon.gas \in Nat /\ MonType(mon')
    BY <1>7, <2>1, MonSteps DEF MarkResend
  <2>3. DOMAIN rows' = DOMAIN rows /\ rows' \in [DOMAIN rows -> Row]
    BY <2>1, <2>2, SubmittedRow, FailedRow DEF KeepsIds, TypeOK
  <2>4. used' \in [Kinds -> Nat]
    BY <2>1, UsedType DEF TypeOK
  <2> QED
    BY <1>7, <2>2, <2>3, <2>4 DEF MarkResend, TypeOK, MonType, chain
<1>8. CASE MonitorSleep
  BY <1>8 DEF MonitorSleep, TypeOK, tables, chain
<1> QED
  BY <1>1, <1>2, <1>4, <1>5, <1>6, <1>7, <1>8 DEF Monitor

\* A crash, and the recovery at the restart, keep the types.
LEMMA CrashType ==
    ASSUME TypeOK, Crash \/ Restart
    PROVE  TypeOK'
<1>1. CASE Crash
  <2>1. used' \in [Kinds -> Nat]
    BY <1>1, UsedType DEF Crash, TypeOK
  <2>2. <<>> \in Seq([kind : {"mint", "slash"}, user : Users])
    OBVIOUS
  <2>3. events' \in Seq([kind : {"mint", "slash"}, user : Users])
    BY <1>1, <2>2 DEF Crash
  <2> QED
    BY <1>1, <2>1, <2>3 DEF Crash, TypeOK, Stopped, tables, chain
<1>2. CASE Restart
  <2>1. DOMAIN rows' = DOMAIN rows /\ rows' \in [DOMAIN rows -> Row]
    <3>1. PICK seen \in SUBSET DOMAIN rows :
            rows' = [n \in DOMAIN rows |-> Recovered(n, n \in seen)]
      BY <1>2 DEF Restart
    <3>2. ASSUME NEW n \in DOMAIN rows PROVE Recovered(n, n \in seen) \in Row
      <4>1. \A b \in BOOLEAN : Recovered(n, b) \in Row
        BY RecoveredRow DEF TypeOK
      <4>2. (n \in seen) \in BOOLEAN
        OBVIOUS
      <4> QED
        BY <4>1, <4>2, Zenon
    <3> QED
      BY <3>1, <3>2
  <2>2. current' \in Nat /\ nonceState' \in Nat
    BY <1>2 DEF Restart, TypeOK
  <2> QED
    BY <1>2, <2>1, <2>2 DEF Restart, Idle, TypeOK, chain
<1> QED
  BY <1>1, <1>2

-----------------------------------------------------------------------------
(***************************************************************************)
(* The inductive invariant.  The identities of the rows are pairwise       *)
(* different and come from keys already used; what is in the mempool was   *)
(* sent; whoever is or was a member owes it to a nonce that is spent.      *)
(***************************************************************************)
IdsDistinct ==
    \A m \in DOMAIN rows : \A n \in DOMAIN rows : rows[m].id = rows[n].id => m = n

IdsUsed == \A n \in DOMAIN rows : rows[n].id.key < keys

TaskFresh ==
    task.pc = "queued" =>
        task.id.key < keys /\ \A n \in DOMAIN rows : rows[n].id # task.id

MempoolSent == mempool \subseteq sent

RegisteredSpent ==
    \A id \in members \cup slashed :
        \E n \in DOMAIN rows : rows[n].id = id /\ n < chainNonce

ReceiptsTrue ==
    \A r \in receipts :
        r.ok => r.nonce \in DOMAIN rows /\ rows[r.nonce].id \in members \cup slashed

Ledger == /\ NonceBoundToIdentity /\ MempoolSent /\ RegisteredSpent
          /\ SlashedStaysOut /\ ReceiptsTrue /\ ConfirmedIsRegistered
          /\ IdsDistinct /\ IdsUsed

IInv == TypeOK /\ TaskRow /\ TaskFresh /\ Ledger

\* The invariant holds at the start.
LEMMA InitIInv == Init => IInv
<1> SUFFICES ASSUME Init PROVE IInv
  OBVIOUS
<1>1. TypeOK
  BY InitType
<1>2. DOMAIN rows = {}
  BY DEF Init
<1> QED
  BY <1>1, <1>2 DEF Init, IInv, TaskRow, TaskFresh, Ledger, NonceBoundToIdentity, MempoolSent,
       RegisteredSpent, SlashedStaysOut, ReceiptsTrue, ConfirmedIsRegistered, IdsDistinct, IdsUsed

\* An update of the table that keeps the identities and confirms only what is
\* registered keeps the ledger.
LEMMA RowsLedger ==
    ASSUME IInv, KeepsIds, UNCHANGED <<keys, chain>>,
           \A n \in DOMAIN rows :
              rows'[n].status = "confirmed" =>
                 rows[n].status = "confirmed" \/ rows[n].id \in members \cup slashed
    PROVE  Ledger'
<1> USE DEF IInv, Ledger, KeepsIds, chain
<1>1. NonceBoundToIdentity' /\ MempoolSent'
  BY DEF NonceBoundToIdentity, MempoolSent
<1>2. RegisteredSpent' /\ SlashedStaysOut'
  BY DEF RegisteredSpent, SlashedStaysOut
<1>3. ReceiptsTrue' /\ ConfirmedIsRegistered'
  BY DEF ReceiptsTrue, ConfirmedIsRegistered
<1>4. IdsDistinct' /\ IdsUsed'
  BY DEF IdsDistinct, IdsUsed
<1> QED
  BY <1>1, <1>2, <1>3, <1>4

\* So does a transaction that carries the identity of the row of its nonce.
LEMMA SendLedger ==
    ASSUME IInv, NEW tx \in Tx, NEW ok \in BOOLEAN, Send(tx, ok),
           tx.nonce \in DOMAIN rows, rows[tx.nonce].id = tx.id,
           UNCHANGED <<keys, rows>>
    PROVE  Ledger'
<1> USE DEF IInv, Ledger
<1>1. /\ sent' \subseteq sent \cup {tx}
      /\ mempool' \subseteq mempool \cup (sent' \cap {tx})
      /\ sent \subseteq sent'
      /\ UNCHANGED <<chainNonce, receipts, members, slashed>>
  BY SendType
<1>2. NonceBoundToIdentity' /\ MempoolSent'
  BY <1>1 DEF NonceBoundToIdentity, MempoolSent
<1>3. RegisteredSpent' /\ SlashedStaysOut' /\ ReceiptsTrue' /\ ConfirmedIsRegistered'
  BY <1>1 DEF RegisteredSpent, SlashedStaysOut, ReceiptsTrue, ConfirmedIsRegistered
<1>4. IdsDistinct' /\ IdsUsed'
  BY DEF IdsDistinct, IdsUsed
<1> QED
  BY <1>2, <1>3, <1>4

\* A transaction that is mined registers an identity that was not registered
\* before: the one of the row of a nonce that was not spent.
LEMMA MineIInv ==
    ASSUME IInv, NEW tx \in mempool, Mine(tx)
    PROVE  IInv'
<1> USE DEF IInv, Ledger
<1>1. TypeOK'
  BY ChainType DEF Miner
<1>2. /\ tx \in Tx /\ tx \in sent /\ tx.nonce = chainNonce
      /\ tx.nonce \in DOMAIN rows /\ rows[tx.nonce].id = tx.id
      /\ chainNonce \in Nat /\ chainNonce' = chainNonce + 1
      /\ UNCHANGED <<rows, task, keys, slashed, sent>> /\ mempool' \subseteq mempool
  <2>1. /\ tx \in mempool /\ tx.nonce = chainNonce /\ chainNonce' = chainNonce + 1
        /\ UNCHANGED <<rows, task, keys, slashed, sent>> /\ mempool' \subseteq mempool
    BY DEF Mine, tables, memory
  <2>2. mempool \subseteq Tx /\ chainNonce \in Nat
    BY DEF TypeOK
  <2>3. tx \in sent
    BY <2>1 DEF MempoolSent
  <2> QED
    BY <2>1, <2>2, <2>3 DEF NonceBoundToIdentity
<1>3. tx.id \notin slashed
  <2> SUFFICES ASSUME tx.id \in slashed PROVE FALSE
    OBVIOUS
  <2>1. PICK n \in DOMAIN rows : rows[n].id = tx.id /\ n < chainNonce
    BY DEF RegisteredSpent
  <2>2. n = tx.nonce
    BY <1>2, <2>1 DEF IdsDistinct
  <2> QED
    BY <1>2, <2>1, <2>2
<1>4. \/ /\ members' = members \cup {tx.id}
         /\ receipts' = receipts \cup {[nonce |-> tx.nonce, gas |-> tx.gas, ok |-> TRUE]}
      \/ /\ members' = members
         /\ receipts' = receipts \cup {[nonce |-> tx.nonce, gas |-> tx.gas, ok |-> FALSE]}
  BY Zenon DEF Mine, register
<1>5. TaskRow' /\ TaskFresh' /\ NonceBoundToIdentity' /\ MempoolSent' /\ IdsDistinct' /\ IdsUsed'
  BY <1>2 DEF TaskRow, TaskFresh, NonceBoundToIdentity, MempoolSent, IdsDistinct, IdsUsed
<1>6. RegisteredSpent'
  <2>1. DOMAIN rows \subseteq Nat
    BY DEF TypeOK
  <2> SUFFICES ASSUME NEW id \in members' \cup slashed'
               PROVE  \E n \in DOMAIN rows : rows[n].id = id /\ n < chainNonce + 1
    BY <1>2 DEF RegisteredSpent
  <2>2. id \in members \cup slashed \/ id = tx.id
    BY <1>2, <1>4
  <2>3. CASE id = tx.id
    BY <1>2, <2>3
  <2>4. CASE id \in members \cup slashed
    <3>1. PICK n \in DOMAIN rows : rows[n].id = id /\ n < chainNonce
      BY <2>4 DEF RegisteredSpent
    <3>2. n < chainNonce + 1
      BY <1>2, <2>1, <3>1
    <3> QED  BY <3>1, <3>2
  <2> QED  BY <2>2, <2>3, <2>4
<1>7. SlashedStaysOut'
  BY <1>2, <1>3, <1>4 DEF SlashedStaysOut
<1>8. ReceiptsTrue'
  BY <1>2, <1>4, SMTT(20) DEF ReceiptsTrue
<1>9. ConfirmedIsRegistered'
  BY <1>2, <1>4 DEF ConfirmedIsRegistered
<1> QED
  BY <1>1, <1>5, <1>6, <1>7, <1>8, <1>9

\* Mints, slashings and evictions keep the invariant.
LEMMA ChainIInv ==
    ASSUME IInv,
           \/ \E user \in Users : Mint(user)
           \/ \E id \in members : slashReveal(id)
           \/ \E tx \in mempool : Evict(tx)
    PROVE  IInv'
<1> USE DEF IInv, Ledger
<1>1. TypeOK'
  BY ChainType
<1>2. /\ members' \cup slashed' = members \cup slashed
      /\ (slashed \cap members = {}) => (slashed' \cap members' = {})
      /\ mempool' \subseteq mempool
      /\ UNCHANGED <<rows, task, keys, chainNonce, receipts, sent>>
  <2>1. ASSUME NEW user \in Users, Mint(user) PROVE <1>2!1 /\ <1>2!2 /\ <1>2!3 /\ <1>2!4
    BY <2>1 DEF Mint, tables, chain
  <2>2. ASSUME NEW id \in members, slashReveal(id) PROVE <1>2!1 /\ <1>2!2 /\ <1>2!3 /\ <1>2!4
    BY <2>2 DEF slashReveal, tables
  <2>3. ASSUME NEW tx \in mempool, Evict(tx) PROVE <1>2!1 /\ <1>2!2 /\ <1>2!3 /\ <1>2!4
    BY <2>3 DEF Evict, tables, memory
  <2> QED
    BY <2>1, <2>2, <2>3
<1>3. TaskRow' /\ TaskFresh' /\ NonceBoundToIdentity' /\ MempoolSent' /\ IdsDistinct' /\ IdsUsed'
  BY <1>2 DEF TaskRow, TaskFresh, NonceBoundToIdentity, MempoolSent, IdsDistinct, IdsUsed
<1>4. RegisteredSpent' /\ SlashedStaysOut' /\ ReceiptsTrue' /\ ConfirmedIsRegistered'
  BY <1>2 DEF RegisteredSpent, SlashedStaysOut, ReceiptsTrue, ConfirmedIsRegistered
<1> QED
  BY <1>1, <1>3, <1>4

\* The listener and its registration task keep the invariant: a nonce is written to the
\* table for an identity before a transaction with it is sent.
LEMMA ListenerIInv ==
    ASSUME IInv, Listener
    PROVE  IInv'
<1> USE DEF IInv
<1>1. TypeOK'
  BY ListenerType
<1>2. CASE HandleMint
  <2>1. /\ UNCHANGED <<rows, chain>>
        /\ keys \in Nat /\ keys' \in Nat /\ keys <= keys'
        /\ \/ UNCHANGED task \/ task' = Stopped
           \/ /\ keys' = keys + 1
              /\ task'.pc = "queued" /\ task'.id.key = keys
    <3> DEFINE id == FreshIdentity(Head(events).user)
    <3>1. id.key = keys
      BY DEF FreshIdentity
    <3> HIDE DEF id
    <3>2. \/ UNCHANGED keys /\ (UNCHANGED task \/ task' = Stopped)
          \/ keys' = keys + 1 /\ task' = [pc |-> "queued", id |-> id, nonce |-> current]
      BY <1>2, Zenon DEF HandleMint, id
    <3>3. keys \in Nat
      BY ConstantsAssumption, SMTT(20) DEF TypeOK
    <3>4. UNCHANGED <<rows, chain>>
      BY <1>2 DEF HandleMint
    <3> QED
      BY <3>1, <3>2, <3>3, <3>4
  <2>2. IdsUsed'
    BY <2>1, SMTT(20) DEF Ledger, IdsUsed, TypeOK, Row, Identity
  <2>3. TaskRow' /\ TaskFresh'
    <3>1. task.pc = "idle" /\ UNCHANGED rows
      BY <1>2, <2>1 DEF HandleMint
    <3>2. CASE UNCHANGED task \/ task' = Stopped
      BY <3>1, <3>2 DEF TaskRow, TaskFresh, Stopped
    <3>3. CASE keys' = keys + 1 /\ task'.pc = "queued" /\ task'.id.key = keys
      <4>1. \A n \in DOMAIN rows : rows[n].id # task'.id
        <5>1. \A n \in DOMAIN rows : rows[n].id.key \in Nat /\ rows[n].id.key < keys
          BY DEF Ledger, IdsUsed, TypeOK, Row, Identity
        <5> QED  BY <2>1, <3>3, <5>1
      <4> QED  BY <2>1, <3>1, <3>3, <4>1 DEF TaskRow, TaskFresh
    <3> QED  BY <2>1, <3>2, <3>3
  <2>4. /\ NonceBoundToIdentity' /\ MempoolSent' /\ IdsDistinct' /\ RegisteredSpent'
        /\ SlashedStaysOut' /\ ReceiptsTrue' /\ ConfirmedIsRegistered'
    BY <2>1 DEF Ledger, NonceBoundToIdentity, MempoolSent, IdsDistinct, RegisteredSpent,
         SlashedStaysOut, ReceiptsTrue, ConfirmedIsRegistered, chain
  <2> QED
    BY <1>1, <2>2, <2>3, <2>4 DEF Ledger
<1>3. ASSUME UNCHANGED <<rows, keys, chain>>,
             \/ UNCHANGED task \/ task'.pc \in {"idle", "stopped", "undo"}
             \/ /\ task.pc = "inserted" /\ task'.pc = "allocated"
                /\ task'.nonce = task.nonce /\ task'.id = task.id
      PROVE  IInv'
  <2>1. TaskRow' /\ TaskFresh'
    BY <1>3 DEF TaskRow, TaskFresh
  <2>2. Ledger'
    BY <1>3 DEF Ledger, NonceBoundToIdentity, MempoolSent, IdsDistinct, IdsUsed, RegisteredSpent,
         SlashedStaysOut, ReceiptsTrue, ConfirmedIsRegistered, chain
  <2> QED
    BY <1>1, <2>1, <2>2
<1>4. CASE HandleSlash
  BY <1>3, <1>4 DEF HandleSlash
<1>5. CASE InsertPending
  <2> DEFINE Inserts ==
        /\ ~Taken(current)
        /\ rows' = [n \in DOMAIN rows \cup {current} |->
                      IF n = current
                      THEN [id |-> task.id, hash |-> 0, attempts |-> 0, status |-> "queued"]
                      ELSE rows[n]]
        /\ task' = [pc |-> "inserted", id |-> task.id, nonce |-> current]
  <2>3. Inserts \/ (UNCHANGED rows /\ task' = Step("undo"))
    BY <1>5, Zenon DEF InsertPending
  <2>1. CASE UNCHANGED rows /\ task' = Step("undo")
    BY <1>3, <1>5, <2>1 DEF InsertPending, Step
  <2>2. CASE Inserts
    <3>1. /\ current \notin DOMAIN rows /\ current \in Nat
          /\ DOMAIN rows' = DOMAIN rows \cup {current}
          /\ rows'[current].id = task.id /\ rows'[current].status = "queued"
          /\ \A n \in DOMAIN rows : rows'[n] = rows[n]
          /\ task' = [pc |-> "inserted", id |-> task.id, nonce |-> current]
          /\ UNCHANGED <<keys, chain>>
      BY <1>5, <2>2, SMTT(20) DEF InsertPending, Taken, TypeOK
    <3>2. /\ task.id.key < keys /\ \A n \in DOMAIN rows : rows[n].id # task.id
      BY <1>5 DEF InsertPending, TaskFresh
    <3>3. TaskRow' /\ TaskFresh'
      BY <3>1 DEF TaskRow, TaskFresh
    <3>4. IdsDistinct' /\ IdsUsed'
      BY <3>1, <3>2 DEF Ledger, IdsDistinct, IdsUsed
    <3>5. NonceBoundToIdentity' /\ MempoolSent' /\ SlashedStaysOut'
      BY <3>1 DEF Ledger, NonceBoundToIdentity, MempoolSent, SlashedStaysOut, chain
    <3>6. RegisteredSpent' /\ ReceiptsTrue' /\ ConfirmedIsRegistered'
      BY <3>1 DEF Ledger, RegisteredSpent, ReceiptsTrue, ConfirmedIsRegistered, chain
    <3> QED
      BY <1>1, <3>3, <3>4, <3>5, <3>6 DEF Ledger
  <2> QED
    BY <2>1, <2>2, <2>3
<1>6. CASE SaveNonce
  BY <1>3, <1>6 DEF SaveNonce, Step
<1>7. CASE Submit
  <2>1. task.id \in Identity /\ task.nonce \in Nat
    BY <1>7, TaskStep DEF Submit, busy
  <2> DEFINE tx == [nonce |-> task.nonce, id |-> task.id, gas |-> MinGas]
  <2>2. tx \in Tx /\ tx.nonce \in DOMAIN rows /\ rows[tx.nonce].id = tx.id
    BY <1>7, <2>1 DEF Tx, MinGas, Submit, TaskRow
  <2>3. PICK ok \in BOOLEAN : Send(tx, ok)
    BY <1>7 DEF Submit
  <2>4. Ledger'
    <3> HIDE DEF tx, IInv
    <3> QED
      BY <1>7, <2>2, <2>3, SendLedger DEF Submit, tables
  <2>5. TaskRow' /\ TaskFresh'
    BY <1>7 DEF Submit, Step, TaskRow, TaskFresh, tables
  <2> QED
    BY <1>1, <2>4, <2>5
<1>8. CASE MarkSubmit
  <2>1. /\ task.nonce \in DOMAIN rows /\ MinGas \in Nat
        /\ Submitted(task.nonce, MinGas) \/ Failed(task.nonce) \/ UNCHANGED rows
        /\ task'.pc \in {"idle", "undo"}
    BY <1>8 DEF MarkSubmit, TaskRow, MinGas, Idle, Step
  <2>2. /\ KeepsIds
        /\ \A m \in DOMAIN rows : rows'[m].status = "confirmed" => rows[m].status = "confirmed"
    BY <2>1, SubmittedRow, FailedRow DEF KeepsIds, TypeOK
  <2>3. Ledger'
    BY <1>8, <2>2, RowsLedger DEF MarkSubmit
  <2> QED
    BY <1>1, <2>1, <2>3 DEF TaskRow, TaskFresh
<1>9. CASE UndoRegistration
  BY <1>3, <1>9 DEF UndoRegistration, Stopped
<1> QED
  BY <1>2, <1>4, <1>5, <1>6, <1>7, <1>8, <1>9 DEF Listener

\* The monitor keeps the invariant: what it sends again carries the identity of the row.
LEMMA MonitorIInv ==
    ASSUME IInv, Monitor
    PROVE  IInv'
<1> USE DEF IInv
<1>1. TypeOK'
  BY MonitorType
<1>2. ASSUME UNCHANGED <<rows, keys, task, chain>>
      PROVE  IInv'
  <2>1. TaskRow' /\ TaskFresh'
    BY <1>2 DEF TaskRow, TaskFresh
  <2>2. Ledger'
    BY <1>2 DEF Ledger, NonceBoundToIdentity, MempoolSent, IdsDistinct, IdsUsed, RegisteredSpent,
         SlashedStaysOut, ReceiptsTrue, ConfirmedIsRegistered, chain
  <2> QED
    BY <1>1, <2>1, <2>2
<1>3. ASSUME KeepsIds, UNCHANGED <<keys, task, chain>>,
             \A n \in DOMAIN rows :
                rows'[n].status = "confirmed" =>
                   rows[n].status = "confirmed" \/ rows[n].id \in members \cup slashed
      PROVE  IInv'
  <2>1. TaskRow' /\ TaskFresh'
    BY <1>3 DEF TaskRow, TaskFresh, KeepsIds
  <2>2. Ledger'
    BY <1>3, RowsLedger
  <2> QED
    BY <1>1, <2>1, <2>2
<1>4. ASSUME NEW n \in mon.todo, NEW gas \in Nat, NEW list, mon.pc # "sleep",
             MonitorSend(n, gas, list), UNCHANGED <<tables, task>>
      PROVE  IInv'
  <2>1. n \in DOMAIN rows
    BY <1>4, MonSteps
  <2> DEFINE tx == [nonce |-> n, id |-> rows[n].id, gas |-> gas]
  <2>2. tx \in Tx /\ tx.nonce \in DOMAIN rows /\ rows[tx.nonce].id = tx.id
    BY <2>1 DEF TypeOK, Row, Tx
  <2>3. PICK ok \in BOOLEAN : Send(tx, ok)
    BY <1>4 DEF MonitorSend
  <2>4. Ledger'
    <3> HIDE DEF tx, IInv
    <3> QED
      BY <1>4, <2>2, <2>3, SendLedger DEF tables
  <2>5. TaskRow' /\ TaskFresh'
    BY <1>4 DEF TaskRow, TaskFresh, tables
  <2> QED
    BY <1>1, <2>4, <2>5
<1>5. CASE MonitorWake \/ MonitorRetry \/ MonitorSleep
  BY <1>2, <1>5 DEF MonitorWake, MonitorRetry, MonitorSleep, tables
<1>6. CASE CheckStuck
  <2>1. PICK n \in mon.todo :
          \/ Receipt(n, TRUE) /\ Confirmed(n)
          \/ Failed(n)
          \/ UNCHANGED rows
    BY <1>6, Zenon DEF CheckStuck
  <2>2. n \in DOMAIN rows /\ rows \in [DOMAIN rows -> Row]
    BY <1>6, MonSteps DEF CheckStuck, TypeOK
  <2>3. UNCHANGED <<keys, task, chain>>
    BY <1>6 DEF CheckStuck
  <2>4. CASE Receipt(n, TRUE) /\ Confirmed(n)
    <3>1. rows[n].id \in members \cup slashed
      BY <2>4 DEF Receipt, Ledger, ReceiptsTrue
    <3> QED
      BY <1>3, <2>2, <2>3, <2>4, <3>1, ConfirmedRow
  <2>5. CASE Failed(n)
    BY <1>3, <2>2, <2>3, <2>5, FailedRow
  <2>6. CASE UNCHANGED rows
    BY <1>2, <2>3, <2>6
  <2> QED
    BY <2>1, <2>4, <2>5, <2>6
<1>7. CASE Resend
  <2>1. PICK n \in mon.todo : MonitorSend(n, 2 * rows[n].hash, "stuck")
    BY <1>7 DEF Resend
  <2>2. n \in DOMAIN rows
    BY <1>7, MonSteps DEF Resend
  <2>3. 2 * rows[n].hash \in Nat
    BY <2>2, SMTT(20) DEF TypeOK, Row
  <2> QED
    BY <1>4, <1>7, <2>1, <2>3 DEF Resend
<1>8. CASE Retry
  <2>1. MinGas \in Nat
    BY DEF MinGas
  <2> QED
    BY <1>4, <1>8, <2>1 DEF Retry
<1>9. CASE MarkResend
  <2>1. PICK n \in mon.todo : Submitted(n, mon.gas) \/ Failed(n) \/ UNCHANGED rows
    BY <1>9, Zenon DEF MarkResend
  <2>2. n \in DOMAIN rows /\ mon.gas \in Nat /\ rows \in [DOMAIN rows -> Row]
    BY <1>9, MonSteps DEF MarkResend, TypeOK
  <2>3. UNCHANGED <<keys, task, chain>>
    BY <1>9 DEF MarkResend
  <2>4. CASE Submitted(n, mon.gas) \/ Failed(n)
    BY <1>3, <2>2, <2>3, <2>4, SubmittedRow, FailedRow
  <2> QED
    BY <1>2, <2>1, <2>3, <2>4
<1> QED
  BY <1>5, <1>6, <1>7, <1>8, <1>9 DEF Monitor

\* A crash loses the task and the pass of the monitor, and nothing that the invariant
\* needs; recover_pending confirms a row on its receipt only.
LEMMA CrashIInv ==
    ASSUME IInv, Crash \/ Restart
    PROVE  IInv'
<1> USE DEF IInv
<1>1. TypeOK'
  BY CrashType
<1>2. CASE Crash
  <2>1. TaskRow' /\ TaskFresh'
    BY <1>2 DEF Crash, Stopped, TaskRow, TaskFresh
  <2>2. Ledger'
    BY <1>2 DEF Crash, Ledger, NonceBoundToIdentity, MempoolSent, IdsDistinct, IdsUsed,
         RegisteredSpent, SlashedStaysOut, ReceiptsTrue, ConfirmedIsRegistered, tables, chain
  <2> QED
    BY <1>1, <2>1, <2>2
<1>3. CASE Restart
  <2>1. TaskRow' /\ TaskFresh'
    BY <1>3 DEF Restart, Idle, TaskRow, TaskFresh
  <2>2. PICK seen \in SUBSET DOMAIN rows :
          rows' = [n \in DOMAIN rows |-> Recovered(n, n \in seen)]
    BY <1>3 DEF Restart
  <2>3. ASSUME NEW n \in DOMAIN rows
        PROVE  /\ rows'[n] \in Row
               /\ rows'[n].id = rows[n].id
               /\ rows'[n].status = "confirmed" =>
                     rows[n].status = "confirmed" \/ rows[n].id \in members \cup slashed
    <3>1. \A b \in BOOLEAN :
            /\ Recovered(n, b) \in Row
            /\ Recovered(n, b).id = rows[n].id
            /\ Recovered(n, b).status = "confirmed" =>
                  rows[n].status = "confirmed" \/ Receipt(n, TRUE)
      BY RecoveredRow DEF TypeOK
    <3>2. (n \in seen) \in BOOLEAN /\ rows'[n] = Recovered(n, n \in seen)
      BY <2>2
    <3>3. /\ rows'[n] \in Row
          /\ rows'[n].id = rows[n].id
          /\ rows'[n].status = "confirmed" => rows[n].status = "confirmed" \/ Receipt(n, TRUE)
      BY <3>1, <3>2, Zenon
    <3>4. Receipt(n, TRUE) => rows[n].id \in members \cup slashed
      BY DEF Receipt, Ledger, ReceiptsTrue
    <3> QED
      BY <3>3, <3>4
  <2>4. KeepsIds
    BY <2>2, <2>3 DEF KeepsIds
  <2>5. Ledger'
    BY <1>3, <2>3, <2>4, RowsLedger DEF Restart
  <2> QED
    BY <1>1, <2>1, <2>5
<1> QED
  BY <1>2, <1>3

\* Every step keeps the invariant.
LEMMA NextIInv == IInv /\ [Next]_vars => IInv'
<1> SUFFICES ASSUME IInv, [Next]_vars PROVE IInv'
  OBVIOUS
<1>1. CASE UNCHANGED vars
  BY <1>1 DEF vars, tables, memory, chain, IInv, TypeOK, TaskRow, TaskFresh, Ledger,
       NonceBoundToIdentity, MempoolSent, IdsDistinct, IdsUsed, RegisteredSpent,
       SlashedStaysOut, ReceiptsTrue, ConfirmedIsRegistered
<1>2. CASE Next
  BY <1>2, ChainIInv, MineIInv, ListenerIInv, MonitorIInv, CrashIInv DEF Next, Miner
<1> QED
  BY <1>1, <1>2

\* The inductive invariant holds throughout.
THEOREM Invariance == Spec => []IInv
BY InitIInv, NextIInv, PTL DEF Spec

\* Every transaction sent with a nonce carries the registration stored for it:
\* allocate_nonce binds a nonce once and for all.
THEOREM NonceBound == Spec => []NonceBoundToIdentity
<1>1. IInv => NonceBoundToIdentity
  BY DEF IInv, Ledger
<1> QED
  BY <1>1, Invariance, PTL

\* No retry, replacement or restart makes a slashed identity a member again.
THEOREM SlashIsFinal == Spec => []SlashedStaysOut
<1>1. IInv => SlashedStaysOut
  BY DEF IInv, Ledger
<1> QED
  BY <1>1, Invariance, PTL

\* A registration marked confirmed took place.
THEOREM ConfirmationsTrue == Spec => []ConfirmedIsRegistered
<1>1. IInv => ConfirmedIsRegistered
  BY DEF IInv, Ledger
<1> QED
  BY <1>1, Invariance, PTL

-----------------------------------------------------------------------------
(***************************************************************************)
(* Without faults: what holds as long as no call fails, no process crashes *)
(* and no transaction is dropped or reverts.                               *)
(***************************************************************************)

\* The nonces in pending_registrations are those below current_nonce; the one
\* of a registration that is not sent yet is the last, and unknown to the chain.
LastNonce == IF task.pc = "inserted" THEN current ELSE current - 1

NoncesInOrder ==
    /\ DOMAIN rows = 0 .. LastNonce
    /\ chainNonce <= current
    /\ task.pc \in {"inserted", "allocated"} =>
         /\ task.nonce = LastNonce
         /\ chainNonce <= task.nonce
         /\ rows[task.nonce].status = "queued"
         /\ \A tx \in sent : tx.nonce # task.nonce

\* The monitor never holds a registration that is not sent yet.
TodoWasSent == mon.pc # "sleep" => \A n \in mon.todo : rows[n].status # "queued"

\* Who is on the way to the contract is in the database.
OnePerUser == \A i \in db : \A j \in db : i.user = j.user => i = j

OnTheWay ==
    /\ \A n \in DOMAIN rows : n >= chainNonce => rows[n].id \in db
    /\ task.pc = "queued" => task.id \in db

\* Who is in the database is or was a member, or is on the way.
Expected ==
    \A id \in db : \/ id \in members \cup slashed
                   \/ task.pc \in {"queued", "inserted", "allocated"} /\ task.id = id
                   \/ \E tx \in mempool : tx.id = id

\* Every slashed identity that is still in the database has one slash event to
\* come, and there is no other slash event.
SlashEvent(k, user) == events[k].kind = "slash" /\ events[k].user = user

SlashesAnnounced ==
    listening =>
        /\ \A id \in db \cap slashed : \E k \in 1 .. Len(events) : SlashEvent(k, id.user)
        /\ \A k \in 1 .. Len(events) : events[k].kind = "slash" =>
              \E id \in db \cap slashed : id.user = events[k].user
        /\ \A j, k \in 1 .. Len(events) :
              /\ events[j].kind = "slash" /\ events[k].kind = "slash"
              /\ events[j].user = events[k].user
              => j = k

Quiet == /\ up /\ task.pc \notin {"rejected", "undo"}
         /\ NoncesInOrder /\ TodoWasSent
         /\ OnePerUser /\ members \subseteq db /\ OnTheWay /\ Expected
         /\ SlashesAnnounced

QuietWhenCalm == Calm => Quiet

\* The logs that remain once the first is read.
LEMMA TailIs ==
    ASSUME NEW S, NEW e \in Seq(S), e # <<>>
    PROVE  /\ Len(e) \in Nat \ {0} /\ Len(Tail(e)) = Len(e) - 1 /\ Head(e) = e[1]
           /\ \A k \in 1 .. Len(e) - 1 : Tail(e)[k] = e[k + 1]
OBVIOUS

\* The logs once one is appended.
LEMMA AppendIs ==
    ASSUME NEW S, NEW e \in Seq(S), NEW x
    PROVE  /\ Len(e) \in Nat /\ Len(Append(e, x)) = Len(e) + 1
           /\ Append(e, x)[Len(e) + 1] = x
           /\ \A k \in 1 .. Len(e) : Append(e, x)[k] = e[k]
OBVIOUS

\* Faults are counted and never forgotten.
LEMMA NoFault ==
    ASSUME TypeOK, Calm', NEW what \in Faults
    PROVE  ~ Use(what)
BY DEF TypeOK, Calm, Use, Kinds

\* What counts as a fault.
LEMMA FaultsAre ==
    {"errors", "crashes", "dbErrors", "lost", "evictions", "reverts"} \subseteq Faults
BY DEF Faults

\* A step without a fault: no error, crash, failed write, lost answer, eviction
\* or revert.
Faultless ==
    /\ ~ Use("errors") /\ ~ Use("crashes") /\ ~ Use("dbErrors")
    /\ ~ Use("lost") /\ ~ Use("evictions") /\ ~ Use("reverts")

\* A step that ends in a calm state was no fault.
LEMMA NoFaults ==
    ASSUME TypeOK, Calm'
    PROVE  Faultless
<1>1. \A what \in Faults : ~ Use(what)
  BY NoFault
<1> QED
  BY <1>1, FaultsAre DEF Faultless

\* Sending a transaction uses up no fault but a failed or an unanswered call.
LEMMA SendUses ==
    ASSUME NEW tx, NEW ok, Send(tx, ok)
    PROVE  UNCHANGED used \/ Use("errors") \/ Use("lost")
BY DEF Send

\* Faults are never forgotten: before a calm state there was a calm state.
LEMMA CalmBefore ==
    ASSUME TypeOK, [Next]_vars, Calm'
    PROVE  Calm
<1>1. Faultless
  BY NoFaults
<1>2. UNCHANGED used \/ Use("events")
  <2>1. CASE \/ \E user \in Users : Mint(user)
             \/ \E id \in members : slashReveal(id)
    BY <2>1 DEF Mint, slashReveal
  <2>2. CASE Miner \/ \E tx \in mempool : Evict(tx)
    BY <1>1, <2>2, Zenon DEF Miner, Mine, register, Evict, Faultless
  <2>3. CASE Listener
    <3>1. CASE HandleMint
      BY <1>1, <3>1, Zenon DEF HandleMint, Faultless
    <3>2. CASE Submit
      BY <1>1, <3>2, SendUses DEF Submit, Faultless
    <3>3. CASE HandleSlash \/ InsertPending \/ SaveNonce \/ MarkSubmit \/ UndoRegistration
      BY <1>1, <3>3, Zenon
      DEF HandleSlash, InsertPending, SaveNonce, MarkSubmit, UndoRegistration, Faultless
    <3> QED
      BY <2>3, <3>1, <3>2, <3>3 DEF Listener
  <2>4. CASE Monitor
    <3>1. CASE Resend \/ Retry
      BY <1>1, <3>1, SendUses DEF Resend, Retry, MonitorSend, Faultless
    <3>2. CASE CheckStuck
      BY <1>1, <3>2, Zenon DEF CheckStuck, Faultless
    <3>3. CASE MarkResend
      BY <1>1, <3>3, Zenon DEF MarkResend, Faultless
    <3>4. CASE MonitorWake \/ MonitorRetry \/ MonitorSleep
      BY <3>4 DEF MonitorWake, MonitorRetry, MonitorSleep
    <3> QED
      BY <2>4, <3>1, <3>2, <3>3, <3>4 DEF Monitor
  <2>5. CASE Crash \/ Restart
    BY <1>1, <2>5 DEF Crash, Restart, Faultless
  <2>6. CASE UNCHANGED vars
    BY <2>6 DEF vars
  <2> QED
    BY <2>1, <2>2, <2>3, <2>4, <2>5, <2>6 DEF Next
<1>3. CASE UNCHANGED used
  BY <1>3 DEF Calm
<1>4. CASE Use("events")
  <2>1. \A what \in Faults : used'[what] = used[what]
    BY <1>4 DEF Use, Faults, TypeOK, Kinds
  <2> QED
    BY <2>1 DEF Calm
<1> QED
  BY <1>2, <1>3, <1>4

-----------------------------------------------------------------------------
\* A step that only moves the monitor, or changes rows it holds, disturbs
\* nothing.
LEMMA MonitorQuiet ==
    ASSUME IInv, Quiet, KeepsIds,
           UNCHANGED <<db, current, task, up, events, chain>>,
           \A n \in DOMAIN rows : rows'[n] = rows[n] \/
              (mon.pc # "sleep" /\ n \in mon.todo /\ rows'[n].status # "queued"),
           TodoWasSent'
    PROVE  Quiet'
<1> USE DEF chain
<1>1. NoncesInOrder'
  BY DEF IInv, TypeOK, Quiet, NoncesInOrder, LastNonce, TodoWasSent, TaskRow, KeepsIds
<1>2. OnTheWay'
  BY DEF Quiet, OnTheWay, KeepsIds
<1>3. OnePerUser' /\ (members \subseteq db)' /\ Expected' /\ SlashesAnnounced'
  BY DEF Quiet, OnePerUser, Expected, SlashesAnnounced, SlashEvent, listening
<1> QED
  BY <1>1, <1>2, <1>3 DEF Quiet

\* A send without a fault: accepted and acknowledged, or refused.
LEMMA SendIs ==
    ASSUME Faultless, NEW tx, NEW ok \in BOOLEAN, Send(tx, ok)
    PROVE  /\ UNCHANGED <<chainNonce, receipts, members, slashed>>
           /\ \/ ok /\ Enter(tx)
              \/ ~ok /\ ~Accepts(tx) /\ UNCHANGED <<mempool, sent>>
BY DEF Send, Faultless

\* A transaction that replaces another carries the same identity.
LEMMA EnterKeeps ==
    ASSUME IInv, NEW tx \in Tx, Enter(tx),
           tx.nonce \in DOMAIN rows, rows[tx.nonce].id = tx.id
    PROVE  /\ \A other \in mempool : \E new \in mempool' : new.id = other.id
           /\ tx \in mempool' /\ sent' = sent \cup {tx}
<1>1. \A other \in mempool : other.nonce = tx.nonce => other.id = tx.id
  BY DEF IInv, Ledger, MempoolSent, NonceBoundToIdentity
<1> QED
  BY <1>1 DEF Enter

\* What the monitor sends again in a calm run is a transaction that was sent already.
LEMMA MonitorSendQuiet ==
    ASSUME IInv, Quiet, Faultless, NEW n \in mon.todo, NEW gas \in Nat, NEW list,
           mon.pc # "sleep", MonitorSend(n, gas, list),
           UNCHANGED <<tables, current, task, up, events>>
    PROVE  Quiet'
<1> DEFINE tx == [nonce |-> n, id |-> rows[n].id, gas |-> gas]
<1>1. /\ n \in DOMAIN rows /\ rows[n].status # "queued"
      /\ UNCHANGED <<db, rows, keys>>
  BY MonSteps DEF IInv, Quiet, TodoWasSent, tables
<1>2. tx \in Tx /\ tx.nonce = n /\ tx.id = rows[n].id
  BY <1>1 DEF IInv, TypeOK, Row, Tx
<1>3. PICK ok \in BOOLEAN :
        /\ Send(tx, ok)
        /\ mon' = [pc |-> IF ok THEN "resent" ELSE "unsent",
                   todo |-> mon.todo, gas |-> gas, list |-> list]
  BY DEF MonitorSend
<1> HIDE DEF tx
<1>4. TodoWasSent'
  BY <1>1, <1>3 DEF Quiet, TodoWasSent
<1>5. /\ UNCHANGED <<chainNonce, members, slashed>>
      /\ \A other \in mempool : \E new \in mempool' : new.id = other.id
      /\ sent' \subseteq sent \cup {tx}
  <2>1. UNCHANGED <<chainNonce, members, slashed>>
    BY <1>3, SendIs
  <2>2. Enter(tx) \/ UNCHANGED <<mempool, sent>>
    BY <1>3, SendIs
  <2>3. CASE Enter(tx)
    BY <1>1, <1>2, <2>1, <2>3, EnterKeeps
  <2>4. CASE UNCHANGED <<mempool, sent>>
    BY <2>1, <2>4
  <2> QED
    BY <2>2, <2>3, <2>4
<1>6. NoncesInOrder'
  BY <1>1, <1>2, <1>5 DEF Quiet, NoncesInOrder, LastNonce
<1>7. OnTheWay' /\ OnePerUser' /\ (members \subseteq db)' /\ SlashesAnnounced'
  BY <1>1, <1>5 DEF Quiet, OnTheWay, OnePerUser, SlashesAnnounced, SlashEvent, listening
<1>8. Expected'
  BY <1>1, <1>5, SMTT(20) DEF Quiet, Expected
<1> QED
  BY <1>4, <1>6, <1>7, <1>8 DEF Quiet

\* What the updates of a row leave of its status.
LEMMA UpdatedStatus ==
    ASSUME rows \in [DOMAIN rows -> Row], NEW n \in DOMAIN rows, NEW gas \in Nat,
           Submitted(n, gas) \/ Confirmed(n) \/ Failed(n)
    PROVE  /\ KeepsIds /\ rows'[n].status # "queued"
           /\ \A m \in DOMAIN rows \ {n} : rows'[m] = rows[m]
<1>1. KeepsIds
  BY SubmittedRow, ConfirmedRow, FailedRow
<1>2. rows'[n].status # "queued"
  BY SMTT(20) DEF Submitted, Confirmed, Failed, Row
<1>3. \A m \in DOMAIN rows \ {n} : rows'[m] = rows[m]
  BY DEF Submitted, Confirmed, Failed
<1> QED
  BY <1>1, <1>2, <1>3

\* No step of the monitor's pass disturbs a calm run.
LEMMA MonitorKeepsQuiet ==
    ASSUME IInv, Quiet, Faultless, Monitor
    PROVE  Quiet'
<1>1. /\ rows \in [DOMAIN rows -> Row] /\ TypeOK
      /\ \A n \in DOMAIN rows : rows[n].hash \in Nat
      /\ MinGas \in Nat
  BY DEF IInv, TypeOK, Row, MinGas
<1>2. ASSUME UNCHANGED rows, TodoWasSent',
             UNCHANGED <<db, current, task, up, events, chain>>
      PROVE  Quiet'
  <2>1. KeepsIds
    BY <1>1, <1>2 DEF KeepsIds
  <2> QED
    BY <1>2, <2>1, MonitorQuiet
<1>3. ASSUME NEW n \in mon.todo, NEW gas \in Nat, NEW list, mon.pc # "sleep",
             Submitted(n, gas) \/ Confirmed(n) \/ Failed(n),
             mon' = Handled(n, list),
             UNCHANGED <<db, current, task, up, events, chain>>
      PROVE  Quiet'
  <2>1. n \in DOMAIN rows
    BY <1>1, <1>3, MonSteps
  <2>2. /\ KeepsIds /\ rows'[n].status # "queued"
        /\ \A m \in DOMAIN rows \ {n} : rows'[m] = rows[m]
    BY <1>1, <1>3, <2>1, UpdatedStatus
  <2>3. TodoWasSent'
    <3>1. mon'.todo = mon.todo \ {n} /\ mon.todo \subseteq DOMAIN rows
      BY <1>1, <1>3, MonSteps DEF Handled
    <3> QED
      BY <1>3, <2>2, <3>1 DEF Quiet, TodoWasSent
  <2> QED
    BY <1>3, <2>1, <2>2, <2>3, MonitorQuiet
<1>4. CASE MonitorWake
  <2>1. TodoWasSent'
    BY <1>4, SMTT(20) DEF MonitorWake, TodoWasSent, Stuck, tables
  <2> QED
    BY <1>2, <1>4, <2>1 DEF MonitorWake, tables
<1>5. CASE MonitorRetry
  <2>1. TodoWasSent'
    BY <1>5 DEF MonitorRetry, TodoWasSent, Retriable, tables
  <2> QED
    BY <1>2, <1>5, <2>1 DEF MonitorRetry, tables
<1>6. CASE MonitorSleep
  <2>1. TodoWasSent'
    BY <1>6 DEF MonitorSleep, TodoWasSent
  <2> QED
    BY <1>2, <1>6, <2>1 DEF MonitorSleep, tables
<1>7. CASE CheckStuck
  <2>1. PICK n \in mon.todo :
          \/ (Confirmed(n) \/ Failed(n)) /\ mon' = Handled(n, "stuck")
          \/ mon' = [pc |-> "resend", todo |-> mon.todo] /\ UNCHANGED rows
    BY <1>7, Zenon DEF CheckStuck, Faultless
  <2>2. mon.pc # "sleep" /\ UNCHANGED <<db, current, task, up, events, chain>>
    BY <1>7 DEF CheckStuck
  <2>3. CASE mon' = [pc |-> "resend", todo |-> mon.todo] /\ UNCHANGED rows
    <3>1. TodoWasSent'
      BY <2>2, <2>3 DEF Quiet, TodoWasSent
    <3> QED
      BY <1>2, <2>2, <2>3, <3>1
  <2> QED
    BY <1>1, <1>3, <2>1, <2>2, <2>3
<1>8. CASE Resend
  <2>1. PICK n \in mon.todo : MonitorSend(n, 2 * rows[n].hash, "stuck")
    BY <1>8 DEF Resend
  <2>2. mon.pc # "sleep" /\ UNCHANGED <<tables, current, task, up, events>>
    BY <1>8 DEF Resend
  <2>3. n \in DOMAIN rows
    BY <1>1, <2>2, MonSteps
  <2>4. 2 * rows[n].hash \in Nat
    BY <1>1, <2>3
  <2> QED
    BY <2>1, <2>2, <2>4, MonitorSendQuiet
<1>9. CASE Retry
  <2>1. PICK n \in mon.todo : MonitorSend(n, MinGas, "retry")
    BY <1>9 DEF Retry
  <2>2. mon.pc # "sleep" /\ UNCHANGED <<tables, current, task, up, events>>
    BY <1>9 DEF Retry
  <2> QED
    BY <1>1, <2>1, <2>2, MonitorSendQuiet
<1>10. CASE MarkResend
  <2>1. PICK n \in mon.todo :
          (Submitted(n, mon.gas) \/ Failed(n)) /\ mon' = Handled(n, mon.list)
    BY <1>10, Zenon DEF MarkResend, Faultless
  <2>2. mon.pc # "sleep" /\ UNCHANGED <<db, current, task, up, events, chain>>
    BY <1>10 DEF MarkResend
  <2>3. mon.gas \in Nat
    BY <1>1, <1>10, <2>2, MonSteps DEF MarkResend
  <2> QED
    BY <1>3, <2>1, <2>2, <2>3
<1> QED
  BY <1>4, <1>5, <1>6, <1>7, <1>8, <1>9, <1>10 DEF Monitor

\* The logs that the listener has not read are a sequence.
LEMMA EventsSeq ==
    ASSUME TypeOK
    PROVE  events \in Seq([kind : {"mint", "slash"}, user : Users])
BY DEF TypeOK

\* A mint adds a log, and with it the user to those still to be registered.
LEMMA MintQuiet ==
    ASSUME IInv, Quiet, NEW user \in Users, Mint(user)
    PROVE  Quiet'
<1>1. /\ UNCHANGED <<db, rows, current, task, mon, up, mempool, chainNonce, members,
                     slashed, sent>>
      /\ events' = events \/ events' = Append(events, [kind |-> "mint", user |-> user])
  BY DEF Mint, Emit, tables, chain
<1>2. SlashesAnnounced'
  <2>1. CASE events' = events
    BY <1>1, <2>1 DEF Quiet, SlashesAnnounced, SlashEvent, listening
  <2>2. CASE events' = Append(events, [kind |-> "mint", user |-> user])
    <3> DEFINE x == [kind |-> "mint", user |-> user]
               n == Len(events)
    <3>1. /\ n \in Nat /\ Len(events') = n + 1
          /\ events'[n + 1] = x
          /\ \A k \in 1 .. n : events'[k] = events[k]
      BY <2>2, EventsSeq, AppendIs DEF IInv
    <3>2. events'[n + 1].kind = "mint"
      BY <3>1
    <3> HIDE DEF n, x
    <3>3. \A k \in 1 .. n + 1 : events'[k].kind = "slash" => k \in 1 .. n
      BY <3>1, <3>2
    <3>4. \A k \in 1 .. n : k \in 1 .. n + 1
      BY <3>1
    <3> QED
      BY <1>1, <3>1, <3>3, <3>4, SMTT(20) DEF Quiet, SlashesAnnounced, SlashEvent, listening, n
  <2> QED
    BY <1>1, <2>1, <2>2
<1>3. NoncesInOrder' /\ TodoWasSent'
  BY <1>1 DEF Quiet, NoncesInOrder, LastNonce, TodoWasSent
<1>4. OnePerUser' /\ (members \subseteq db)' /\ OnTheWay' /\ Expected'
  BY <1>1 DEF Quiet, OnePerUser, OnTheWay, Expected
<1> QED
  BY <1>1, <1>2, <1>3, <1>4 DEF Quiet

\* The user of the slashed identity has no slash event to come: the one in the
\* database is the one slashed, and was not slashed before.
LEMMA SlashQuiet ==
    ASSUME IInv, Quiet, NEW id \in members, slashReveal(id)
    PROVE  Quiet'
<1>1. /\ UNCHANGED <<db, rows, current, task, mon, up, mempool, chainNonce, sent>>
      /\ members' = members \ {id} /\ slashed' = slashed \cup {id}
      /\ id \in db /\ id \notin slashed
      /\ events' = IF listening THEN Append(events, [kind |-> "slash", user |-> id.user])
                                ELSE events
  BY DEF slashReveal, Emit, tables, Quiet, IInv, Ledger, SlashedStaysOut
<1>2. SlashesAnnounced'
  <2>1. CASE ~ listening
    BY <1>1, <2>1 DEF SlashesAnnounced, listening
  <2>2. CASE listening
    <3> DEFINE x == [kind |-> "slash", user |-> id.user]
               n == Len(events)
    <3>1. /\ n \in Nat /\ Len(events') = n + 1
          /\ events'[n + 1] = x
          /\ \A k \in 1 .. n : events'[k] = events[k]
      BY <1>1, <2>2, EventsSeq, AppendIs DEF IInv
    <3>2. events'[n + 1].kind = "slash" /\ events'[n + 1].user = id.user
      BY <3>1
    <3>3. \A k \in 1 .. n : ~ SlashEvent(k, id.user)
      BY <1>1, <2>2, SMTT(20) DEF Quiet, SlashesAnnounced, SlashEvent, OnePerUser
    <3>4. /\ \A i \in db \cap slashed : \E k \in 1 .. n : SlashEvent(k, i.user)
          /\ \A k \in 1 .. n : events[k].kind = "slash" =>
                \E i \in db \cap slashed : i.user = events[k].user
          /\ \A j, k \in 1 .. n :
                /\ events[j].kind = "slash" /\ events[k].kind = "slash"
                /\ events[j].user = events[k].user
                => j = k
      BY <2>2 DEF Quiet, SlashesAnnounced
    <3> HIDE DEF n, x
    <3>5. \A k \in 1 .. n + 1 : k \in 1 .. n \/ k = n + 1
      BY <3>1
    <3>6. (\A k \in 1 .. n : k \in 1 .. n + 1) /\ n + 1 \in 1 .. n + 1
      BY <3>1
    <3>7. \A i \in db \cap slashed' : \E k \in 1 .. n + 1 : SlashEvent(k, i.user)'
      BY <1>1, <3>1, <3>2, <3>4, <3>6, SMTT(20) DEF SlashEvent
    <3>8. \A k \in 1 .. n + 1 : events'[k].kind = "slash" =>
            \E i \in db \cap slashed' : i.user = events'[k].user
      BY <1>1, <3>1, <3>2, <3>4, <3>5
    <3>9. \A j, k \in 1 .. n + 1 :
            /\ events'[j].kind = "slash" /\ events'[k].kind = "slash"
            /\ events'[j].user = events'[k].user
            => j = k
      BY <3>1, <3>2, <3>3, <3>4, <3>5, SMTT(20) DEF SlashEvent
    <3> QED
      BY <1>1, <3>1, <3>7, <3>8, <3>9 DEF SlashesAnnounced
  <2> QED
    BY <2>1, <2>2
<1>3. NoncesInOrder' /\ TodoWasSent'
  BY <1>1 DEF Quiet, NoncesInOrder, LastNonce, TodoWasSent
<1>4. OnePerUser' /\ (members \subseteq db)' /\ OnTheWay' /\ Expected'
  BY <1>1 DEF Quiet, OnePerUser, OnTheWay, Expected
<1> QED
  BY <1>1, <1>2, <1>3, <1>4 DEF Quiet

\* Mining a registration makes a member of the identity that the table has for it.
LEMMA MineQuiet ==
    ASSUME IInv, Quiet, Faultless, NEW tx \in mempool, Mine(tx)
    PROVE  Quiet'
<1>1. /\ UNCHANGED <<db, rows, current, task, mon, up, events, slashed, sent>>
      /\ tx.nonce = chainNonce /\ chainNonce' = chainNonce + 1
      /\ mempool' = mempool \ {tx}
  BY DEF Mine, tables, memory
<1>2. members' = members \cup {tx.id}
  BY Zenon DEF Mine, register, Faultless
<1>3. tx \in sent /\ tx.nonce \in DOMAIN rows /\ rows[tx.nonce].id = tx.id
  BY DEF IInv, Ledger, MempoolSent, NonceBoundToIdentity
<1>4. chainNonce \in Nat /\ current \in Nat /\ DOMAIN rows \subseteq Nat
  BY DEF IInv, TypeOK
<1>5. tx.id \in db
  BY <1>1, <1>3, <1>4 DEF Quiet, OnTheWay
<1>6. NoncesInOrder'
  <2>1. chainNonce + 1 <= current
    BY <1>1, <1>3, <1>4 DEF Quiet, NoncesInOrder, LastNonce
  <2>2. task.pc \in {"inserted", "allocated"} => chainNonce + 1 <= task.nonce
    BY <1>1, <1>3, <1>4 DEF Quiet, NoncesInOrder, LastNonce
  <2> QED
    BY <1>1, <2>1, <2>2 DEF Quiet, NoncesInOrder, LastNonce
<1>7. TodoWasSent' /\ OnePerUser' /\ (members \subseteq db)'
  BY <1>1, <1>2, <1>5 DEF Quiet, TodoWasSent, OnePerUser
<1>8. OnTheWay'
  BY <1>1, <1>4 DEF Quiet, OnTheWay
<1>9. Expected'
  BY <1>1, <1>2 DEF Quiet, Expected
<1>10. SlashesAnnounced'
  BY <1>1 DEF Quiet, SlashesAnnounced, SlashEvent, listening
<1> QED
  BY <1>1, <1>6, <1>7, <1>8, <1>9, <1>10 DEF Quiet

-----------------------------------------------------------------------------
\* Handling the first event.
LEMMA FirstEvent ==
    ASSUME IInv, Quiet, events # <<>>, events' = Tail(events), listening,
           NEW n, n = Len(events)
    PROVE  /\ n \in Nat \ {0} /\ Len(events') = n - 1
           /\ Head(events) = events[1] /\ events[1].user \in Users
           /\ \A k \in 1 .. n - 1 : events'[k] = events[k + 1] /\ k + 1 \in 1 .. n
           /\ \A k \in 1 .. n : k = 1 \/ (k - 1 \in 1 .. n - 1 /\ events'[k - 1] = events[k])
           /\ \A i \in db \cap slashed : \E k \in 1 .. n : SlashEvent(k, i.user)
           /\ \A k \in 1 .. n : events[k].kind = "slash" =>
                \E i \in db \cap slashed : i.user = events[k].user
           /\ \A j, k \in 1 .. n :
                /\ events[j].kind = "slash" /\ events[k].kind = "slash"
                /\ events[j].user = events[k].user
                => j = k
<1> DEFINE E == [kind : {"mint", "slash"}, user : Users]
<1>1. events \in Seq(E)
  BY EventsSeq DEF IInv
<1>2. \A e \in E : e.user \in Users
  OBVIOUS
<1> HIDE DEF E
<1>3. /\ n \in Nat \ {0} /\ Len(events') = n - 1 /\ Head(events) = events[1]
      /\ \A k \in 1 .. n - 1 : events'[k] = events[k + 1]
  BY <1>1, TailIs
<1>4. events[1].user \in Users
  BY <1>1, <1>2, <1>3, SMTT(20)
<1>5. /\ \A k \in 1 .. n - 1 : k + 1 \in 1 .. n
      /\ \A k \in 1 .. n : k = 1 \/ (k - 1 \in 1 .. n - 1 /\ (k - 1) + 1 = k)
  BY <1>3, SMTT(20)
<1>6. /\ \A i \in db \cap slashed : \E k \in 1 .. n : SlashEvent(k, i.user)
      /\ \A k \in 1 .. n : events[k].kind = "slash" =>
           \E i \in db \cap slashed : i.user = events[k].user
      /\ \A j, k \in 1 .. n :
           /\ events[j].kind = "slash" /\ events[k].kind = "slash"
           /\ events[j].user = events[k].user
           => j = k
  BY DEF Quiet, SlashesAnnounced
<1> QED
  BY <1>3, <1>4, <1>5, <1>6

\* A mint takes no slash event away, and the identity it makes is fresh.
LEMMA HandleMintQuiet ==
    ASSUME IInv, Quiet, Faultless, HandleMint
    PROVE  Quiet'
<1> DEFINE user == Head(events).user
           id == FreshIdentity(user)
           n == Len(events)
<1>1. /\ task.pc = "idle" /\ events # <<>> /\ Head(events).kind = "mint"
      /\ events' = Tail(events)
      /\ UNCHANGED <<rows, current, mon, up, mempool, chainNonce, members, slashed, sent>>
  BY DEF HandleMint, chain
<1>2. listening
  BY <1>1 DEF listening
<1>3. \/ UNCHANGED <<db, task>>
      \/ ~ hasUser(user) /\ db' = db \cup {id}
         /\ task' = [pc |-> "queued", id |-> id, nonce |-> current]
      \/ UNCHANGED db /\ task' = Stopped
  BY Zenon DEF HandleMint, Faultless
<1>4. id.user = user /\ id.key = keys /\ keys \in Nat
  BY ConstantsAssumption, SMTT(20) DEF FreshIdentity, IInv, TypeOK
<1>5. id \notin members \cup slashed
  BY <1>4, SMTT(20) DEF IInv, TypeOK, Row, Identity, Ledger, RegisteredSpent, IdsUsed
<1>6. \A i \in db : i.user = user => hasUser(user)
  BY DEF hasUser
<1> HIDE DEF id, user
<1>7. SlashesAnnounced'
  <2>1. db' \cap slashed' = db \cap slashed
    BY <1>1, <1>3, <1>5
  <2>2. /\ n \in Nat \ {0} /\ Len(events') = n - 1 /\ events[1].kind = "mint"
        /\ \A k \in 1 .. n - 1 : events'[k] = events[k + 1] /\ k + 1 \in 1 .. n
        /\ \A k \in 1 .. n : k = 1 \/ (k - 1 \in 1 .. n - 1 /\ events'[k - 1] = events[k])
        /\ \A i \in db \cap slashed : \E k \in 1 .. n : SlashEvent(k, i.user)
        /\ \A k \in 1 .. n : events[k].kind = "slash" =>
             \E i \in db \cap slashed : i.user = events[k].user
        /\ \A j, k \in 1 .. n :
             /\ events[j].kind = "slash" /\ events[k].kind = "slash"
             /\ events[j].user = events[k].user
             => j = k
    BY <1>1, <1>2, FirstEvent
  <2> HIDE DEF n
  <2>3. \A i \in db \cap slashed : \E k \in 1 .. n - 1 : SlashEvent(k, i.user)'
    <3> SUFFICES ASSUME NEW i \in db \cap slashed
                 PROVE  \E k \in 1 .. n - 1 : SlashEvent(k, i.user)'
      OBVIOUS
    <3>1. PICK k \in 1 .. n : SlashEvent(k, i.user)
      BY <2>2
    <3>2. k # 1
      BY <2>2, <3>1 DEF SlashEvent
    <3>3. k - 1 \in 1 .. n - 1 /\ events'[k - 1] = events[k]
      BY <2>2, <3>2
    <3>4. SlashEvent(k - 1, i.user)'
      BY <3>1, <3>3 DEF SlashEvent
    <3> QED
      BY <3>3, <3>4
  <2>4. \A k \in 1 .. n - 1 : events'[k].kind = "slash" =>
          \E i \in db \cap slashed : i.user = events'[k].user
    <3> SUFFICES ASSUME NEW k \in 1 .. n - 1, events'[k].kind = "slash"
                 PROVE  \E i \in db \cap slashed : i.user = events'[k].user
      OBVIOUS
    <3>1. events'[k] = events[k + 1] /\ k + 1 \in 1 .. n
      BY <2>2
    <3> QED
      BY <2>2, <3>1, SMTT(20)
  <2>5. \A j, k \in 1 .. n - 1 :
          /\ events'[j].kind = "slash" /\ events'[k].kind = "slash"
          /\ events'[j].user = events'[k].user
          => j = k
    <3> SUFFICES ASSUME NEW j \in 1 .. n - 1, NEW k \in 1 .. n - 1,
                        events'[j].kind = "slash", events'[k].kind = "slash",
                        events'[j].user = events'[k].user
                 PROVE  j = k
      OBVIOUS
    <3>1. /\ events'[j] = events[j + 1] /\ j + 1 \in 1 .. n
          /\ events'[k] = events[k + 1] /\ k + 1 \in 1 .. n
      BY <2>2
    <3>2. j + 1 = k + 1
      BY <2>2, <3>1
    <3> QED
      BY <3>2
  <2> QED
    BY <2>1, <2>2, <2>3, <2>4, <2>5 DEF SlashesAnnounced
<1>8. task'.pc \in {"idle", "queued", "stopped"}
  BY <1>1, <1>3 DEF Stopped
<1>9. NoncesInOrder' /\ TodoWasSent'
  BY <1>1, <1>8 DEF Quiet, NoncesInOrder, LastNonce, TodoWasSent
<1>10. OnePerUser' /\ (members \subseteq db)'
  BY <1>1, <1>3, <1>4, <1>6 DEF Quiet, OnePerUser
<1>11. OnTheWay'
  BY <1>1, <1>3, <1>8 DEF Quiet, OnTheWay, Stopped
<1>12. Expected'
  BY <1>1, <1>3, SMTT(20) DEF Quiet, Expected
<1> QED
  BY <1>1, <1>7, <1>8, <1>9, <1>10, <1>11, <1>12 DEF Quiet

\* A slash event removes the identity that was slashed and no other.
LEMMA HandleSlashQuiet ==
    ASSUME IInv, Quiet, Faultless, HandleSlash
    PROVE  Quiet'
<1> DEFINE user == Head(events).user
           n == Len(events)
<1>1. /\ task.pc = "idle" /\ events # <<>> /\ Head(events).kind = "slash"
      /\ events' = Tail(events)
      /\ UNCHANGED <<rows, current, task, mon, up, mempool, chainNonce, members, slashed, sent>>
      /\ db' = Without(user)
  BY DEF HandleSlash, chain, Faultless
<1>2. listening
  BY <1>1 DEF listening
<1>3. /\ n \in Nat \ {0} /\ Len(events') = n - 1
      /\ events[1].kind = "slash" /\ events[1].user = user /\ 1 \in 1 .. n
      /\ \A k \in 1 .. n - 1 : events'[k] = events[k + 1] /\ k + 1 \in 1 .. n
      /\ \A k \in 1 .. n : k = 1 \/ (k - 1 \in 1 .. n - 1 /\ events'[k - 1] = events[k])
      /\ \A i \in db \cap slashed : \E k \in 1 .. n : SlashEvent(k, i.user)
      /\ \A k \in 1 .. n : events[k].kind = "slash" =>
           \E i \in db \cap slashed : i.user = events[k].user
      /\ \A j, k \in 1 .. n :
           /\ events[j].kind = "slash" /\ events[k].kind = "slash"
           /\ events[j].user = events[k].user
           => j = k
  BY <1>1, <1>2, FirstEvent, SMTT(20)
<1> HIDE DEF n, user
<1>4. PICK gone \in db \cap slashed : gone.user = user
  BY <1>3
<1>5. db' = db \ {gone}
  BY <1>1, <1>4 DEF Without, Quiet, OnePerUser
<1>6. SlashesAnnounced'
  <2>1. \A i \in db' \cap slashed' : \E k \in 1 .. n - 1 : SlashEvent(k, i.user)'
    <3> SUFFICES ASSUME NEW i \in db \cap slashed, i.user # user
                 PROVE  \E k \in 1 .. n - 1 : SlashEvent(k, i.user)'
      BY <1>1 DEF Without
    <3>1. PICK k \in 1 .. n : SlashEvent(k, i.user)
      BY <1>3
    <3>2. k # 1
      BY <1>3, <3>1 DEF SlashEvent
    <3>3. k - 1 \in 1 .. n - 1 /\ events'[k - 1] = events[k]
      BY <1>3, <3>2
    <3>4. SlashEvent(k - 1, i.user)'
      BY <3>1, <3>3 DEF SlashEvent
    <3> QED
      BY <3>3, <3>4
  <2>2. \A k \in 1 .. n - 1 : events'[k].kind = "slash" =>
          \E i \in db' \cap slashed' : i.user = events'[k].user
    <3> SUFFICES ASSUME NEW k \in 1 .. n - 1, events'[k].kind = "slash"
                 PROVE  \E i \in db' \cap slashed' : i.user = events'[k].user
      OBVIOUS
    <3>1. /\ events'[k] = events[k + 1] /\ k + 1 \in 1 .. n /\ k + 1 # 1
      BY <1>3, SMTT(20)
    <3>2. events'[k].user # user
      BY <1>3, <3>1
    <3> DEFINE m == k + 1
    <3> HIDE DEF m
    <3>3. m \in 1 .. n /\ events[m] = events'[k]
      BY <3>1 DEF m
    <3>4. events[m].kind = "slash" => \E i \in db \cap slashed : i.user = events[m].user
      BY <1>3, <3>3
    <3>5. events[m].kind = "slash" /\ events[m].user = events'[k].user
      BY <3>3
    <3>6. PICK i \in db \cap slashed : i.user = events'[k].user
      BY <3>4, <3>5
    <3> QED
      BY <1>1, <1>4, <1>5, <3>2, <3>6
  <2>3. \A j, k \in 1 .. n - 1 :
          /\ events'[j].kind = "slash" /\ events'[k].kind = "slash"
          /\ events'[j].user = events'[k].user
          => j = k
    <3> SUFFICES ASSUME NEW j \in 1 .. n - 1, NEW k \in 1 .. n - 1,
                        events'[j].kind = "slash", events'[k].kind = "slash",
                        events'[j].user = events'[k].user
                 PROVE  j = k
      OBVIOUS
    <3>1. /\ events'[j] = events[j + 1] /\ j + 1 \in 1 .. n
          /\ events'[k] = events[k + 1] /\ k + 1 \in 1 .. n
      BY <1>3
    <3>2. j + 1 = k + 1
      BY <1>3, <3>1
    <3> QED
      BY <3>2
  <2> QED
    BY <1>3, <2>1, <2>2, <2>3 DEF SlashesAnnounced
<1>7. NoncesInOrder' /\ TodoWasSent'
  BY <1>1 DEF Quiet, NoncesInOrder, LastNonce, TodoWasSent
<1>8. OnePerUser' /\ (members \subseteq db)'
  BY <1>1, <1>4, <1>5 DEF Quiet, OnePerUser, IInv, Ledger, SlashedStaysOut
<1>9. OnTheWay'
  <2> SUFFICES ASSUME NEW m \in DOMAIN rows, m >= chainNonce
               PROVE  rows[m].id # gone
    BY <1>1, <1>5 DEF Quiet, OnTheWay
  <2>1. PICK l \in DOMAIN rows : rows[l].id = gone /\ l < chainNonce
    BY DEF IInv, Ledger, RegisteredSpent
  <2>2. l # m
    BY <2>1, SMTT(20) DEF IInv, TypeOK
  <2> QED
    BY <2>1, <2>2 DEF IInv, Ledger, IdsDistinct
<1>10. Expected'
  BY <1>1, <1>5 DEF Quiet, Expected
<1> QED
  BY <1>1, <1>6, <1>7, <1>8, <1>9, <1>10 DEF Quiet

\* The nonce is new, so the INSERT succeeds.
LEMMA InsertQuiet ==
    ASSUME IInv, Quiet, Faultless, InsertPending
    PROVE  Quiet'
<1>1. /\ task.pc = "queued" /\ current \in Nat
      /\ UNCHANGED <<db, current, mon, up, events, mempool, chainNonce, members, slashed, sent>>
  BY DEF InsertPending, chain, IInv, TypeOK
<1>2. DOMAIN rows = 0 .. current - 1 /\ chainNonce <= current
  BY <1>1 DEF Quiet, NoncesInOrder, LastNonce
<1>3. current \notin DOMAIN rows /\ DOMAIN rows \cup {current} = 0 .. current
  BY <1>1, <1>2
<1>4. /\ rows' = [m \in DOMAIN rows \cup {current} |->
                    IF m = current
                    THEN [id |-> task.id, hash |-> 0, attempts |-> 0, status |-> "queued"]
                    ELSE rows[m]]
      /\ task' = [pc |-> "inserted", id |-> task.id, nonce |-> current]
  BY <1>3, Zenon DEF InsertPending, Taken, Faultless
<1>5. /\ DOMAIN rows' = 0 .. current
      /\ rows'[current].id = task.id /\ rows'[current].status = "queued"
      /\ \A m \in DOMAIN rows : rows'[m] = rows[m]
  BY <1>3, <1>4
<1>6. \A tx \in sent : tx.nonce # current
  BY <1>3 DEF IInv, Ledger, NonceBoundToIdentity
<1>7. NoncesInOrder'
  BY <1>1, <1>2, <1>4, <1>5, <1>6 DEF NoncesInOrder, LastNonce
<1>8. TodoWasSent'
  <2>1. mon.pc # "sleep" => mon.todo \subseteq DOMAIN rows
    BY MonSteps DEF IInv
  <2> QED
    BY <1>1, <1>5, <2>1 DEF Quiet, TodoWasSent
<1>9. OnTheWay'
  BY <1>1, <1>3, <1>4, <1>5 DEF Quiet, OnTheWay
<1>10. Expected'
  BY <1>1, <1>4 DEF Quiet, Expected
<1>11. OnePerUser' /\ (members \subseteq db)' /\ SlashesAnnounced'
  BY <1>1, <1>4 DEF Quiet, OnePerUser, SlashesAnnounced, SlashEvent, listening
<1> QED
  BY <1>1, <1>4, <1>7, <1>8, <1>9, <1>10, <1>11 DEF Quiet

\* Saving the row of a registration, its nonce and its identity.
LEMMA SaveNonceQuiet ==
    ASSUME IInv, Quiet, Faultless, SaveNonce
    PROVE  Quiet'
<1>1. /\ task.pc = "inserted" /\ current' = task.nonce + 1
      /\ task' = Step("allocated")
      /\ UNCHANGED <<db, rows, mon, up, events, mempool, chainNonce, members, slashed, sent>>
      /\ current \in Nat /\ chainNonce \in Nat
  BY DEF SaveNonce, chain, IInv, TypeOK, Faultless
<1>2. task'.pc = "allocated" /\ task'.id = task.id /\ task'.nonce = task.nonce
  BY <1>1 DEF Step
<1>3. NoncesInOrder'
  BY <1>1, <1>2 DEF Quiet, NoncesInOrder, LastNonce
<1>4. TodoWasSent' /\ OnTheWay' /\ Expected'
  BY <1>1, <1>2 DEF Quiet, TodoWasSent, OnTheWay, Expected
<1>5. OnePerUser' /\ (members \subseteq db)' /\ SlashesAnnounced'
  BY <1>1, <1>2 DEF Quiet, OnePerUser, SlashesAnnounced, SlashEvent, listening
<1> QED
  BY <1>1, <1>2, <1>3, <1>4, <1>5 DEF Quiet

\* The node has seen no transaction with this nonce, so it accepts it.
LEMMA SubmitQuiet ==
    ASSUME IInv, Quiet, Faultless, Submit
    PROVE  Quiet'
<1> DEFINE tx == [nonce |-> task.nonce, id |-> task.id, gas |-> MinGas]
<1>1. /\ task.pc = "allocated"
      /\ UNCHANGED <<db, rows, current, mon, up, events>>
      /\ \E ok \in BOOLEAN : Send(tx, ok) /\ task' = Step(IF ok THEN "sent" ELSE "rejected")
  BY DEF Submit, tables
<1>2. task.id \in Identity /\ task.nonce \in Nat
  BY <1>1, TaskStep DEF busy, IInv
<1>3. /\ tx \in Tx /\ tx.nonce = task.nonce /\ tx.id = task.id
      /\ tx.nonce \in DOMAIN rows /\ rows[tx.nonce].id = tx.id
  BY <1>1, <1>2 DEF Tx, MinGas, IInv, TaskRow
<1>4. chainNonce \in Nat /\ mempool \subseteq sent
  BY DEF IInv, TypeOK, Ledger, MempoolSent
<1> HIDE DEF tx
<1>5. Accepts(tx)
  BY <1>1, <1>2, <1>3, <1>4 DEF Accepts, Quiet, NoncesInOrder
<1>6. PICK ok \in BOOLEAN : Send(tx, ok) /\ task' = Step(IF ok THEN "sent" ELSE "rejected")
  BY <1>1
<1>7. ok /\ Enter(tx) /\ UNCHANGED <<chainNonce, members, slashed>>
  BY <1>5, <1>6, SendIs
<1>8. task'.pc = "sent" /\ task'.id = task.id
  BY <1>6, <1>7 DEF Step
<1>9. /\ \A other \in mempool : \E new \in mempool' : new.id = other.id
      /\ tx \in mempool'
  BY <1>3, <1>7, EnterKeeps
<1>10. NoncesInOrder' /\ TodoWasSent' /\ OnTheWay'
  BY <1>1, <1>7, <1>8 DEF Quiet, NoncesInOrder, LastNonce, TodoWasSent, OnTheWay
<1>11. Expected'
  BY <1>1, <1>3, <1>7, <1>9, SMTT(20) DEF Quiet, Expected
<1>12. OnePerUser' /\ (members \subseteq db)' /\ SlashesAnnounced'
  BY <1>1, <1>7, <1>8 DEF Quiet, OnePerUser, SlashesAnnounced, SlashEvent, listening
<1> QED
  BY <1>1, <1>8, <1>10, <1>11, <1>12 DEF Quiet

\* Marking a row as submitted, with the hash of its transaction.
LEMMA MarkSubmitQuiet ==
    ASSUME IInv, Quiet, Faultless, MarkSubmit
    PROVE  Quiet'
<1>1. /\ task.pc = "sent" /\ Submitted(task.nonce, MinGas) /\ task' = Idle
      /\ UNCHANGED <<db, current, mon, up, events, mempool, chainNonce, members, slashed, sent>>
  BY DEF MarkSubmit, chain, Quiet, Faultless
<1>2. task.nonce \in DOMAIN rows /\ MinGas \in Nat /\ rows \in [DOMAIN rows -> Row]
  BY <1>1 DEF IInv, TaskRow, TypeOK, MinGas
<1>3. /\ KeepsIds /\ rows'[task.nonce].status # "queued"
      /\ \A m \in DOMAIN rows \ {task.nonce} : rows'[m] = rows[m]
  BY <1>1, <1>2, UpdatedStatus
<1>4. task'.pc = "idle"
  BY <1>1 DEF Idle
<1>5. NoncesInOrder' /\ OnTheWay'
  BY <1>1, <1>3, <1>4 DEF Quiet, NoncesInOrder, LastNonce, OnTheWay, KeepsIds
<1>6. TodoWasSent'
  <2>1. mon.pc # "sleep" => mon.todo \subseteq DOMAIN rows
    BY MonSteps DEF IInv
  <2> QED
    BY <1>1, <1>3, <2>1 DEF Quiet, TodoWasSent
<1>7. Expected' /\ OnePerUser' /\ (members \subseteq db)'
  BY <1>1, <1>4 DEF Quiet, Expected, OnePerUser
<1>8. SlashesAnnounced'
  BY <1>1, <1>4 DEF Quiet, SlashesAnnounced, SlashEvent, listening
<1> QED
  BY <1>1, <1>4, <1>5, <1>6, <1>7, <1>8 DEF Quiet

\* A run starts calm and quiet.
LEMMA InitQuiet == Init => QuietWhenCalm
<1> SUFFICES ASSUME Init PROVE Quiet
  BY DEF QuietWhenCalm
<1>1. /\ task.pc = "idle" /\ mon.pc = "sleep" /\ up
      /\ db = {} /\ members = {} /\ slashed = {} /\ sent = {} /\ DOMAIN rows = {}
      /\ current = 0 /\ chainNonce = 0 /\ events = <<>>
  BY DEF Init
<1>2. Len(events) = 0
  BY <1>1
<1>3. 0 .. 0 - 1 = {} /\ 1 .. 0 = {}
  OBVIOUS
<1>4. NoncesInOrder
  BY <1>1, <1>3 DEF NoncesInOrder, LastNonce
<1>5. SlashesAnnounced
  BY <1>1, <1>2, <1>3 DEF SlashesAnnounced
<1> QED
  BY <1>1, <1>4, <1>5 DEF Quiet, TodoWasSent, OnePerUser, OnTheWay, Expected

\* As long as the run is calm, every step leaves table, chain and logs in agreement.
LEMMA NextQuiet ==
    ASSUME IInv, QuietWhenCalm, [Next]_vars
    PROVE  QuietWhenCalm'
<1> SUFFICES ASSUME Calm' PROVE Quiet'
  BY DEF QuietWhenCalm
<1>1. Faultless
  BY NoFaults DEF IInv
<1>2. Quiet
  BY CalmBefore DEF IInv, QuietWhenCalm
<1>3. CASE \/ \E user \in Users : Mint(user)
           \/ \E id \in members : slashReveal(id)
           \/ Miner
  BY <1>1, <1>2, <1>3, MintQuiet, SlashQuiet, MineQuiet DEF Miner
<1>4. CASE Listener
  <2>1. ~ UndoRegistration
    BY <1>2 DEF Quiet, UndoRegistration
  <2> QED
    BY <1>1, <1>2, <1>4, <2>1, HandleMintQuiet, HandleSlashQuiet, InsertQuiet, SaveNonceQuiet,
       SubmitQuiet, MarkSubmitQuiet DEF Listener
<1>5. CASE Monitor
  BY <1>1, <1>2, <1>5, MonitorKeepsQuiet
<1>6. CASE Crash \/ Restart \/ \E tx \in mempool : Evict(tx)
  BY <1>1, <1>2, <1>6 DEF Crash, Restart, Evict, Faultless, Quiet
<1>7. CASE UNCHANGED vars
  BY <1>2, <1>7, SMTT(20) DEF vars, tables, memory, chain, Quiet, NoncesInOrder, LastNonce, TodoWasSent,
       OnePerUser, OnTheWay, Expected, SlashesAnnounced, SlashEvent, listening
<1> QED
  BY <1>3, <1>4, <1>5, <1>6, <1>7 DEF Next

\* Without faults the users table and the contract agree once nothing is in
\* flight (handle_transfer_event, slash_event and the monitor of
\* nonce_manager.rs), for any number of users and events; a full tree leaves at
\* most slashed identities behind.
THEOREM CalmAgreement == Spec => []AgreeWhenCalm
<1>1. QuietWhenCalm => AgreeWhenCalm
  <2> SUFFICES ASSUME Quiet, Settled
               PROVE  /\ members \subseteq db /\ db \ members \subseteq slashed
                      /\ listening => db = members
    BY DEF QuietWhenCalm, AgreeWhenCalm
  <2>1. members \subseteq db /\ db \ members \subseteq slashed
    BY DEF Quiet, Expected, Settled
  <2>2. Len(events) = 0 /\ 1 .. 0 = {}
    BY DEF Settled
  <2>3. listening => db \cap slashed = {}
    BY <2>2 DEF Quiet, SlashesAnnounced
  <2> QED
    BY <2>1, <2>3
<1>2. IInv /\ QuietWhenCalm /\ [Next]_vars => QuietWhenCalm'
  BY NextQuiet
<1> QED
  BY <1>1, <1>2, InitQuiet, Invariance, PTL DEF Spec

=============================================================================
