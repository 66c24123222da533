---------------------------- MODULE Registration ----------------------------
(***************************************************************************)
(* How a user who is minted Karma becomes a member of the RLN contract:    *)
(*   - the Karma event listener (karma_sc_listener.rs), which handles one  *)
(*     event at a time and waits for the registration it queued, so that   *)
(*     the listener and process_registrations form one thread, `task`;     *)
(*   - the nonce manager (nonce_manager.rs): the tables nonce_state and    *)
(*     pending_registrations, and the monitor that resubmits, `mon`;       *)
(*   - the users table (user_db_2.rs), as the set `db` of identities;      *)
(*   - the chain: mempool, receipts, and the members of RLN.sol.           *)
(* Processes crash between any two steps; a send can fail, or succeed and  *)
(* lose its answer; a database write can fail; a transaction can be        *)
(* evicted from the mempool or revert.                                     *)
(***************************************************************************)
EXTENDS Integers, Sequences, FiniteSets

CONSTANTS
    Users,        \* addresses that can be minted Karma
    TreeSize,     \* leaves of the Merkle trees; a leaf is never used again
    SpentLeaves,  \* leaves that users removed in the past may have used
    MaxAttempts,  \* max_attempts of a pending registration
    MaxEvents,    \* bound: Karma events of a behaviour
    MaxGas,       \* bound: a transaction at this price is not bumped again
    MaxFaults     \* bound: faults of a behaviour, see Cost

ASSUME ConstantsAssumption ==
    /\ TreeSize \in Nat /\ SpentLeaves \subseteq 0..TreeSize
    /\ MaxAttempts \in Nat
    /\ MaxEvents \in Nat /\ MaxGas \in Nat /\ MaxFaults \in Nat

VARIABLES
    db,           \* users: the identities of the registered users
    keys,         \* leaves (and so identities) used so far
    rows,         \* pending_registrations, by nonce
    nonceState,   \* nonce_state.current_nonce
    current,      \* NonceManager.current_nonce, in memory
    task,         \* the listener and the registration it waits for
    mon,          \* monitor_stuck_transactions
    up,           \* is the prover running?
    events,       \* Karma events the listener has not handled
    mempool, chainNonce, receipts, members,
    slashed,      \* identities removed from members, ever
    sent,         \* transactions the node ever accepted
    used          \* Karma events so far, and faults of each kind

memory == <<current, task, mon, up, events>>
tables == <<db, keys, rows, nonceState>>
chain == <<mempool, chainNonce, receipts, members, slashed, sent>>
vars == <<tables, memory, chain, used>>

Identity == [user : Users, key : Nat]
Tx == [nonce : Nat, id : Identity, gas : Nat]

\* hash is the price of the transaction whose hash is stored, 0 for NULL: a
\* row's transactions differ in their price only.
Row == [id : Identity, hash : Nat, attempts : Nat,
        status : {"queued", "submitted", "confirmed", "failed"}]

MinGas == 1

\* Faults: a failed call, a crash, a failed database write, a send that is
\* accepted and still returns an error, a transaction the mempool drops, one
\* that reverts.
Faults == {"errors", "crashes", "dbErrors", "lost", "evictions", "reverts"}
Kinds == Faults \cup {"events"}

\* The faults that retries repair are combined; any other one uses up the bound.
Repaired == {"errors", "crashes"}
Cost(what) == IF what \in Repaired THEN 1 ELSE MaxFaults
Spent == used.errors + used.crashes
             + MaxFaults * (used.dbErrors + used.lost + used.evictions + used.reverts)

Use(what) ==
    /\ IF what = "events" THEN used.events < MaxEvents ELSE Spent + Cost(what) <= MaxFaults
    /\ used' = [used EXCEPT ![what] = @ + 1]

Init ==
    /\ db = {} /\ keys \in SpentLeaves
    /\ rows = [n \in {} |-> n]
    /\ nonceState = 0 /\ current = 0
    /\ task = [pc |-> "idle"]
    /\ mon = [pc |-> "sleep"]
    /\ up = TRUE
    /\ events = <<>>
    /\ mempool = {} /\ chainNonce = 0 /\ receipts = {} /\ members = {}
    /\ slashed = {} /\ sent = {}
    /\ used = [what \in Kinds |-> 0]

-----------------------------------------------------------------------------
(***************************************************************************)
(* The chain.  A node refuses a nonce that is used and a replacement that  *)
(* does not pay more; it executes the nonces of the wallet in order.       *)
(***************************************************************************)
listening == task.pc # "stopped"

Emit(kind, user) ==
    events' = IF listening THEN Append(events, [kind |-> kind, user |-> user])
                           ELSE events

\* A mint that leaves the user with the minimal amount of Karma.
Mint(user) ==
    /\ Use("events")
    /\ Emit("mint", user)
    /\ UNCHANGED <<tables, current, task, mon, up, chain>>

\* RLN.sol slashReveal: the member is deleted and Karma emits AccountSlashed.
slashReveal(id) ==
    /\ id \in members
    /\ Use("events")
    /\ members' = members \ {id}
    /\ slashed' = slashed \cup {id}
    /\ Emit("slash", id.user)
    /\ UNCHANGED <<tables, current, task, mon, up,
                   mempool, chainNonce, receipts, sent>>

\* RLN.sol register: reverts for an identity that is a member, or when the
\* wallet lacks the role.
register(tx) ==
    \/ /\ tx.id \notin members
       /\ members' = members \cup {tx.id}
       /\ receipts' = receipts \cup {[nonce |-> tx.nonce, gas |-> tx.gas, ok |-> TRUE]}
       /\ UNCHANGED used
    \/ /\ IF tx.id \in members THEN UNCHANGED used ELSE Use("reverts")
       /\ receipts' = receipts \cup {[nonce |-> tx.nonce, gas |-> tx.gas, ok |-> FALSE]}
       /\ UNCHANGED members

Mine(tx) ==
    /\ tx \in mempool
    /\ tx.nonce = chainNonce
    /\ register(tx)
    /\ chainNonce' = chainNonce + 1
    /\ mempool' = mempool \ {tx}
    /\ UNCHANGED <<tables, memory, slashed, sent>>

Evict(tx) ==
    /\ tx \in mempool
    /\ Use("evictions")
    /\ mempool' = mempool \ {tx}
    /\ UNCHANGED <<tables, memory, chainNonce, receipts, members, slashed, sent>>

Accepts(tx) ==
    /\ tx.nonce >= chainNonce
    /\ \A other \in mempool : other.nonce = tx.nonce => other.gas < tx.gas

Enter(tx) ==
    /\ Accepts(tx)
    /\ mempool' = {other \in mempool : other.nonce # tx.nonce} \cup {tx}
    /\ sent' = sent \cup {tx}

\* call.send(): does it return Ok?
Send(tx, ok) ==
    /\ UNCHANGED <<chainNonce, receipts, members, slashed>>
    /\ \/ ok /\ Enter(tx) /\ UNCHANGED used
       \/ ~ok /\ ~Accepts(tx) /\ UNCHANGED <<mempool, sent, used>>
       \/ ~ok /\ Use("errors") /\ UNCHANGED <<mempool, sent>>
       \/ ~ok /\ Use("lost") /\ Enter(tx)

-----------------------------------------------------------------------------
(***************************************************************************)
(* The listener and process_registrations.                                 *)
(***************************************************************************)
hasUser(user) == \E id \in db : id.user = user
Without(user) == {id \in db : id.user # user}

\* register_user: keygen() is random, and no tree has a leaf left.
SeededIdentity(user) == [user |-> user, key |-> 0]
FreshIdentity(user) == [user |-> user, key |-> keys]
Full == keys >= TreeSize

Stopped == [pc |-> "stopped"]
Idle == [pc |-> "idle"]
Step(pc) == [pc |-> pc, id |-> task.id, nonce |-> task.nonce]

\* handle_transfer_event up to the registration in the users table.  An
\* AlreadyRegistered error is swallowed; every other one ends the listener.
HandleMint ==
    /\ task.pc = "idle"
    /\ events # <<>>
    /\ Head(events).kind = "mint"
    /\ events' = Tail(events)
    /\ LET user == Head(events).user
           id == FreshIdentity(user)
       IN  \/ /\ hasUser(user)
              /\ UNCHANGED <<db, keys, task, used>>
           \/ /\ ~hasUser(user)
              /\ ~Full
              /\ db' = db \cup {id}
              /\ keys' = keys + 1
              /\ task' = [pc |-> "queued", id |-> id, nonce |-> current]
              /\ UNCHANGED used
           \/ /\ ~hasUser(user)
              /\ Full
              /\ task' = Stopped
              /\ UNCHANGED <<db, keys, used>>
           \/ /\ Use("errors")
              /\ task' = Stopped
              /\ UNCHANGED <<db, keys>>
    /\ UNCHANGED <<rows, nonceState, current, mon, up, chain>>

\* slash_event: a failure to remove the user is logged.
HandleSlash ==
    /\ task.pc = "idle"
    /\ events # <<>>
    /\ Head(events).kind = "slash"
    /\ events' = Tail(events)
    /\ \/ db' = Without(Head(events).user) /\ UNCHANGED used
       \/ Use("dbErrors") /\ UNCHANGED db
    /\ UNCHANGED <<keys, rows, nonceState, current, task, mon, up, chain>>

\* pending_registrations.nonce is UNIQUE.
NeverTaken(nonce) == FALSE
Taken(nonce) == nonce \in DOMAIN rows

\* allocate_nonce, the INSERT.
InsertPending ==
    /\ task.pc = "queued"
    /\ \/ /\ ~Taken(current)
          /\ rows' = [n \in DOMAIN rows \cup {current} |->
                        IF n = current
                        THEN [id |-> task.id, hash |-> 0, attempts |-> 0, status |-> "queued"]
                        ELSE rows[n]]
          /\ task' = [pc |-> "inserted", id |-> task.id, nonce |-> current]
          /\ UNCHANGED used
       \/ /\ Taken(current)
          /\ task' = Step("undo")
          /\ UNCHANGED <<rows, used>>
       \/ /\ Use("dbErrors")
          /\ task' = Step("undo")
          /\ UNCHANGED rows
    /\ UNCHANGED <<db, keys, nonceState, current, mon, up, events, chain>>

\* allocate_nonce, the UPDATE of nonce_state.
SaveNonce ==
    /\ task.pc = "inserted"
    /\ current' = task.nonce + 1
    /\ \/ nonceState' = task.nonce + 1 /\ task' = Step("allocated") /\ UNCHANGED used
       \/ Use("dbErrors") /\ task' = Step("undo") /\ UNCHANGED nonceState
    /\ UNCHANGED <<db, keys, rows, mon, up, events, chain>>

Submit ==
    /\ task.pc = "allocated"
    /\ \E ok \in BOOLEAN :
          /\ Send([nonce |-> task.nonce, id |-> task.id, gas |-> MinGas], ok)
          /\ task' = Step(IF ok THEN "sent" ELSE "rejected")
    /\ UNCHANGED <<tables, current, mon, up, events>>

Submitted(n, gas) ==
    rows' = [rows EXCEPT ![n].status = "submitted", ![n].hash = gas]
Confirmed(n) ==
    rows' = [rows EXCEPT ![n].status = "confirmed"]
Failed(n) ==
    rows' = [rows EXCEPT ![n].status = "failed", ![n].attempts = @ + 1]

\* mark_submitted or mark_failed, and the answer to the listener.
MarkSubmit ==
    /\ task.pc \in {"sent", "rejected"}
    /\ \/ /\ task.pc = "sent"
          /\ Submitted(task.nonce, MinGas)
          /\ task' = Idle
          /\ UNCHANGED used
       \/ /\ task.pc = "rejected"
          /\ Failed(task.nonce)
          /\ task' = Step("undo")
          /\ UNCHANGED used
       \/ /\ Use("dbErrors")
          /\ task' = Step("undo")
          /\ UNCHANGED rows
    /\ UNCHANGED <<db, keys, nonceState, current, mon, up, events, chain>>

\* handle_transfer_event after a failed registration: the user is removed, and
\* the error ends the listener.
UndoRegistration ==
    /\ task.pc = "undo"
    /\ task' = Stopped
    /\ \/ db' = Without(task.id.user) /\ UNCHANGED used
       \/ Use("dbErrors") /\ UNCHANGED db
    /\ UNCHANGED <<keys, rows, nonceState, current, mon, up, events, chain>>

-----------------------------------------------------------------------------
(***************************************************************************)
(* monitor_stuck_transactions: the stuck transactions in the order of      *)
(* their nonces, then the failed ones.  todo holds the rows it fetched and *)
(* has not handled.                                                        *)
(***************************************************************************)
AnyReceipt(n, ok) ==
    \E status \in BOOLEAN : [nonce |-> n, gas |-> rows[n].hash, ok |-> status] \in receipts
Receipt(n, ok) == [nonce |-> n, gas |-> rows[n].hash, ok |-> ok] \in receipts
HasReceipt(n) == Receipt(n, TRUE) \/ Receipt(n, FALSE)

\* Submitted long enough ago; a pending transaction at MaxGas is waited for.
Stuck == {n \in DOMAIN rows : /\ rows[n].status = "submitted"
                              /\ rows[n].hash < MaxGas \/ HasReceipt(n)}
RetriableOneLess == {n \in DOMAIN rows : /\ rows[n].status = "failed"
                                         /\ rows[n].attempts + 1 < MaxAttempts}
Retriable == {n \in DOMAIN rows : /\ rows[n].status = "failed"
                                  /\ rows[n].attempts < MaxAttempts}

First(n) == \A m \in mon.todo : n <= m

MonitorWake ==
    /\ up
    /\ mon.pc = "sleep"
    /\ \E timedOut \in SUBSET Stuck : mon' = [pc |-> "stuck", todo |-> timedOut]
    /\ UNCHANGED <<tables, current, task, up, events, chain, used>>

Handled(n, list) == [pc |-> list, todo |-> mon.todo \ {n}]

\* handle_stuck_tx up to the resubmission.  An error of the database is
\* ignored, one of the receipt's query skips the row.
CheckStuck ==
    /\ mon.pc = "stuck"
    /\ \E n \in mon.todo :
       /\ First(n)
       /\ \/ /\ Receipt(n, TRUE)
             /\ Confirmed(n)
             /\ mon' = Handled(n, "stuck")
             /\ UNCHANGED used
          \/ /\ Receipt(n, FALSE)
             /\ Failed(n)
             /\ mon' = Handled(n, "stuck")
             /\ UNCHANGED used
          \/ /\ ~HasReceipt(n)
             /\ mon' = [pc |-> "resend", todo |-> mon.todo]
             /\ UNCHANGED <<rows, used>>
          \/ /\ Use("errors")
             /\ mon' = Handled(n, "stuck")
             /\ UNCHANGED rows
          \/ /\ HasReceipt(n)
             /\ Use("dbErrors")
             /\ mon' = Handled(n, "stuck")
             /\ UNCHANGED rows
    /\ UNCHANGED <<db, keys, nonceState, current, task, up, events, chain>>

MonitorSend(n, gas, list) ==
    /\ First(n)
    /\ \E ok \in BOOLEAN :
          /\ Send([nonce |-> n, id |-> rows[n].id, gas |-> gas], ok)
          /\ mon' = [pc |-> IF ok THEN "resent" ELSE "unsent",
                     todo |-> mon.todo, gas |-> gas, list |-> list]

\* handle_stuck_tx: the same registration and nonce at twice the price.
Resend ==
    /\ mon.pc = "resend"
    /\ \E n \in mon.todo : MonitorSend(n, 2 * rows[n].hash, "stuck")
    /\ UNCHANGED <<tables, current, task, up, events>>

MonitorRetry ==
    /\ mon.pc = "stuck"
    /\ mon.todo = {}
    /\ mon' = [pc |-> "retry", todo |-> Retriable]
    /\ UNCHANGED <<tables, current, task, up, events, chain, used>>

\* retry_registration: the same registration and nonce at the minimal price.
Retry ==
    /\ mon.pc = "retry"
    /\ \E n \in mon.todo : MonitorSend(n, MinGas, "retry")
    /\ UNCHANGED <<tables, current, task, up, events>>

MarkResend ==
    /\ mon.pc \in {"resent", "unsent"}
    /\ \E n \in mon.todo :
       /\ First(n)
       /\ \/ mon.pc = "resent" /\ Submitted(n, mon.gas) /\ UNCHANGED used
          \/ mon.pc = "unsent" /\ Failed(n) /\ UNCHANGED used
          \/ Use("dbErrors") /\ UNCHANGED rows
       /\ mon' = Handled(n, mon.list)
    /\ UNCHANGED <<db, keys, nonceState, current, task, up, events, chain>>

MonitorSleep ==
    /\ mon.pc = "retry"
    /\ mon.todo = {}
    /\ mon' = [pc |-> "sleep"]
    /\ UNCHANGED <<tables, current, task, up, events, chain, used>>

-----------------------------------------------------------------------------
Crash ==
    /\ up
    /\ Use("crashes")
    /\ up' = FALSE
    /\ task' = Stopped
    /\ mon' = [pc |-> "sleep"]
    /\ events' = <<>>
    /\ UNCHANGED <<tables, current, chain>>

\* recover_pending for one row: a row without a hash was never submitted, one
\* whose receipt is not seen is left alone.
Recovered(n, seen) ==
    LET row == rows[n]
        open == row.status \in {"queued", "submitted"}
        failed == row.hash = 0 \/ (seen /\ Receipt(n, FALSE))
        confirmed == row.hash # 0 /\ seen /\ Receipt(n, TRUE)
    IN  IF open /\ failed THEN [row EXCEPT !.status = "failed", !.attempts = @ + 1]
        ELSE IF open /\ confirmed THEN [row EXCEPT !.status = "confirmed"]
        ELSE row

\* run_prover: NonceManager::new and recover_pending, before the services are
\* spawned.
Restart ==
    /\ ~up
    /\ up' = TRUE
    /\ current' = IF chainNonce > nonceState THEN chainNonce ELSE nonceState
    /\ nonceState' = current'
    /\ \E seen \in SUBSET DOMAIN rows :
          rows' = [n \in DOMAIN rows |-> Recovered(n, n \in seen)]
    /\ task' = Idle
    /\ UNCHANGED <<db, keys, mon, events, chain, used>>

-----------------------------------------------------------------------------
Listener == HandleMint \/ HandleSlash \/ InsertPending \/ SaveNonce
                \/ Submit \/ MarkSubmit \/ UndoRegistration

Monitor == MonitorWake \/ CheckStuck \/ Resend \/ MonitorRetry \/ Retry
                \/ MarkResend \/ MonitorSleep

Miner == \E tx \in mempool : Mine(tx)

Next ==
    \/ \E user \in Users : Mint(user)
    \/ \E id \in members : slashReveal(id)
    \/ Miner
    \/ \E tx \in mempool : Evict(tx)
    \/ Listener
    \/ Monitor
    \/ Crash
    \/ Restart

Spec == Init /\ [][Next]_vars

\* The tasks run on an executor that starves none, the prover is restarted, and
\* the chain goes on.
FairSpec == Spec /\ WF_vars(Listener) /\ WF_vars(Monitor) /\ WF_vars(Restart)
                 /\ WF_vars(Miner)

-----------------------------------------------------------------------------
busy == {"queued", "inserted", "allocated", "sent", "rejected", "undo"}

\* Every variable has its type: in particular the thread that waits for a
\* registration knows its identity, and the monitor holds rows that exist.
TypeOK ==
    /\ db \subseteq Identity
    /\ keys \in 0..TreeSize
    /\ DOMAIN rows \subseteq Nat
    /\ rows \in [DOMAIN rows -> Row]
    /\ nonceState \in Nat /\ current \in Nat /\ chainNonce \in Nat
    /\ \/ task \in [pc : {"idle", "stopped"}]
       \/ task \in [pc : busy, id : Identity, nonce : Nat]
    /\ \/ mon \in [pc : {"sleep"}]
       \/ mon \in [pc : {"stuck", "resend", "retry"}, todo : SUBSET DOMAIN rows]
       \/ mon \in [pc : {"resent", "unsent"}, todo : SUBSET DOMAIN rows, gas : Nat,
                   list : {"stuck", "retry"}]
    /\ up \in BOOLEAN
    /\ events \in Seq([kind : {"mint", "slash"}, user : Users])
    /\ mempool \subseteq Tx /\ sent \subseteq Tx
    /\ receipts \subseteq [nonce : Nat, gas : Nat, ok : BOOLEAN]
    /\ members \subseteq Identity /\ slashed \subseteq Identity
    /\ used \in [Kinds -> Nat]

\* A nonce of the wallet is only ever spent on one registration: every
\* transaction sent with a nonce carries the identity that pending_registrations
\* holds for it, across retries, replacements, crashes and restarts
\* (nonce_manager.rs, allocate_nonce and its UNIQUE nonce).
NonceBoundToIdentity ==
    \A tx \in sent : tx.nonce \in DOMAIN rows /\ rows[tx.nonce].id = tx.id

\* An identity that was slashed never becomes a member again, whatever the
\* monitor still resubmits for it: its nonce is spent.
SlashedStaysOut == slashed \cap members = {}

\* A registration marked confirmed took place: the identity was a member of the
\* contract, and is unless it was slashed.
ConfirmedIsRegistered ==
    \A n \in DOMAIN rows : rows[n].status = "confirmed" => rows[n].id \in members \cup slashed

Settled ==
    /\ up
    /\ task.pc \in {"idle", "stopped"}
    /\ mon.pc = "sleep"
    /\ events = <<>>
    /\ mempool = {}
    /\ \A n \in DOMAIN rows : rows[n].status \notin {"queued", "submitted"}
    /\ Retriable = {}

\* No call has failed, the prover has not crashed, and no transaction was
\* dropped or reverted.
Calm == \A what \in Faults : used[what] = 0

\* Without faults, and however listener, monitor, miner and slashing interleave,
\* the database holds the identities of the contract once nothing is in flight,
\* as long as the listener runs.  A mint that finds every tree full ends it
\* (handle_transfer_event returns TooManyUsers): from then on the database keeps
\* who is slashed, and nothing else goes wrong.
AgreeWhenCalm ==
    Calm /\ Settled => /\ members \subseteq db
                       /\ db \ members \subseteq slashed
                       /\ listening => db = members

Spared(faults) == \A what \in faults : used[what] = 0

\* The two halves of a registration, once nothing is in flight.  An identity
\* is in the contract and not in the database only after a call or a write that
\* failed, when the listener removed the user and the monitor still had the row.
\* One is in the database and not in the contract only if it was slashed, or a
\* crash came before it had a row, or a transaction reverted or a write failed:
\* a failed or lost send alone never leaves it there, nor does an eviction.
HalvesAgree ==
    Settled =>
      /\ Spared({"errors", "lost", "dbErrors"}) => members \subseteq db
      /\ Spared({"reverts", "dbErrors"}) =>
           \A id \in db \ members :
             \/ id \in slashed
             \/ used.crashes > 0 /\ \A n \in DOMAIN rows : rows[n].id # id


\* A registration that has a row is executed: the identity becomes a member,
\* as long as calls that fail and crashes are fewer than the attempts and there
\* is no fault that retries do not repair.
RegistrationLands ==
    \A n \in 0 .. TreeSize - 1 :
        n \in DOMAIN rows ~> \/ n \in DOMAIN rows /\ rows[n].id \in members \cup slashed
                             \/ \E what \in Faults \ Repaired : used[what] > 0

=============================================================================
