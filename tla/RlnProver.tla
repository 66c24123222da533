----------------------------- MODULE RlnProver -----------------------------
(***************************************************************************)
(* The RLN prover's request pipeline: gRPC handlers count a transaction    *)
(* against its sender's quota and put a job on a bounded channel; proof    *)
(* services take jobs, read the epoch and broadcast a proof whose          *)
(* nullifier is a function of (identity, epoch, message id).  The message  *)
(* id comes from the counter in the database row of the sender, so two     *)
(* transactions that get the same one in an epoch expose the sender.       *)
(*                                                                         *)
(* A handler is suspended at each database query; the steps between two    *)
(* queries are one action.  The row of a user lives in PostgreSQL, read    *)
(* without a lock and written back by address (READ COMMITTED).            *)
(***************************************************************************)
EXTENDS Integers, Sequences, FiniteSets, FiniteSetsExt

CONSTANTS
  Users, Txs,
  Sender,        \* the sender of each transaction
  Gas,           \* estimated_gas_used of each transaction
  GasQuota,      \* tx_gas_quota: gas covered by one unit of quota
  Handlers,      \* concurrent send_transaction requests
  Services,      \* proof services
  RateLimit,     \* spam limit: message ids are below it
  TierLimits,    \* values tx_per_epoch of the users' tier may take
  KarmaReads,    \* outcomes of reading the Karma balance: TRUE is success
  ChannelSize,
  FirstEpoch, MaxEpoch,
  MaxRequests, MaxIdentity, MaxGrants, MaxRestarts,   \* bounds, and one on the
  MaxDisturbances      \* restarts, grants, removals and new epochs together

ASSUME ConstantsAssumption ==
  /\ Sender \in [Txs -> Users] /\ Gas \in [Txs -> Nat]
  /\ GasQuota \in Nat \ {0} /\ RateLimit \in Nat \ {0} /\ ChannelSize \in Nat \ {0}
  /\ TierLimits \subseteq Nat /\ TierLimits # {}
  /\ KarmaReads \subseteq BOOLEAN
  /\ FirstEpoch \in Nat /\ MaxEpoch \in Nat
  /\ MaxRequests \in Nat /\ MaxIdentity \in Nat
  /\ MaxGrants \in Nat /\ MaxRestarts \in Nat /\ MaxDisturbances \in Nat

VARIABLES
  epoch,         \* the epoch store: 0 until the epoch service has computed it
  day,           \* the epoch the clock says it is
  ident,         \* users: number of the registered identity, 0 if none
  born,          \* identities generated so far for each user
  row,           \* tx_counter
  limit,         \* tx_per_epoch of the users' tier in the CURRENT tier limits
  handler,       \* the requests being handled
  grant,         \* per user, a remove_from_deny_list about to add a bonus
  inFlight,      \* in_flight_txs
  channel,       \* jobs sent to the proof services
  service,       \* the proof services
  proofs,        \* history: proofs broadcast
  answered,      \* history: transactions with a proof or an error broadcast
  accepted,      \* history: jobs put on the channel
  granted,       \* history: bonus units granted to each user in each epoch
  stale,         \* history: user and epoch of each write made on stale data
  requests, grants, restarts

reqVars  == <<handler, inFlight, accepted, requests>>
dbVars   == <<ident, born, row>>
envVars  == <<epoch, day, limit, restarts>>
bonusVars == <<grant, granted, grants>>
jobVars  == <<channel, service, proofs, answered>>
vars == <<reqVars, dbVars, envVars, bonusVars, jobVars, stale>>

Epochs == 0 .. MaxEpoch

Disturbances ==
  restarts + grants + (day - FirstEpoch) + Cardinality({u \in Users : ident[u] = 0})
    + MapThenSumSet(LAMBDA u : born[u] - 1, Users)

Calm == Disturbances < MaxDisturbances

FreshRow == [epoch |-> 0, counter |-> 0, bonus |-> 0]
Idle == [pc |-> "idle"]

Init ==
  /\ epoch = FirstEpoch /\ day = FirstEpoch /\ limit \in TierLimits
  /\ ident = [u \in Users |-> 1] /\ born = [u \in Users |-> 1]
  /\ row = [u \in Users |-> FreshRow]
  /\ handler = [h \in Handlers |-> Idle]
  /\ grant = [u \in Users |-> Idle] /\ granted = [u \in Users |-> [e \in Epochs |-> 0]]
  /\ inFlight = {} /\ channel = << >>
  /\ service = [s \in Services |-> Idle]
  /\ proofs = {} /\ answered = {} /\ accepted = {} /\ stale = {}
  /\ requests = 0 /\ grants = 0 /\ restarts = 0

-----------------------------------------------------------------------------
(* send_transaction *)

\* Units of quota a transaction takes.
Units(tx) == IF Gas[tx] <= GasQuota THEN 1 ELSE Gas[tx] \div GasQuota

\* The request is admitted and the sender's identity read.
Receive(h, tx) ==
  /\ handler[h] = Idle /\ requests < MaxRequests
  /\ ident[Sender[tx]] # 0
  /\ handler' = [handler EXCEPT ![h] =
                   [pc |-> "count", tx |-> tx, id |-> ident[Sender[tx]]]]
  /\ requests' = requests + 1
  /\ UNCHANGED <<dbVars, envVars, bonusVars, jobVars, inFlight, accepted, stale>>

\* on_new_tx: the user must still exist; incr_tx_counter reads the epoch ...
ReadEpoch(h) ==
  /\ handler[h].pc = "count"
  /\ LET r == handler[h]
     IN handler' = [handler EXCEPT ![h] =
          IF ident[Sender[r.tx]] = 0 THEN Idle
          ELSE [pc |-> "select", tx |-> r.tx, id |-> r.id, epoch |-> epoch]]
  /\ UNCHANGED <<dbVars, envVars, bonusVars, jobVars, inFlight, accepted, requests,
                 stale>>

\* ... and then the row.  Without a row the INSERT fails on its foreign key.
SelectCounter(h) ==
  /\ handler[h].pc = "select"
  /\ LET r == handler[h]
         u == Sender[r.tx]
     IN handler' = [handler EXCEPT ![h] =
          IF ident[u] = 0 THEN Idle
          ELSE [pc |-> "update", tx |-> r.tx, id |-> r.id, epoch |-> r.epoch,
                seen |-> row[u]]]
  /\ UNCHANGED <<dbVars, envVars, bonusVars, jobVars, inFlight, accepted, requests,
                 stale>>

\* The row incr_tx_counter writes over the row x it finds, having read `seen`.
Incremented(seen, e, units, x) ==
  IF seen.epoch = 0 \/ seen.epoch # e
    THEN [epoch |-> e, counter |-> units, bonus |-> 0]
    ELSE [x EXCEPT !.counter = seen.counter + units]

\* The handler decides on data that has changed since it was read, or on an
\* epoch that a restarted process has not computed yet.
Outdated(r) ==
  \/ r.epoch # day
  \/ r.id # ident[Sender[r.tx]]
  \/ <<r.seen.epoch, r.seen.counter>>
       # <<row[Sender[r.tx]].epoch, row[Sender[r.tx]].counter>>

UpdateCounter(h) ==
  /\ handler[h].pc = "update"
  /\ LET r == handler[h]
         u == Sender[r.tx]
         x == Incremented(r.seen, r.epoch, Units(r.tx), row[u])
     IN IF ident[u] = 0
        THEN handler' = [handler EXCEPT ![h] = Idle] /\ UNCHANGED <<row, stale>>
        ELSE /\ row' = [row EXCEPT ![u] = x]
             /\ handler' = [handler EXCEPT ![h] =
                  [pc |-> "check", tx |-> r.tx, id |-> r.id, epoch |-> r.epoch,
                   counter |-> x.counter]]
             /\ stale' = IF Outdated(r) THEN stale \cup {<<u, day>>, <<u, r.epoch>>}
                                        ELSE stale
  /\ UNCHANGED <<ident, born, envVars, bonusVars, jobVars, inFlight, accepted, requests>>

\* counters_from_key: the bonus counts in the epoch of the row only.
BonusNow(u) == IF row[u].epoch = epoch THEN row[u].bonus ELSE 0

\* user_tier_info, or the global limit when it fails or matches no tier.
HasTier(u, karma) == ident[u] # 0 /\ karma

EffectiveLimit(u, karma) ==
  IF HasTier(u, karma) THEN limit + BonusNow(u) ELSE RateLimit

\* Fault: the transaction being counted is not included.
ExceedsBefore(counter, max) == counter - 1 > max

Exceeds(counter, max) == counter > max

\* The quota check, after the transaction was counted, and the in-flight check.
\* The limit of the tier it was checked against, if any, is kept as history.
Check(h) ==
  /\ handler[h].pc = "check"
  /\ \E karma \in KarmaReads :
       LET r == handler[h]
           ok == /\ ~ Exceeds(r.counter, EffectiveLimit(Sender[r.tx], karma))
                 /\ r.tx \notin inFlight
           tier == IF HasTier(Sender[r.tx], karma) THEN {limit} ELSE {}
       IN /\ handler' = [handler EXCEPT ![h] =
               IF ok THEN [pc |-> "send", tx |-> r.tx, id |-> r.id, epoch |-> r.epoch,
                           counter |-> r.counter, tier |-> tier]
                     ELSE Idle]
          /\ inFlight' = IF ok THEN inFlight \cup {r.tx} ELSE inFlight
  /\ UNCHANGED <<dbVars, envVars, bonusVars, jobVars, accepted, requests, stale>>

Job(r) ==
  [tx |-> r.tx, id |-> r.id, counter |-> r.counter, counted |-> r.epoch, tier |-> r.tier]

\* The job is sent when the channel has room.
Send(h) ==
  /\ handler[h].pc = "send" /\ Len(channel) < ChannelSize
  /\ channel' = Append(channel, Job(handler[h]))
  /\ accepted' = accepted \cup {Job(handler[h])}
  /\ handler' = [handler EXCEPT ![h] = Idle]
  /\ UNCHANGED <<dbVars, envVars, bonusVars, service, proofs, answered, inFlight,
                 requests, stale>>

\* The client goes away and the handler is dropped where it is suspended.
Cancel(h) ==
  /\ handler[h] # Idle
  /\ handler' = [handler EXCEPT ![h] = Idle]
  /\ UNCHANGED <<dbVars, envVars, bonusVars, jobVars, inFlight, accepted, requests, stale>>

\* The clean-up task drops an entry whose proof was broadcast, or that is five
\* minutes old.
Sweep(tx) ==
  /\ tx \in inFlight
  /\ inFlight' = inFlight \ {tx}
  /\ UNCHANGED <<dbVars, envVars, bonusVars, jobVars, handler, accepted, requests, stale>>

-----------------------------------------------------------------------------
(* ProofService::serve *)

\* A job is taken and the epoch read.
Take(s) ==
  /\ service[s] = Idle /\ channel # << >>
  /\ service' = [service EXCEPT ![s] = [pc |-> "prove", job |-> Head(channel), epoch |-> epoch]]
  /\ channel' = Tail(channel)
  /\ UNCHANGED <<reqVars, dbVars, envVars, bonusVars, proofs, answered, stale>>

MessageId(counter) == IF counter = RateLimit THEN counter - 1 ELSE counter

\* compute_rln_proof_and_values refuses a message id outside the limit.
Provable(job) == ident[Sender[job.tx]] # 0 /\ MessageId(job.counter) < RateLimit

\* Fault: a failed proof ends the service.
AfterBroadcastStops(s) ==
  IF Provable(service[s].job) THEN Idle ELSE [pc |-> "stopped"]

AfterBroadcast(s) == Idle

\* The Merkle path is fetched, the proof computed, the outcome broadcast.
Prove(s) ==
  /\ service[s].pc = "prove"
  /\ LET job == service[s].job
     IN /\ proofs' = IF Provable(job)
                     THEN proofs \cup {[tx |-> job.tx, id |-> job.id, epoch |-> service[s].epoch,
                                        messageId |-> MessageId(job.counter),
                                        counted |-> job.counted]}
                     ELSE proofs
        /\ answered' = answered \cup {job.tx}
  /\ service' = [service EXCEPT ![s] = AfterBroadcast(s)]
  /\ UNCHANGED <<reqVars, dbVars, envVars, bonusVars, channel, stale>>

-----------------------------------------------------------------------------
(* remove_from_deny_list with reset_epoch_counter *)

\* The bonus is the tier's limit, or zero when Karma cannot be read; then
\* add_quota_bonus reads the epoch ...
StartGrant(u) ==
  /\ grant[u] = Idle /\ grants < MaxGrants /\ Calm
  /\ \E karma \in KarmaReads :
       grant' = [grant EXCEPT ![u] =
         [pc |-> "bonus", epoch |-> epoch, bonus |-> IF karma THEN limit ELSE 0]]
  /\ grants' = grants + 1
  /\ UNCHANGED <<reqVars, dbVars, envVars, jobVars, granted, stale>>

\* ... and writes the row.
\* Fault: the counter is reset, too.
WithBonusReset(x, g) ==
  [epoch |-> g.epoch, counter |-> 0, bonus |-> x.bonus + g.bonus]

WithBonus(x, g) == [x EXCEPT !.epoch = g.epoch, !.bonus = x.bonus + g.bonus]

AddQuotaBonus(u) ==
  /\ grant[u] # Idle
  /\ grant' = [grant EXCEPT ![u] = Idle]
  /\ IF ident[u] = 0
     THEN UNCHANGED <<row, granted, stale>>
     ELSE /\ row' = [row EXCEPT ![u] = WithBonus(row[u], grant[u])]
          /\ granted' = [granted EXCEPT ![u][epoch] = @ + grant[u].bonus]
          /\ stale' = IF grant[u].epoch # day
                      THEN stale \cup {<<u, day>>, <<u, grant[u].epoch>>} ELSE stale
  /\ UNCHANGED <<reqVars, ident, born, envVars, jobVars, grants>>

-----------------------------------------------------------------------------
(* The rest of the user database, the epoch service and the process *)

\* register_user: a new identity and a new row.
Register(u) ==
  /\ ident[u] = 0 /\ born[u] < MaxIdentity
  /\ born' = [born EXCEPT ![u] = born[u] + 1]
  /\ ident' = [ident EXCEPT ![u] = born'[u]]
  /\ row' = [row EXCEPT ![u] = FreshRow]
  /\ UNCHANGED <<reqVars, envVars, bonusVars, jobVars, stale>>

\* remove_user, when the user was slashed: the row goes with the user.
Remove(u) ==
  /\ ident[u] # 0 /\ Calm
  /\ ident' = [ident EXCEPT ![u] = 0]
  /\ row' = [row EXCEPT ![u] = FreshRow]
  /\ UNCHANGED <<reqVars, born, envVars, bonusVars, jobVars, stale>>

\* An epoch ends; the service announces the next one if it has computed this.
NewEpoch ==
  /\ day < MaxEpoch /\ Calm
  /\ day' = day + 1
  /\ epoch' = IF epoch = day THEN day' ELSE epoch
  /\ UNCHANGED <<reqVars, dbVars, limit, restarts, bonusVars, jobVars, stale>>

\* The epoch service of a restarted process has computed the epoch.
ComputeEpoch ==
  /\ epoch # day /\ epoch' = day
  /\ UNCHANGED <<reqVars, dbVars, day, limit, restarts, bonusVars, jobVars, stale>>

\* New tier limits come into force.
NewTierLimit ==
  /\ limit' \in TierLimits \ {limit}
  /\ UNCHANGED <<reqVars, dbVars, epoch, day, restarts, bonusVars, jobVars, stale>>

\* The process is restarted; only the database survives, and the epoch store
\* has its default value.
Restart ==
  /\ restarts < MaxRestarts /\ Calm
  /\ restarts' = restarts + 1 /\ epoch' = 0
  /\ handler' = [h \in Handlers |-> Idle]
  /\ service' = [s \in Services |-> Idle]
  /\ grant' = [u \in Users |-> Idle]
  /\ inFlight' = {} /\ channel' = << >>
  /\ UNCHANGED <<dbVars, day, limit, granted, grants, proofs, answered, accepted,
                 requests, stale>>

Handle(h) ==
  \/ \E tx \in Txs : Receive(h, tx)
  \/ ReadEpoch(h) \/ SelectCounter(h) \/ UpdateCounter(h) \/ Check(h) \/ Send(h)
  \/ Cancel(h)

Next ==
  \/ \E h \in Handlers : Handle(h)
  \/ \E tx \in Txs : Sweep(tx)
  \/ \E s \in Services : Take(s) \/ Prove(s)
  \/ \E u \in Users : StartGrant(u) \/ AddQuotaBonus(u) \/ Register(u) \/ Remove(u)
  \/ NewEpoch \/ ComputeEpoch \/ NewTierLimit \/ Restart

Spec == Init /\ [][Next]_vars

\* The proof services are tokio tasks that run as long as the process does.
FairSpec == Spec /\ \A s \in Services : WF_vars(Take(s)) /\ WF_vars(Prove(s))
-----------------------------------------------------------------------------

Collide(p, q) ==
  /\ p.tx # q.tx /\ Sender[p.tx] = Sender[q.tx]
  /\ p.id = q.id /\ p.epoch = q.epoch /\ p.messageId = q.messageId

\* A proof made in the epoch in which its transaction was counted, with an id
\* below the last one (which the service hands out twice on purpose).
Regular(p) == p.counted = p.epoch /\ p.epoch # 0 /\ p.messageId # RateLimit - 1

\* Two transactions share a nullifier only where a counter was written from
\* data that had changed since it was read, an epoch ended between counting
\* and proving, in epoch 0, or at the rate limit, or after a restarted process
\* counted before it knew its epoch.  In particular a bonus, a new registration
\* or a dropped request never causes a collision by itself.
CollisionsExplained ==
  \A p, q \in proofs :
    Collide(p, q) /\ Regular(p) /\ Regular(q) => <<Sender[p.tx], p.epoch>> \in stale

\* The units accepted on the counter that a job was accepted on, up to it.
AcceptedUpTo(j) ==
  MapThenSumSet(LAMBDA k : Units(k.tx),
                {k \in accepted : /\ Sender[k.tx] = Sender[j.tx] /\ k.id = j.id
                                  /\ k.counted = j.counted /\ k.counter <= j.counter})

\* Unless a counter was written from stale data, a transaction is accepted only
\* while all that was accepted in its epoch on the sender's counter, itself
\* included, is within the limit its tier has when it is checked plus the
\* bonuses granted to the sender.  A sender whose tier cannot be told, as the
\* Karma read failed or the user has gone, is held to the global limit only.
QuotaRespected ==
  \A j \in accepted :
    LET u == Sender[j.tx]
    IN  j.counted # 0 /\ <<u, j.counted>> \notin stale =>
          AcceptedUpTo(j) <= IF j.tier = {} THEN RateLimit
                             ELSE Max(j.tier) + MapThenSumSet(LAMBDA e : granted[u][e], Epochs)

\* Every job on the channel is answered, by a proof or an error, unless the
\* process is restarted.
JobsAnswered ==
  \A tx \in Txs :
    (\E i \in DOMAIN channel : channel[i].tx = tx) ~> (tx \in answered \/ restarts > 0)
=============================================================================
