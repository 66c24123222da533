------------------------------ MODULE Sequencer ------------------------------
(***************************************************************************)
(* How gasless transactions of one sender, within one epoch, get into the  *)
(* pool of the sequencer.  RPC nodes forward them to the RLN prover        *)
(* (RlnProverForwarderValidator), which counts them against the quota and  *)
(* broadcasts a proof for those it accepts.  The sequencer                 *)
(* (RlnVerifierValidator) validates on several threads: deny list, quota,  *)
(* proof out of a cache filled by a gRPC stream, nullifier                 *)
(* (NullifierTracker), quota again.  Each step of a call that another      *)
(* thread, the stream or the prover can come between is an action.  A      *)
(* remote call may fail, before or after the prover has executed it.       *)
(***************************************************************************)
EXTENDS Integers, FiniteSets, FiniteSetsExt

CONSTANTS
  Txs,          \* the sender's transactions
  Premium,      \* those that pay the premium gas price
  Threads, None,
  Quota,        \* tx_per_epoch of the sender's tier
  RateLimit,    \* the prover's limit for a sender whose tier it cannot tell
  MaxWaits,     \* MAX_CONCURRENT_PROOF_WAITS
  MaxRetries,   \* rlnProofStreamRetries
  Threshold,    \* CIRCUIT_BREAKER_THRESHOLD
  MaxCalls,     \* how many validation calls there are in a behaviour
  MaxFaults     \* and how much goes wrong in it

ASSUME SequencerAssumption ==
  /\ Premium \subseteq Txs /\ IsFiniteSet(Txs) /\ None \notin Txs
  /\ {Quota, RateLimit, MaxWaits, MaxRetries, Threshold} \subseteq Nat \ {0}
  /\ {MaxCalls, MaxFaults} \subseteq Nat

VARIABLES
  db,          \* the prover's database: the sender's row (stale before the first
               \* write of this epoch), the deny list, the nullifiers
  rpc,         \* how far an RPC node is with each transaction
  job,         \* how far the prover is with it
  counter,     \* what it is counted with: the nullifier of its proof
  emit,        \* where its proof is
  cache,       \* rlnProofCache
  pending,     \* pendingProofs: transaction -> future
  localCache,  \* of NullifierTracker
  stream,      \* subscriptionActive, the connection, the retries
  thread,      \* the validation calls
  fails,       \* consecutiveFailures of the sequencer's gRPC clients
  faults,
  history      \* admissions, calls, evictions, the transaction counted last

vars == <<db, rpc, job, counter, emit, cache, pending, localCache, stream, thread,
          fails, faults, history>>
asked == <<rpc, job, counter>>
prover == <<db, asked, emit>>
proofs == <<cache, pending>>
node == <<proofs, localCache, stream>>

Gasless == Txs \ Premium
Clients == {"denyList", "karma", "nullifier"}
Paths == {"grpc", "fallback"}

Idle == [pc |-> "idle", tx |-> None, future |-> None, via |-> None, why |-> None]

\* startProofStreamSubscription has been called by the constructor.
Subscribing == [active |-> TRUE, conn |-> "opening", retries |-> 0, tasks |-> 0]

\* The sender is registered and has sent nothing yet.
NewRow == [stale |-> TRUE, count |-> 0, bonus |-> 0, denied |-> FALSE, nullifiers |-> {}]

InitNode ==
  /\ emit = [t \in Txs |-> "none"]
  /\ cache = {} /\ pending = [t \in Txs |-> None] /\ localCache = {}
  /\ stream = [Subscribing EXCEPT !.conn = "on"]
  /\ thread = [th \in Threads |-> Idle]
  /\ fails = [c \in Clients |-> 0] /\ faults = 0
  /\ history = [admits |-> [t \in Txs |-> [path \in Paths |-> 0]],
                calls |-> [t \in Txs |-> 0],
                evicted |-> [n \in 1 .. Cardinality(Gasless) |-> 0],
                last |-> None]

Init ==
  /\ db = NewRow
  /\ rpc = [t \in Txs |-> "new"]
  /\ job = [t \in Txs |-> "none"]
  /\ counter = [t \in Txs |-> 0]
  /\ InitNode

-----------------------------------------------------------------------------
(* Remote calls.  After Threshold failures in a row a client answers for    *)
(* itself until the recovery window has passed, and then counts afresh.     *)

\* What goes wrong is bounded; what disturbs a behaviour most counts for more.
Fault(cost) == faults + cost <= MaxFaults /\ faults' = faults + cost

Succeeds(c) == fails' = [fails EXCEPT ![c] = 0] /\ UNCHANGED faults

Fails(c) ==
  /\ Fault(IF c = "nullifier" THEN 1 ELSE 2)
  /\ fails' = [fails EXCEPT ![c] = (IF @ >= Threshold THEN 0 ELSE @) + 1]

BreakerOpen(c) == fails[c] >= Threshold /\ UNCHANGED <<fails, faults>>

\* The client gets no answer to a question.
Unanswered(c) == Fails(c) \/ BreakerOpen(c)

-----------------------------------------------------------------------------
(* RPC nodes and the prover *)

QuotaNow == Quota + db.bonus

\* The row has been read and not been written yet.
Counting(t) == job[t] \in {"first", "read"}

\* A gasless transaction is forwarded, and the prover reads the sender's row
\* (send_transaction, incr_tx_counter), or the call does not reach the prover.
Forward(t) ==
  /\ t \in Gasless /\ rpc[t] = "new"
  /\ \/ /\ rpc' = [rpc EXCEPT ![t] = "calling"]
        /\ Fault(IF \E u \in Txs : Counting(u) THEN 1 ELSE 0)
        /\ job' = [job EXCEPT ![t] = IF db.stale THEN "first" ELSE "read"]
        /\ counter' = [counter EXCEPT ![t] = IF db.stale THEN 1 ELSE db.count + 1]
     \/ /\ Fault(2) /\ UNCHANGED <<job, counter>>
        /\ \E to \in {"sent", "dropped"} : rpc' = [rpc EXCEPT ![t] = to]
  /\ UNCHANGED <<db, emit, node, thread, fails, history>>

\* incr_tx_counter writes what it has worked out from the row it has read,
\* whatever was written since.
incr_tx_counter(t) ==
  /\ Counting(t)
  /\ db' = [db EXCEPT !.stale = FALSE, !.count = counter[t],
                      !.bonus = IF job[t] = "first" THEN 0 ELSE @]
  /\ job' = [job EXCEPT ![t] = "counted"]
  /\ history' = [history EXCEPT !.last = t]
  /\ UNCHANGED <<rpc, counter, emit, node, thread, fails, faults>>

\* user_tier_info gives the limit, from the bonus of now; when it fails the
\* global one is taken.
Accepts(t) == counter[t] <= QuotaNow
AcceptsBlind(t) == counter[t] <= RateLimit

\* The end of send_transaction: the proof is made when the transaction is
\* accepted, which tells the RPC node, if that still waits, to gossip it.
Answer(t, accepted) ==
  /\ emit' = [emit EXCEPT ![t] = IF accepted THEN "making" ELSE "none"]
  /\ rpc' = IF rpc[t] # "calling" THEN rpc
            ELSE [rpc EXCEPT ![t] = IF accepted THEN "sent" ELSE "dropped"]

send_transaction(t) ==
  /\ job[t] = "counted"
  /\ \/ /\ job' = [job EXCEPT ![t] = "done"] /\ UNCHANGED faults
        /\ Answer(t, Accepts(t))
     \/ /\ job' = [job EXCEPT ![t] = "blind"] /\ Fault(2)
        /\ Answer(t, AcceptsBlind(t))
  /\ UNCHANGED <<db, counter, node, thread, fails, history>>

\* The call fails for the RPC node while the prover is at it or its answer is
\* lost.  The transaction may then be gossiped or not, as it may when the breaker
\* of the RPC node is open: there are several nodes, each with its own count of
\* failures.
GiveUp(t) ==
  /\ rpc[t] = "calling" /\ Fault(2)
  /\ \E to \in {"sent", "dropped"} : rpc' = [rpc EXCEPT ![t] = to]
  /\ UNCHANGED <<db, job, counter, emit, node, thread, fails, history>>

\* The two parts of remove_from_deny_list.  add_quota_bonus makes the row one of
\* this epoch.
Undenied == [db EXCEPT !.denied = FALSE]
WithBonus(row) == [row EXCEPT !.stale = FALSE, !.bonus = @ + Quota]

\* A premium transaction is gossiped whatever becomes of the call, which takes
\* its sender off the deny list, denied or not, and raises the quota of the epoch
\* by the tier's.
ForwardPremium(t) ==
  /\ t \in Premium /\ rpc[t] = "new"
  /\ rpc' = [rpc EXCEPT ![t] = "sent"]
  /\ \/ db' = WithBonus(Undenied) /\ UNCHANGED faults
     \/ Fault(2) /\ db' \in {db, Undenied, WithBonus(Undenied)}
  /\ UNCHANGED <<job, counter, emit, node, thread, fails, history>>

-----------------------------------------------------------------------------
(* The proof stream *)

\* A proof is broadcast: only a subscriber that is connected gets it.
Prove(t) ==
  /\ emit[t] = "making"
  /\ emit' = [emit EXCEPT ![t] = IF stream.conn = "on" THEN "stream" ELSE "gone"]
  /\ UNCHANGED <<db, asked, node, thread, fails, faults, history>>

\* pendingProofs.remove, and the future it finds is completed for whoever waits
\* on it.
Complete(t, result) ==
  /\ pending' = [pending EXCEPT ![t] = None]
  /\ thread' = [th \in Threads |->
       IF pending[t] # None /\ thread[th].future = pending[t]
       THEN [thread[th] EXCEPT !.future = result] ELSE thread[th]]

\* The callbacks of a stream come one after the other.
InCallback == \E t \in Txs : emit[t] = "cached"

\* onNext: a valid proof is cached; of another one the waiters are told at once.
OnNext(t) ==
  /\ emit[t] = "stream" /\ ~InCallback
  /\ \/ /\ cache' = cache \union {t} /\ emit' = [emit EXCEPT ![t] = "cached"]
        /\ UNCHANGED <<pending, stream, thread, faults>>
     \/ /\ Fault(2) /\ Complete(t, "null") /\ emit' = [emit EXCEPT ![t] = "gone"]
        /\ stream' = [stream EXCEPT !.retries = 0] /\ UNCHANGED cache
  /\ UNCHANGED <<db, asked, localCache, fails, history>>

\* The rest of onNext for a valid proof.
OnNextTells(t) ==
  /\ emit[t] = "cached" /\ emit' = [emit EXCEPT ![t] = "gone"]
  /\ Complete(t, "proof")
  /\ stream' = [stream EXCEPT !.retries = 0]
  /\ UNCHANGED <<db, asked, cache, localCache, fails, faults, history>>

MaxTasks == 2

\* scheduleProofStreamReconnection, from a retry count.  The tasks that wait in
\* the scheduler are counted up to MaxTasks.
Scheduled(s, count) ==
  IF count >= MaxRetries
  THEN [s EXCEPT !.retries = count + 1]
  ELSE [s EXCEPT !.retries = count + 1,
                 !.tasks = IF @ < MaxTasks THEN @ + 1 ELSE @]

\* onError and onCompleted: what was in the stream is lost.
StreamEnds ==
  /\ stream.active /\ ~InCallback /\ Fault(1)
  /\ stream' = Scheduled([stream EXCEPT !.active = FALSE, !.conn = "off"], stream.retries)
  /\ emit' = [t \in Txs |-> IF emit[t] = "stream" THEN "gone" ELSE emit[t]]
  /\ UNCHANGED <<db, asked, proofs, localCache, thread, fails, history>>

\* A scheduled startProofStreamSubscription: nothing when one is active.
startProofStreamSubscription ==
  /\ stream.tasks > 0
  /\ stream' = IF stream.active THEN [stream EXCEPT !.tasks = @ - 1]
               ELSE [stream EXCEPT !.tasks = @ - 1, !.active = TRUE, !.conn = "opening"]
  /\ UNCHANGED <<prover, proofs, localCache, thread, fails, faults, history>>

\* get_proofs: the prover subscribes the caller to its broadcasts.
get_proofs ==
  /\ stream.conn = "opening"
  /\ stream' = [stream EXCEPT !.conn = "on"]
  /\ UNCHANGED <<prover, proofs, localCache, thread, fails, faults, history>>

-----------------------------------------------------------------------------
(* validateTransaction *)

At(th, pc) == thread[th].pc = pc
Tx(th) == thread[th].tx
Go(th, pc) == thread' = [thread EXCEPT ![th].pc = pc]
Admit(th) ==
  /\ thread' = [thread EXCEPT ![th] = Idle]
  /\ history' = [history EXCEPT !.admits[Tx(th)][thread[th].via] = @ + 1]
Reject(th, why) == thread' = [thread EXCEPT ![th].pc = "rejected", ![th].why = why]

\* A thread is free again once it has returned its verdict.
Free(th) == At(th, "idle") \/ At(th, "rejected")

Calls == MapThenSumSet(LAMBDA t : history.calls[t], Txs)

\* A transaction that has reached the sequencer is validated, and again when the
\* pool is offered it again.  1. The deny list: a denied sender gets out of it by
\* paying, and a client that gets no answer takes the sender for not denied.
\* Before that, the kill switch may be on.
isDenied(th, t) ==
  /\ Free(th) /\ rpc[t] = "sent" /\ Calls < MaxCalls
  /\ LET pays == t \in Premium
         call(pc, why) == [Idle EXCEPT !.pc = pc, !.tx = t, !.why = why]
         allowed == IF pays THEN Idle ELSE call("karma1", None)
         denied == IF pays THEN call("remove", None) ELSE call("rejected", "denied")
         switchedOff == IF pays THEN Idle ELSE call("rejected", "killSwitch")
     IN  \/ /\ Succeeds("denyList")
            /\ thread' = [thread EXCEPT ![th] = IF db.denied THEN denied ELSE allowed]
         \/ Unanswered("denyList") /\ thread' = [thread EXCEPT ![th] = allowed]
         \/ /\ Fault(2) /\ UNCHANGED fails
            /\ thread' = [thread EXCEPT ![th] = switchedOff]
  /\ history' = [history EXCEPT !.calls[t] = @ + 1]
  /\ UNCHANGED <<prover, node>>

\* removeFromDenyListAndResetQuota: remove_from_deny_list, which may be executed
\* in part or as a whole although its answer is lost, ...
remove_from_deny_list(th) ==
  /\ At(th, "remove")
  /\ \/ Succeeds("denyList") /\ db' = Undenied /\ Go(th, "bonus")
     \/ /\ thread' = [thread EXCEPT ![th] = Idle]
        /\ \/ Fails("denyList") /\ db' \in {db, Undenied, WithBonus(Undenied)}
           \/ BreakerOpen("denyList") /\ UNCHANGED db
  /\ UNCHANGED <<asked, emit, node, history>>

\* ... its second part, add_quota_bonus, with a bonus of zero when the tier is
\* not found.
add_quota_bonus(th) ==
  /\ At(th, "bonus")
  /\ thread' = [thread EXCEPT ![th] = Idle]
  /\ \/ db' = WithBonus(db) /\ UNCHANGED faults
     \/ Fault(2) /\ db' \in {db, [db EXCEPT !.stale = FALSE]}
  /\ UNCHANGED <<asked, emit, node, fails, history>>

\* What fetchKarmaInfo leads to when it gets an answer: the counter counts what
\* was forwarded, this transaction included.
Over_AtLimit == db.count >= QuotaNow

Over == db.count > QuotaNow

AtLimit == db.count = QuotaNow

\* 2. Pre-check, before the proof is waited for; without an answer it is skipped.
PreCheck(th) ==
  /\ At(th, "karma1")
  /\ \/ /\ Succeeds("karma")
        /\ IF Over THEN Reject(th, "quota") ELSE Go(th, IF AtLimit THEN "deny1" ELSE "cache")
     \/ Unanswered("karma") /\ Go(th, "cache")
  /\ UNCHANGED <<prover, node, history>>

\* addToDenyList, decided on an earlier answer and whichever of the sender's
\* transactions is the last one allowed.
addToDenyList(th) ==
  /\ At(th, "deny1") \/ At(th, "deny2")
  /\ IF At(th, "deny1") THEN Go(th, "cache") /\ UNCHANGED history ELSE Admit(th)
  /\ LET denied == [db EXCEPT !.denied = TRUE]
     IN  \/ Succeeds("denyList") /\ db' = denied
         \/ Fails("denyList") /\ db' \in {db, denied}
         \/ BreakerOpen("denyList") /\ UNCHANGED db
  /\ UNCHANGED <<asked, emit, node>>

\* waitForProofInCache, first part: the cache, then the number of waits.
CheckCache(th) ==
  /\ At(th, "cache")
  /\ Go(th, CASE Tx(th) \in cache -> "nullifier"
              [] Cardinality({w \in Threads : At(w, "wait")}) >= MaxWaits -> "noProof"
              [] OTHER -> "register")
  /\ UNCHANGED <<prover, node, fails, faults, history>>

\* A future nobody waits on, to stand for a new one.
NewFuture == CHOOSE f \in Threads : \A th \in Threads : thread[th].future # f

\* Second part: computeIfAbsent.  A proof that has been cached since the look
\* into the cache is not noticed.
Register(th) ==
  /\ At(th, "register")
  /\ LET t == Tx(th)
         future == IF pending[t] = None THEN NewFuture ELSE pending[t]
     IN  /\ pending' = [pending EXCEPT ![t] = future]
         /\ thread' = [thread EXCEPT ![th].pc = "wait", ![th].future = future]
  /\ UNCHANGED <<prover, cache, localCache, stream, fails, faults, history>>

\* finally: pendingProofs.remove, whichever future is there.
Leave(th, pc) ==
  /\ pending' = [pending EXCEPT ![Tx(th)] = None]
  /\ thread' = [thread EXCEPT ![th].pc = pc, ![th].future = None]
  /\ UNCHANGED <<prover, cache, localCache, stream, fails, faults, history>>

\* The future has been completed.
Awake(th) ==
  /\ At(th, "wait") /\ thread[th].future \in {"proof", "null"}
  /\ Leave(th, IF thread[th].future = "proof" THEN "nullifier" ELSE "noProof")

\* Fault: a wait that has timed out leaves its future in the map.
TimeOut_Leaks(th) ==
  /\ At(th, "wait")
  /\ thread' = [thread EXCEPT ![th].pc = "noProof", ![th].future = None]
  /\ UNCHANGED <<prover, proofs, localCache, stream, fails, faults, history>>

\* The time may run out when onNext has removed the future and not completed it.
TimeOut(th) == At(th, "wait") /\ Leave(th, "noProof")

Reconnect_KeepsCount == Scheduled(stream, stream.retries)

\* The on-demand reconnection starts to count from zero.
Reconnect == Scheduled(stream, 0)

NoProof(th) ==
  /\ At(th, "noProof") /\ Reject(th, "noProof")
  /\ stream' = IF stream.active THEN stream ELSE Reconnect
  /\ UNCHANGED <<prover, proofs, localCache, fails, faults, history>>

-----------------------------------------------------------------------------
(* checkAndMarkNullifier and what follows *)

Nullifier(th) == counter[Tx(th)]

\* The local cache answers first.
LookUp(th) ==
  /\ At(th, "nullifier")
  /\ IF Nullifier(th) \in localCache THEN Reject(th, "reuse") ELSE Go(th, "record")
  /\ UNCHANGED <<prover, node, fails, faults, history>>

\* check_and_record_nullifier: one atomic insert, new or not.  When the call
\* fails the insert may still have happened.
IsNew(n) == n \notin db.nullifiers

Record(th) ==
  LET inserted == [db EXCEPT !.nullifiers = @ \union {Nullifier(th)}]
  IN  /\ At(th, "record")
      /\ \/ /\ Succeeds("nullifier") /\ db' = inserted
            /\ Go(th, IF IsNew(Nullifier(th)) THEN "markNew" ELSE "markUsed")
         \/ /\ Fails("nullifier") /\ db' \in {db, inserted} /\ Go(th, "fallback")
         \/ /\ BreakerOpen("nullifier") /\ Go(th, "fallback") /\ UNCHANGED db
      /\ UNCHANGED <<asked, emit, node, history>>

\* The answer goes into the local cache.
Mark(th) ==
  /\ At(th, "markNew") \/ At(th, "markUsed")
  /\ localCache' = localCache \union {Nullifier(th)}
  /\ IF At(th, "markNew")
     THEN thread' = [thread EXCEPT ![th].pc = "karma2", ![th].via = "grpc"]
     ELSE Reject(th, "reuse")
  /\ UNCHANGED <<prover, proofs, stream, fails, faults, history>>

\* Cache-only mode: putIfAbsent.
Fallback_Put(th) ==
  /\ At(th, "fallback")
  /\ thread' = [thread EXCEPT ![th].pc = "karma2", ![th].via = "fallback"]
  /\ localCache' = localCache \union {Nullifier(th)}
  /\ UNCHANGED <<prover, proofs, stream, fails, faults, history>>

Fallback(th) ==
  /\ At(th, "fallback")
  /\ IF Nullifier(th) \in localCache
     THEN Reject(th, "reuse")
     ELSE thread' = [thread EXCEPT ![th].pc = "karma2", ![th].via = "fallback"]
  /\ localCache' = localCache \union {Nullifier(th)}
  /\ UNCHANGED <<prover, proofs, stream, fails, faults, history>>

\* 3. The quota on fresh data; without an answer the transaction is rejected, its
\* nullifier spent.
QuotaCheck(th) ==
  /\ At(th, "karma2")
  /\ \/ /\ Succeeds("karma")
        /\ CASE Over -> Reject(th, "quota") /\ UNCHANGED history
             [] AtLimit -> Go(th, "deny2") /\ UNCHANGED history
             [] OTHER -> Admit(th)
     \/ Unanswered("karma") /\ Reject(th, "karma") /\ UNCHANGED history
  /\ UNCHANGED <<prover, node>>

-----------------------------------------------------------------------------
(* Evictions and restarts of the sequencer *)

EvictProof(t) ==
  /\ t \in cache /\ Fault(2)
  /\ cache' = cache \ {t}
  /\ UNCHANGED <<prover, pending, localCache, stream, thread, fails, history>>

Forgotten(lost) ==
  [history EXCEPT !.evicted = [n \in DOMAIN @ |-> @[n] + IF n \in lost THEN 1 ELSE 0]]

EvictNullifier(n) ==
  /\ n \in localCache /\ Fault(1)
  /\ localCache' = localCache \ {n} /\ history' = Forgotten({n})
  /\ UNCHANGED <<prover, proofs, stream, thread, fails>>

Restart ==
  /\ Fault(2)
  /\ cache' = {} /\ pending' = [t \in Txs |-> None] /\ localCache' = {}
  /\ history' = Forgotten(localCache)
  /\ stream' = Subscribing
  /\ thread' = [th \in Threads |-> Idle]
  /\ fails' = [c \in Clients |-> 0]
  /\ emit' = [t \in Txs |-> IF emit[t] \in {"stream", "cached"} THEN "gone" ELSE emit[t]]
  /\ UNCHANGED <<db, asked>>

-----------------------------------------------------------------------------
Step(th) ==
  \/ remove_from_deny_list(th) \/ add_quota_bonus(th)
  \/ PreCheck(th) \/ addToDenyList(th)
  \/ CheckCache(th) \/ Register(th) \/ Awake(th) \/ TimeOut(th) \/ NoProof(th)
  \/ LookUp(th) \/ Record(th) \/ Mark(th) \/ Fallback(th)
  \/ QuotaCheck(th)

Next ==
  \/ \E t \in Txs : Forward(t) \/ GiveUp(t) \/ ForwardPremium(t)
  \/ \E t \in Txs : incr_tx_counter(t) \/ send_transaction(t)
  \/ \E t \in Txs : Prove(t) \/ OnNext(t) \/ OnNextTells(t)
  \/ StreamEnds \/ startProofStreamSubscription \/ get_proofs
  \/ \E th \in Threads : (\E t \in Txs : isDenied(th, t)) \/ Step(th)
  \/ \E t \in Txs : EvictProof(t)
  \/ \E n \in localCache : EvictNullifier(n)
  \/ Restart

Spec == Init /\ [][Next]_vars

\* The scheduler of the reconnections runs its tasks, the prover answers a
\* subscription, and a call goes on: every remote call and every wait ends.
Fairness ==
  /\ WF_vars(startProofStreamSubscription) /\ WF_vars(get_proofs)
  /\ \A th \in Threads : WF_vars(Step(th))

FairSpec == Spec /\ Fairness

-----------------------------------------------------------------------------
\* The prover's insert lets a nullifier through once, whatever fails around it
\* (record_nullifier), and the fallback of NullifierTracker once for every time the
\* local cache has forgotten it, also when two transactions share the nullifier
\* because their counters were read together: a nullifier is used again only
\* through a call that was not answered.
ReuseExplained ==
  \A n \in DOMAIN history.evicted :
    LET admits(path) == MapThenSumSet(LAMBDA t : history.admits[t][path],
                                      {t \in Gasless : counter[t] = n})
    IN  admits("grpc") <= 1 /\ admits("fallback") <= 1 + history.evicted[n]

\* Why the call of a thread may have been turned down.
Explained(th) ==
  LET t == Tx(th)
      why == thread[th].why
      offered(u) == history.calls[u] > IF u = t THEN 1 ELSE 0
      counted == {u \in Gasless : job[u] \in {"counted", "done", "blind"}}
  IN  /\ why = "quota" => history.last # t \/ job[t] = "blind"
      /\ why = "denied" => Cardinality(counted) >= Quota /\ \E u \in Gasless : offered(u)
      /\ why = "reuse" => \E u \in Gasless : counter[u] = counter[t] /\ offered(u)

\* The sequencer turns down a transaction the prover has accepted for the quota
\* only when another one was counted after it, or when the prover accepted it
\* without knowing its sender's tier; for the deny list only when as many
\* transactions were counted as the tier allows and an earlier call, of this or of
\* another one, has put the sender there; for its nullifier only when it was
\* offered before, or another one that was counted with the same number
\* (validateTransaction, incr_tx_counter).
RejectionsExplained ==
  [][\A th \in Threads :
       thread'[th] # thread[th] /\ thread'[th].pc = "rejected"
       /\ emit[thread'[th].tx] # "none" => Explained(th)']_vars

\* pendingProofs and the waiting threads match (waitForProofInCache, onNext): a
\* future in the map has a thread that waits on it, so none is left behind when a
\* wait ends in whichever way; and a thread whose future is neither completed nor
\* in the map any more, so that no proof can wake it, has lost it to another call
\* for the same transaction, whose end removes the entry whosever it is.
PendingMatchesWaits ==
  /\ \A t \in Txs : pending[t] # None =>
       \E th \in Threads : At(th, "wait") /\ Tx(th) = t /\ thread[th].future = pending[t]
  /\ \A th \in Threads : At(th, "wait") =>
       \/ thread[th].future \in {"proof", "null", pending[Tx(th)]}
       \/ history.calls[Tx(th)] > 1

\* Once nothing fails any more, a call that finds no proof while the stream is
\* down brings it back, however many retries had been used up (on-demand
\* reconnection).
StreamComesBack ==
  ((\E th \in Threads : At(th, "noProof")) /\ ~stream.active /\ faults = MaxFaults)
    ~> (stream.conn = "on")

=============================================================================
