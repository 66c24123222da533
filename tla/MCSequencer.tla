---------------------------- MODULE MCSequencer ----------------------------
(***************************************************************************)
(* Two gasless transactions and a premium one.  The gasless ones are alike *)
(* and what comes before the first of them is counted does not depend on   *)
(* it, except that the premium one may have changed the sender's row: so   *)
(* it is enough to begin where the prover has just read the row for t1,    *)
(* before or after the premium transaction was forwarded.                  *)
(***************************************************************************)
EXTENDS Sequencer, TLC

CONSTANTS t1, t2, p

MCInit ==
  /\ \/ /\ db = NewRow
        /\ rpc = [t \in Txs |-> IF t = t1 THEN "calling" ELSE "new"]
        /\ job = [t \in Txs |-> IF t = t1 THEN "first" ELSE "none"]
     \/ /\ db = WithBonus(NewRow)
        /\ rpc = (t1 :> "calling" @@ t2 :> "new" @@ p :> "sent")
        /\ job = [t \in Txs |-> IF t = t1 THEN "read" ELSE "none"]
  /\ counter = [t \in Txs |-> IF t = t1 THEN 1 ELSE 0]
  /\ InitNode

MCSpec == MCInit /\ [][Next]_vars /\ Fairness
=============================================================================
