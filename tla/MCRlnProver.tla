---------------------------- MODULE MCRlnProver ----------------------------
(* Instances of RlnProver for TLC. *)
EXTENDS RlnProver, TLC

CONSTANTS u1, t1, t2, t3, h1, h2

\* One account sends everything.
MCSender == [tx \in Txs |-> u1]

\* One unit of quota each, t3 two.
MCGas == [tx \in Txs |-> IF tx = t3 THEN 20 ELSE 10]

Symm == Permutations({h1, h2})
============================================================================
