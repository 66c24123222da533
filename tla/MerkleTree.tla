----------------------------- MODULE MerkleTree -----------------------------
(***************************************************************************)
(* The sparse Merkle tree of the state manager                             *)
(* (prover/crypto/state-management/smt_koalabear).  A tree is a value: the *)
(* occupied prefix of every level, level 0 holding the leaves, and the     *)
(* root.  What lies beyond an occupied prefix is the empty node of that    *)
(* level.                                                                  *)
(*                                                                         *)
(* Poseidon2 is taken to be free of collisions: the hash of two nodes is   *)
(* the pair of them, and the leaves are tuples of other lengths.           *)
(***************************************************************************)
EXTENDS Integers, Sequences

CONSTANT Depth \* 40 in production

Capacity == 2^Depth

ASSUME DepthAssumption == Depth \in Nat \ {0} /\ Capacity \in Nat

EmptyLeaf == <<>>

HashLR(nodeL, nodeR) == <<nodeL, nodeR>>

(* EmptyNodes: the root of an empty subtree of each height. *)
EmptyNode[level \in 0 .. Depth] ==
  IF level = 0
    THEN EmptyLeaf
    ELSE HashLR(EmptyNode[level - 1], EmptyNode[level - 1])

NewEmptyTree ==
  [nodes |-> [level \in 0 .. Depth - 1 |-> <<>>],
   root  |-> EmptyNode[Depth]]

GetNode(t, level, idx) ==
  IF idx < Len(t.nodes[level])
    THEN t.nodes[level][idx + 1]
    ELSE EmptyNode[level]

IdxAt(pos, level) == pos \div 2^level

(* idx^1: the other child of the same parent. *)
SiblingOf(idx) == IF idx % 2 = 1 THEN idx - 1 ELSE idx + 1

Parent(idx, node, sibling) ==
  IF idx % 2 = 1 THEN HashLR(sibling, node) ELSE HashLR(node, sibling)

(* Prove: the siblings met on the way from a leaf to the root. *)
Prove(t, pos) ==
  [path     |-> pos,
   siblings |-> [l \in 1 .. Depth |->
                   GetNode(t, l - 1, SiblingOf(IdxAt(pos, l - 1)))]]

(* The nodes above a leaf, from the leaf itself to the root. *)
Branch(p, leaf) ==
  LET up[level \in 0 .. Len(p.siblings)] ==
        IF level = 0
          THEN leaf
          ELSE Parent(IdxAt(p.path, level - 1), up[level - 1], p.siblings[level])
  IN  up

RecoverRoot(p, leaf) == Branch(p, leaf)[Len(p.siblings)]

Verify(p, leaf, root) == RecoverRoot(p, leaf) = root

ReserveLevel(nodes, level, size) ==
  [i \in 1 .. (IF size > Len(nodes) THEN size ELSE Len(nodes)) |->
     IF i <= Len(nodes) THEN nodes[i] ELSE EmptyNode[level]]

(* Update: the new branch is written level by level, each level padded up  *)
(* to the position written.  Writing a node changes no sibling, so the     *)
(* branch is the one the old siblings give.                                *)
Update(t, pos, newVal) ==
  LET up == Branch(Prove(t, pos), newVal)
  IN  [nodes |-> [level \in 0 .. Depth - 1 |->
                    [ReserveLevel(t.nodes[level], level, IdxAt(pos, level) + 1)
                       EXCEPT ![IdxAt(pos, level) + 1] = up[level]]],
       root  |-> up[Depth]]

-----------------------------------------------------------------------------
(* NewTree: the tree over a full row of leaves, built bottom up; the       *)
(* reference Update is compared with.                                      *)
RootOfLeaves(leafAt) ==
  LET node[level \in 0 .. Depth] ==
        IF level = 0
          THEN leafAt
          ELSE [i \in 0 .. 2^(Depth - level) - 1 |->
                  HashLR(node[level - 1][2 * i], node[level - 1][2 * i + 1])]
  IN  node[Depth][0]
=============================================================================
