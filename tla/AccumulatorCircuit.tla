------------------------- MODULE AccumulatorCircuit -------------------------
(***************************************************************************)
(* The accumulator module of the zkEVM circuit                             *)
(* (prover/zkevm/prover/statemanager/accumulator): the rows that assign.go *)
(* writes for a sequence of traces, and the constraints that define.go     *)
(* puts on the rows.  A column made of limbs is one value here.            *)
(*                                                                         *)
(* A constraint holds at every row whose shifted rows exist; rows are      *)
(* numbered from 1, those after the last pushed one are zero.              *)
(***************************************************************************)
EXTENDS Accumulator

CONSTANT MaxNumProofs \* limit of the module, in rows

ASSUME CircuitAssumption == MaxNumProofs \in Nat \ {0}

(* The next power of two. *)
NumRows ==
  CHOOSE n \in {2^k : k \in 0 .. MaxNumProofs} :
    n >= MaxNumProofs /\ (n = 1 \/ n \div 2 < MaxNumProofs)

Zero == EmptyLeaf \* the octuplet of zeros

ZeroOpening == Open(0, 0, 0, 0)

TopRoot(next, root) == <<0, next, root>>

-----------------------------------------------------------------------------
(* assign.go *)

ZeroRow ==
  [active |-> FALSE, op |-> "none", first |-> FALSE,
   open |-> ZeroOpening, isEmptyLeaf |-> FALSE,
   leaf |-> Zero, leafHash |-> Zero,
   root |-> Zero, topRoot |-> Zero, siblings |-> [l \in 1 .. Depth |-> Zero],
   position |-> 0, nextFreeNode |-> 0, insertRow3 |-> FALSE, insertionPath |-> 0,
   counter |-> 0, useNext |-> FALSE,
   hkey |-> 0, hkeyMinus |-> 0, hkeyPlus |-> 0,
   minusIndex |-> 0, minusNext |-> 0, plusIndex |-> 0, plusPrev |-> 0,
   deletedIndex |-> 0, deletedPrev |-> 0, deletedNext |-> 0]

(* computeLeaf: an empty leaf is opened by zeros, whose hash is not it. *)
PushRow(op, open, root, proof, next) ==
  [ZeroRow EXCEPT
     !.active = TRUE, !.op = op,
     !.open = open, !.leaf = Hash(open), !.leafHash = Hash(open),
     !.root = root, !.topRoot = TopRoot(next, root),
     !.siblings = proof.siblings, !.position = proof.path, !.nextFreeNode = next]

PushEmptyRow(op, root, proof, next) ==
  [PushRow(op, ZeroOpening, root, proof, next) EXCEPT
     !.isEmptyLeaf = TRUE, !.leaf = EmptyLeaf,
     !.insertRow3 = op = "insert",
     !.insertionPath = IF op = "insert" THEN proof.path ELSE 0]

First(row) == [row EXCEPT !.first = TRUE]

WithSandwitch(row, t) ==
  [row EXCEPT !.hkey = t.key, !.hkeyMinus = t.minus.hkey, !.hkeyPlus = t.plus.hkey]

WithPointers(row, t) ==
  [row EXCEPT !.minusIndex = t.proofMinus.path, !.minusNext = t.minus.next,
              !.plusIndex = t.proofPlus.path, !.plusPrev = t.plus.prev]

WithDeleted(row, t) ==
  [row EXCEPT !.deletedIndex = t.proof.path,
              !.deletedPrev = t.open.prev, !.deletedNext = t.open.next]

PushUpdateRows(t) ==
  << First(PushRow("update", t.open, t.oldRoot, t.proof, t.next)),
     PushRow("update", CopyWithVal(t.open, t.val), t.newRoot, t.proof, t.next) >>

PushInsertionRows(t) ==
  LET newMinus == CopyWithNext(t.minus, t.proof.path)
      inserted == Open(t.proofMinus.path, t.proofPlus.path, t.key, t.val)
      newPlus  == CopyWithPrev(t.plus, t.proof.path)
      root1 == RecoverRoot(t.proofMinus, Hash(newMinus))
      root3 == RecoverRoot(t.proof, Hash(inserted))
  IN  << First(WithPointers(WithSandwitch(
           PushRow("insert", t.minus, t.oldRoot, t.proofMinus, t.next - 1), t), t)),
         PushRow("insert", newMinus, root1, t.proofMinus, t.next - 1),
         PushEmptyRow("insert", root1, t.proof, t.next),
         PushRow("insert", inserted, root3, t.proof, t.next),
         PushRow("insert", t.plus, root3, t.proofPlus, t.next),
         PushRow("insert", newPlus, t.newRoot, t.proofPlus, t.next) >>

PushDeletionRows(t) ==
  LET newMinus == CopyWithNext(t.minus, t.proofPlus.path)
      newPlus  == CopyWithPrev(t.plus, t.proofMinus.path)
      root1 == RecoverRoot(t.proofMinus, Hash(newMinus))
      root3 == RecoverRoot(t.proof, EmptyLeaf)
  IN  << First(WithDeleted(WithPointers(
           PushRow("delete", t.minus, t.oldRoot, t.proofMinus, t.next), t), t)),
         PushRow("delete", newMinus, root1, t.proofMinus, t.next),
         PushRow("delete", t.open, root1, t.proof, t.next),
         PushEmptyRow("delete", root3, t.proof, t.next),
         PushRow("delete", t.plus, root3, t.proofPlus, t.next),
         PushRow("delete", newPlus, t.newRoot, t.proofPlus, t.next) >>

PushReadZeroRows(t) ==
  << First(WithPointers(WithSandwitch(
       PushRow("readzero", t.minus, t.oldRoot, t.proofMinus, t.next), t), t)),
     PushRow("readzero", t.plus, t.oldRoot, t.proofPlus, t.next) >>

PushReadNonZeroRows_Once(t) ==
  <<First(PushRow("readnonzero", t.open, t.oldRoot, t.proof, t.next))>>

PushReadNonZeroRows(t) ==
  LET row == PushRow("readnonzero", t.open, t.oldRoot, t.proof, t.next)
  IN  <<First(row), row>>

PushRows(t) ==
  CASE t.type = "insert"      -> PushInsertionRows(t)
    [] t.type = "delete"      -> PushDeletionRows(t)
    [] t.type = "update"      -> PushUpdateRows(t)
    [] t.type = "readzero"    -> PushReadZeroRows(t)
    [] t.type = "readnonzero" -> PushReadNonZeroRows(t)

(* pushRow numbers the rows, and lets every other one share the Merkle     *)
(* proof of the next, unless reads disable it.                             *)
Numbered(rows) ==
  [i \in DOMAIN rows |->
     [rows[i] EXCEPT
        !.counter = i - 1,
        !.useNext = (i - 1) % 2 = 0 /\ rows[i].op \notin {"readzero", "readnonzero"}]]

(* addSkipFlags: the first trace of a storage key is skipped when another  *)
(* one follows in the block.  Traces of the world state are not skipped.   *)
SkipFlags(traces) ==
  {i \in DOMAIN traces :
     /\ \A j \in 1 .. i - 1 : traces[j].key # traces[i].key
     /\ \E j \in i + 1 .. Len(traces) : traces[j].key = traces[i].key}

Assign(traces, skipped) ==
  LET rowsOf[n \in 0 .. Len(traces)] ==
        IF n = 0 THEN <<>>
        ELSE IF n \in skipped THEN rowsOf[n - 1]
        ELSE rowsOf[n - 1] \o PushRows(traces[n])
  IN  Numbered(rowsOf[Len(traces)])

Padded(rows) ==
  [i \in 1 .. NumRows |-> IF i <= Len(rows) THEN rows[i] ELSE ZeroRow]

-----------------------------------------------------------------------------
(* define.go: the constraints on a table c of rows. *)

Starts(c, i, op) == c[i].active /\ c[i].first /\ c[i].op = op

(* checkInsert and checkDelete: what one pair of rows leaves the next one  *)
(* starts from.                                                            *)
CheckChained(c) ==
  \A i \in 1 .. NumRows - 4 :
    Starts(c, i, "insert") \/ Starts(c, i, "delete") =>
      c[i + 1].root = c[i + 2].root /\ c[i + 3].root = c[i + 4].root

CheckUpdate(c) ==
  \A i \in 1 .. NumRows - 1 :
    Starts(c, i, "update") => c[i].hkey = c[i + 1].hkey

CheckReadZero(c) ==
  \A i \in 1 .. NumRows - 1 :
    Starts(c, i, "readzero") => c[i].root = c[i + 1].root

CheckConsistency(c) ==
  /\ c[1].counter = 0
  /\ \A i \in 1 .. NumRows - 1 :
       c[i + 1].active => c[i].active /\ c[i + 1].counter = c[i].counter + 1
  /\ \A i \in 1 .. NumRows : c[i].active <=> c[i].op # "none"

CheckEmptyLeaf(c) ==
  /\ \A i \in 1 .. NumRows - 2 : Starts(c, i, "insert") => c[i + 2].leaf = EmptyLeaf
  /\ \A i \in 1 .. NumRows - 3 : Starts(c, i, "delete") => c[i + 3].leaf = EmptyLeaf

CheckSandwitch(c) ==
  /\ \A i \in 1 .. NumRows :
       Starts(c, i, "insert") \/ Starts(c, i, "readzero") =>
         /\ c[i].hkeyMinus < c[i].hkey /\ c[i].hkey < c[i].hkeyPlus
         /\ c[i].hkeyMinus = c[i].open.hkey
  /\ \A i \in 1 .. NumRows - 4 :
       Starts(c, i, "insert") =>
         c[i].hkey = c[i + 3].open.hkey /\ c[i].hkeyPlus = c[i + 4].open.hkey
  /\ \A i \in 1 .. NumRows - 1 :
       Starts(c, i, "readzero") => c[i].hkeyPlus = c[i + 1].open.hkey

CheckPointer(c) ==
  \A i \in 1 .. NumRows :
    /\ Starts(c, i, "insert") \/ Starts(c, i, "readzero") =>
         c[i].minusNext = c[i].plusIndex /\ c[i].plusPrev = c[i].minusIndex
    /\ Starts(c, i, "delete") =>
         /\ c[i].minusNext = c[i].deletedIndex /\ c[i].deletedPrev = c[i].minusIndex
         /\ c[i].deletedNext = c[i].plusIndex /\ c[i].plusPrev = c[i].deletedIndex

CheckLeafHashes(c) ==
  /\ \A i \in 1 .. NumRows :
       c[i].active =>
         /\ c[i].leafHash = Hash(c[i].open)
         /\ ~c[i].isEmptyLeaf => c[i].leaf = c[i].leafHash
  /\ \A i \in 4 .. NumRows :
       c[i].active =>
         (c[i].isEmptyLeaf <=> Starts(c, i - 2, "insert") \/ Starts(c, i - 3, "delete"))

CheckNextFreeNode(c) ==
  \A i \in 1 .. NumRows :
    c[i].active =>
      /\ c[i].insertRow3 <=> c[i].op = "insert" /\ c[i].isEmptyLeaf
      /\ ~c[i].first =>
           c[i].nextFreeNode =
             c[i - 1].nextFreeNode + (IF c[i].insertRow3 THEN 1 ELSE 0)

CheckTopRootHash(c) ==
  \A i \in 1 .. NumRows :
    c[i].active => c[i].topRoot = TopRoot(c[i].nextFreeNode, c[i].root)

(* Merkle proofs and leaf hashes are constrained by their own gadgets. *)
CheckZeroInInactive(c) ==
  \A i \in 1 .. NumRows :
    ~c[i].active =>
      c[i] = [ZeroRow EXCEPT !.siblings = c[i].siblings,
                             !.leafHash = c[i].leafHash, !.topRoot = c[i].topRoot]

CheckFlatMerkleProofs(c) ==
  \A i \in 1 .. NumRows :
    c[i].active =>
      RecoverRoot([path |-> c[i].position, siblings |-> c[i].siblings], c[i].leaf)
        = c[i].root

ProofReuse(c) ==
  \A i \in 1 .. NumRows - 1 : c[i].useNext => c[i].siblings = c[i + 1].siblings

Define(c) ==
  /\ CheckChained(c)
  /\ CheckUpdate(c)
  /\ CheckReadZero(c)
  /\ CheckConsistency(c)
  /\ CheckEmptyLeaf(c)
  /\ CheckSandwitch(c)
  /\ CheckPointer(c)
  /\ CheckLeafHashes(c)
  /\ CheckNextFreeNode(c)
  /\ CheckTopRootHash(c)
  /\ CheckZeroInInactive(c)
  /\ CheckFlatMerkleProofs(c)
  /\ ProofReuse(c)

-----------------------------------------------------------------------------
(* The circuit rejects nothing the accumulator did: the rows assigned for  *)
(* any traces it has emitted, with the redundant ones skipped or not,      *)
(* satisfy every constraint, be the table full to its last row or padded,  *)
(* unless there are more rows than MaxNumProofs and Assign exits.          *)
CircuitSatisfied ==
  \A skipped \in {{}, SkipFlags(log)} :
    LET rows == Assign(log, skipped)
    IN  log # <<>> /\ Len(rows) <= MaxNumProofs => Define(Padded(rows))
=============================================================================
