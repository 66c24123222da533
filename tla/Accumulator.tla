---------------------------- MODULE Accumulator -----------------------------
(***************************************************************************)
(* The accumulator of the state manager                                    *)
(* (prover/crypto/state-management/accumulator): a map kept as a sorted,   *)
(* doubly linked list whose cells are the leaves of a Merkle tree.  The    *)
(* prover state carries out an operation and emits a trace of it; the      *)
(* verifier state holds only the root and the next free position and       *)
(* audits traces, which may reach it repeated, reordered or not at all.    *)
(*                                                                         *)
(* Keys and values stand for their hashes: hkeys are ordered numbers, the  *)
(* head has the smallest and the tail the largest one.                     *)
(***************************************************************************)
EXTENDS MerkleTree, FiniteSets

CONSTANTS
  Keys, Values,
  MaxHash,   \* MaxKoalaOctuplet, the hkey of the tail
  Spent,     \* how many positions earlier keys, deleted since, may have used up
  MaxOps     \* bound on the number of operations

ASSUME AccumulatorAssumption ==
  /\ MaxHash \in Nat \ {0} /\ Keys \subseteq 1 .. MaxHash - 1
  /\ Values \subseteq Nat \ {0}
  /\ Spent \subseteq 0 .. Capacity - 2 /\ Spent # {}
  /\ MaxOps \in Nat

VARIABLES
  data,          \* position -> tuple: the leaf opening and the value
  tree,
  nextFreeNode,
  log,           \* the traces emitted so far
  v,             \* the verifier state: root and nextFreeNode
  panicked       \* the process has ended in a panic

vars == <<data, tree, nextFreeNode, log, v, panicked>>

-----------------------------------------------------------------------------
(* Leaf openings and tuples (leafopening.go). *)

Open(prev, next, hkey, hval) ==
  [prev |-> prev, next |-> next, hkey |-> hkey, hval |-> hval]

Hash(open) == <<open.prev, open.next, open.hkey, open.hval>>

HeadOpening == Open(0, 1, 0, 0)
TailOpening == Open(0, 1, MaxHash, 0)

HeadOrTail(open) == open.hkey \in {0, MaxHash}

CopyWithPrev(open, prev) == [open EXCEPT !.prev = prev]
CopyWithNext(open, next) == [open EXCEPT !.next = next]
CopyWithVal(open, val)   == [open EXCEPT !.hval = val]

CheckTuple(key, val, open) ==
  HeadOrTail(open) \/ (open.hkey = key /\ open.hval = val)

-----------------------------------------------------------------------------
(* The prover's store: data and tree, written one leaf at a time.  ok      *)
(* turns false where the code panics.                                      *)

Put(f, i, x) == [j \in DOMAIN f \union {i} |-> IF j = i THEN x ELSE f[j]]
Drop(f, i)   == [j \in DOMAIN f \ {i} |-> f[j]]

Changes(old, new) ==
  {f \in {"hval", "prev", "next"} : old[f] # new[f]}

LegalUpsert_HeadFixed(d, i, tuple) ==
  /\ CheckTuple(tuple.key, tuple.val, tuple.open)
  /\ i \in DOMAIN d =>
       /\ ~HeadOrTail(d[i].open)
       /\ Cardinality(Changes(d[i].open, tuple.open)) = 1

LegalUpsert(d, i, tuple) ==
  /\ CheckTuple(tuple.key, tuple.val, tuple.open)
  /\ i \in DOMAIN d =>
       /\ CheckTuple(d[i].key, d[i].val, d[i].open)
       /\ d[i].open.hkey = tuple.open.hkey
       /\ Cardinality(Changes(d[i].open, tuple.open)) = 1

UpsertTuple(s, i, tuple) ==
  [data |-> Put(s.data, i, tuple),
   tree |-> Update(s.tree, i, Hash(tuple.open)),
   ok   |-> s.ok /\ LegalUpsert(s.data, i, tuple) /\ i < Capacity]

RmTuple_KeepsLeaf(s, i) ==
  [data |-> Drop(s.data, i), tree |-> s.tree, ok |-> s.ok /\ i \in DOMAIN s.data]

RmTuple_KeepsCell(s, i) ==
  [data |-> s.data, tree |-> Update(s.tree, i, EmptyLeaf), ok |-> s.ok]

RmTuple(s, i) ==
  [data |-> Drop(s.data, i),
   tree |-> Update(s.tree, i, EmptyLeaf),
   ok   |-> s.ok /\ i \in DOMAIN s.data]

Store == [data |-> data, tree |-> tree, ok |-> TRUE]

Has(key) == \E i \in DOMAIN data : data[i].open.hkey = key

FindKey(key) == CHOOSE i \in DOMAIN data : data[i].open.hkey = key

(* findSandwich: the cells of the nearest smaller and nearest larger hkey. *)
FindMinus(key) ==
  CHOOSE i \in DOMAIN data :
    /\ data[i].open.hkey < key
    /\ \A j \in DOMAIN data :
         data[j].open.hkey < key => data[j].open.hkey <= data[i].open.hkey

FindPlus(key) ==
  CHOOSE i \in DOMAIN data :
    /\ data[i].open.hkey > key
    /\ \A j \in DOMAIN data :
         data[j].open.hkey > key => data[i].open.hkey <= data[j].open.hkey

-----------------------------------------------------------------------------
(* The operations of the prover.  A panic ends the process. *)

Commit(s, next, trace) ==
  /\ panicked' = ~s.ok
  /\ data' = IF s.ok THEN s.data ELSE data
  /\ tree' = IF s.ok THEN s.tree ELSE tree
  /\ nextFreeNode' = IF s.ok THEN next ELSE nextFreeNode
  /\ log' = IF s.ok THEN Append(log, trace) ELSE log
  /\ UNCHANGED v

InsertAndProve(key, val) ==
  LET iMinus == FindMinus(key)
      iPlus  == FindPlus(key)
      iNew   == nextFreeNode
      minus  == data[iMinus]
      plus   == data[iPlus]
      s1 == UpsertTuple(Store, iMinus, [minus EXCEPT !.open = CopyWithNext(@, iNew)])
      s2 == UpsertTuple(s1, iNew, [key |-> key, val |-> val,
                                   open |-> Open(iMinus, iPlus, key, val)])
      s3 == UpsertTuple(s2, iPlus, [plus EXCEPT !.open = CopyWithPrev(@, iNew)])
  IN  /\ ~Has(key)
      /\ Commit(s3, nextFreeNode + 1,
           [type |-> "insert", key |-> key, val |-> val,
            oldRoot |-> tree.root, newRoot |-> s3.tree.root,
            next |-> nextFreeNode + 1,
            minus |-> minus.open, plus |-> plus.open,
            proofMinus |-> Prove(s1.tree, iMinus),
            proof      |-> Prove(s2.tree, iNew),
            proofPlus  |-> Prove(s3.tree, iPlus)])

(* The neighbours are read off the leaf opening; the position is not       *)
(* used again.                                                             *)
DeleteAndProve(key) ==
  LET i      == FindKey(key)
      tuple  == data[i]
      iMinus == tuple.open.prev
      iPlus  == tuple.open.next
      minus  == data[iMinus]
      plus   == data[iPlus]
      s1 == UpsertTuple(Store, iMinus, [minus EXCEPT !.open = CopyWithNext(@, iPlus)])
      s2 == RmTuple(s1, i)
      s3 == UpsertTuple(s2, iPlus, [plus EXCEPT !.open = CopyWithPrev(@, iMinus)])
  IN  /\ Has(key)
      /\ Commit(s3, nextFreeNode,
           [type |-> "delete", key |-> key, val |-> tuple.val,
            oldRoot |-> tree.root, newRoot |-> s3.tree.root,
            next |-> nextFreeNode,
            minus |-> minus.open, open |-> tuple.open, plus |-> plus.open,
            proofMinus |-> Prove(s1.tree, iMinus),
            proof      |-> Prove(s2.tree, i),
            proofPlus  |-> Prove(s3.tree, iPlus)])

(* The tuple is written without the checks of upsertTuple, so an update    *)
(* may leave the value as it is.                                           *)
UpdateAndProve(key, newVal) ==
  LET i     == FindKey(key)
      tuple == data[i]
      new   == [tuple EXCEPT !.val = newVal, !.open = CopyWithVal(@, newVal)]
      s     == [data |-> Put(data, i, new),
                tree |-> Update(tree, i, Hash(new.open)),
                ok   |-> tuple.key = key]
  IN  /\ Has(key)
      /\ Commit(s, nextFreeNode,
           [type |-> "update", key |-> key, old |-> tuple.val, val |-> newVal,
            oldRoot |-> tree.root, newRoot |-> s.tree.root,
            next |-> nextFreeNode,
            open |-> tuple.open, proof |-> Prove(s.tree, i)])

ReadZeroAndProve(key) ==
  LET iMinus == FindMinus(key)
      iPlus  == FindPlus(key)
  IN  /\ ~Has(key)
      /\ Commit(Store, nextFreeNode,
           [type |-> "readzero", key |-> key,
            oldRoot |-> tree.root, newRoot |-> tree.root,
            next |-> nextFreeNode,
            minus |-> data[iMinus].open, plus |-> data[iPlus].open,
            proofMinus |-> Prove(tree, iMinus),
            proofPlus  |-> Prove(tree, iPlus)])

ReadNonZeroAndProve(key) ==
  LET i == FindKey(key)
  IN  /\ Has(key)
      /\ Commit([Store EXCEPT !.ok = data[i].key = key], nextFreeNode,
           [type |-> "readnonzero", key |-> key, val |-> data[i].val,
            oldRoot |-> tree.root, newRoot |-> tree.root,
            next |-> nextFreeNode,
            open |-> data[i].open, proof |-> Prove(tree, i)])

-----------------------------------------------------------------------------
(* The verifier: each check returns its verdict and the state it leaves.   *)

PointToEachOther(t) ==
  /\ t.minus.next = t.proofPlus.path
  /\ t.plus.prev = t.proofMinus.path

Sandwiched(t) == t.minus.hkey < t.key /\ t.key < t.plus.hkey

(* The state is updated before NewNextFreeNode is compared, so that last   *)
(* check can fail on a state already changed.                              *)
VerifyInsertion(w, t) ==
  LET iInserted == t.proof.path
      root1 == RecoverRoot(t.proofMinus, Hash(CopyWithNext(t.minus, w.next)))
      root2 == RecoverRoot(t.proof, Hash(Open(t.proofMinus.path, t.proofPlus.path,
                                              t.key, t.val)))
      root3 == RecoverRoot(t.proofPlus, Hash(CopyWithPrev(t.plus, iInserted)))
  IN  IF /\ w.root = t.oldRoot
         /\ iInserted = w.next
         /\ PointToEachOther(t)
         /\ Sandwiched(t)
         /\ Verify(t.proofMinus, Hash(t.minus), t.oldRoot)
         /\ Verify(t.proof, EmptyLeaf, root1)
         /\ Verify(t.proofPlus, Hash(t.plus), root2)
         /\ root3 = t.newRoot
        THEN [ok    |-> w.next + 1 = t.next,
              state |-> [root |-> root3, next |-> w.next + 1]]
        ELSE [ok |-> FALSE, state |-> w]

VerifyDeletion(w, t) ==
  LET iMinus   == t.proofMinus.path
      iDeleted == t.proof.path
      iPlus    == t.proofPlus.path
      root1 == RecoverRoot(t.proofMinus, Hash(CopyWithNext(t.minus, iPlus)))
      root2 == RecoverRoot(t.proof, EmptyLeaf)
      root3 == RecoverRoot(t.proofPlus, Hash(CopyWithPrev(t.plus, iMinus)))
  IN  IF /\ w.root = t.oldRoot
         /\ t.val = t.open.hval
         /\ t.minus.next = iDeleted /\ t.open.prev = iMinus
         /\ t.open.next = iPlus /\ t.plus.prev = iDeleted
         /\ t.open.hkey = t.key
         /\ Verify(t.proofMinus, Hash(t.minus), t.oldRoot)
         /\ Verify(t.proof, Hash(t.open), root1)
         /\ Verify(t.proofPlus, Hash(t.plus), root2)
         /\ root3 = t.newRoot
         /\ w.next = t.next
        THEN [ok |-> TRUE, state |-> [w EXCEPT !.root = root3]]
        ELSE [ok |-> FALSE, state |-> w]

UpdateVerify_AnyNext(w, t) ==
  IF /\ w.root = t.oldRoot
     /\ CheckTuple(t.key, t.old, t.open)
     /\ Verify(t.proof, Hash(t.open), t.oldRoot)
     /\ RecoverRoot(t.proof, Hash(CopyWithVal(t.open, t.val))) = t.newRoot
    THEN [ok |-> TRUE, state |-> [w EXCEPT !.root = t.newRoot]]
    ELSE [ok |-> FALSE, state |-> w]

UpdateVerify(w, t) ==
  IF /\ w.root = t.oldRoot
     /\ CheckTuple(t.key, t.old, t.open)
     /\ Verify(t.proof, Hash(t.open), t.oldRoot)
     /\ RecoverRoot(t.proof, Hash(CopyWithVal(t.open, t.val))) = t.newRoot
     /\ w.next = t.next
    THEN [ok |-> TRUE, state |-> [w EXCEPT !.root = t.newRoot]]
    ELSE [ok |-> FALSE, state |-> w]

ReadZeroVerify(w, t) ==
  [ok    |-> /\ w.root = t.oldRoot
             /\ PointToEachOther(t)
             /\ Sandwiched(t)
             /\ Verify(t.proofMinus, Hash(t.minus), t.oldRoot)
             /\ Verify(t.proofPlus, Hash(t.plus), t.oldRoot)
             /\ w.next = t.next,
   state |-> w]

ReadNonZeroVerify(w, t) ==
  [ok    |-> /\ w.root = t.oldRoot
             /\ CheckTuple(t.key, t.val, t.open)
             /\ Verify(t.proof, Hash(t.open), t.oldRoot)
             /\ w.next = t.next,
   state |-> w]

VerifyTrace(w, t) ==
  CASE t.type = "insert"      -> VerifyInsertion(w, t)
    [] t.type = "delete"      -> VerifyDeletion(w, t)
    [] t.type = "update"      -> UpdateVerify(w, t)
    [] t.type = "readzero"    -> ReadZeroVerify(w, t)
    [] t.type = "readnonzero" -> ReadNonZeroVerify(w, t)

Bootstrap_AfterInsertion(t) == [root |-> t.oldRoot, next |-> t.next]

(* bootstrapVerifierState: the state a trace claims to start from. *)
Bootstrap(t) ==
  [root |-> t.oldRoot,
   next |-> IF t.type = "insert" THEN t.next - 1 ELSE t.next]

VerifierState == [root |-> tree.root, next |-> nextFreeNode]

-----------------------------------------------------------------------------
(* InitializeProverState inserts head and tail.  The log starts there, or  *)
(* at a later moment with no key left: each position an earlier insertion  *)
(* took has been emptied by a deletion.                                    *)
InitialTree ==
  Update(Update(NewEmptyTree, 0, Hash(HeadOpening)), 1, Hash(TailOpening))

TreeAfter ==
  LET after[n \in 0 .. Capacity - 2] ==
        IF n = 0 THEN InitialTree ELSE Update(after[n - 1], 1 + n, EmptyLeaf)
  IN  after

Init ==
  /\ data = [i \in {0, 1} |->
               [key |-> 0, val |-> 0, open |-> IF i = 0 THEN HeadOpening ELSE TailOpening]]
  /\ \E n \in Spent : tree = TreeAfter[n] /\ nextFreeNode = 2 + n
  /\ log = <<>>
  /\ v = VerifierState
  /\ panicked = FALSE

Operate ==
  /\ ~panicked /\ Len(log) < MaxOps
  /\ \E key \in Keys :
       \/ \E val \in Values : InsertAndProve(key, val) \/ UpdateAndProve(key, val)
       \/ DeleteAndProve(key)
       \/ ReadZeroAndProve(key)
       \/ ReadNonZeroAndProve(key)

(* A replay starts at some trace; then any trace may come next. *)
StartReplay ==
  /\ \E i \in DOMAIN log : v' = Bootstrap(log[i])
  /\ UNCHANGED <<data, tree, nextFreeNode, log, panicked>>

(* What an audit does with a trace.  That of the world state also notes an  *)
(* error when the hashed keys of two consecutive traces are out of order;   *)
(* this does not touch the verifier, and the order of the keys is left out. *)
CheckTrace ==
  /\ \E i \in DOMAIN log : v' = VerifyTrace(v, log[i]).state
  /\ UNCHANGED <<data, tree, nextFreeNode, log, panicked>>

Next == Operate \/ StartReplay \/ CheckTrace

Spec == Init /\ [][Next]_vars

-----------------------------------------------------------------------------
(* The history the log tells: the map and the verifier state after each    *)
(* number of operations.                                                   *)

Apply(m, t) ==
  CASE t.type \in {"insert", "update"} -> Put(m, t.key, t.val)
    [] t.type = "delete"               -> Drop(m, t.key)
    [] OTHER                           -> m

MapAt ==
  LET at[n \in 0 .. Len(log)] ==
        IF n = 0 THEN [k \in {} |-> k] ELSE Apply(at[n - 1], log[n])
  IN  at

StateAt ==
  [n \in 0 .. Len(log) |->
     IF n < Len(log)
       THEN Bootstrap(log[n + 1])
       ELSE VerifierState]

CurrentMap ==
  [k \in {data[i].open.hkey : i \in DOMAIN data} \ {0, MaxHash} |->
     data[FindKey(k)].val]

-----------------------------------------------------------------------------
(* Properties. *)

TypeOK ==
  /\ {0, 1} \subseteq DOMAIN data /\ DOMAIN data \subseteq 0 .. nextFreeNode - 1
  /\ nextFreeNode \in Nat
  /\ \A i \in DOMAIN data :
       /\ data[i].open.prev \in DOMAIN data /\ data[i].open.next \in DOMAIN data
       /\ data[i].open.hkey \in Keys \union {0, MaxHash}
       /\ data[i].val \in Values \union {0}
  /\ panicked \in BOOLEAN

(* However keys are inserted and deleted, the cells form one list in the   *)
(* order of their hkeys: every cell but the tail is followed by the cell   *)
(* of the next larger hkey, which points back to it (InsertAndProve and    *)
(* DeleteAndProve relink three cells in turn).                             *)
ListSorted ==
  \A i \in DOMAIN data \ {1} :
    LET n == data[i].open.next
    IN  /\ data[n].open.prev = i
        /\ data[i].open.hkey < data[n].open.hkey
        /\ \A j \in DOMAIN data :
             \/ data[j].open.hkey <= data[i].open.hkey
             \/ data[n].open.hkey <= data[j].open.hkey

(* The checks of upsertTuple and of the tree stop no legal operation       *)
(* before the tree is full: a deleted position is not used again, so the   *)
(* number of insertions, not of keys, is what fills it.                    *)
PanicsOnlyWhenFull == panicked => nextFreeNode = Capacity

(* The root kept up to date branch by branch is the root of the tree over  *)
(* the leaves that the openings hash to.                                   *)
RootOfData ==
  tree.root = RootOfLeaves([i \in 0 .. Capacity - 1 |->
                IF i \in DOMAIN data THEN Hash(data[i].open) ELSE EmptyLeaf])

(* Wherever a verifier stands in the history, the trace that comes next is *)
(* accepted and takes it to the next point of the history.                 *)
NextTraceAccepted ==
  \A n \in DOMAIN log :
    v = StateAt[n - 1] => VerifyTrace(v, log[n]) = [ok |-> TRUE, state |-> StateAt[n]]

(* A trace that comes again, early or late is accepted only if what it     *)
(* says is true of the map the verifier's root commits to: the root alone  *)
(* may come back after a deletion, and the trace with it.  A rejected one  *)
(* leaves the verifier where it was, although VerifyInsertion moves before *)
(* its last check: checkProofsWorldState goes on after an error.           *)
AuditSound ==
  \A t \in {log[n] : n \in DOMAIN log} :
    LET r == VerifyTrace(v, t)
    IN  /\ ~r.ok => r.state = v
        /\ \A n \in 0 .. Len(log) :
             LET m == MapAt[n]
             IN  v = StateAt[n] /\ r.ok =>
                   /\ t.type \in {"insert", "readzero"} <=> t.key \notin DOMAIN m
                   /\ t.type \in {"delete", "readnonzero"} => m[t.key] = t.val
                   /\ t.type = "update" => m[t.key] = t.old
                   /\ \E p \in 0 .. Len(log) :
                        r.state = StateAt[p] /\ MapAt[p] = Apply(m, t)

(* The accumulator is a map: the five operations act on the keys and       *)
(* values the list holds as AccumulatorMap says, and answer the same.      *)
Last ==
  IF log = <<>> THEN <<"none">>
  ELSE LET t == log[Len(log)]
       IN  CASE t.type = "readzero" -> <<t.type, t.key>>
             [] t.type = "update"   -> <<t.type, t.key, t.old, t.val>>
             [] OTHER               -> <<t.type, t.key, t.val>>

M == INSTANCE AccumulatorMap WITH map <- CurrentMap, last <- Last

IsAMap == M!MapSpec
=============================================================================
