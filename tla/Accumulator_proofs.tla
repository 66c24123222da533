------------------------- MODULE Accumulator_proofs -------------------------
(***************************************************************************)
(* Proofs about the prover side of the accumulator, for any keys, values   *)
(* and depth of the tree.  The Merkle tree is never looked into: what is   *)
(* proved is about the list of cells, the panics and the map.              *)
(***************************************************************************)
EXTENDS Accumulator, FiniteSetTheorems, WellFoundedInduction, TLAPS

Opening == [prev : Nat, next : Nat, hkey : Nat, hval : Nat]

Cell == [key : Nat, val : Nat, open : Opening]

\* The cells of head and tail, and the contents of the others.
Contents(d, next) ==
  /\ {0, 1} \subseteq DOMAIN d /\ DOMAIN d \subseteq 0 .. next - 1
  /\ d \in [DOMAIN d -> Cell]
  /\ d[0].open.hkey = 0 /\ d[0].open.prev = 0 /\ d[0].val = 0
  /\ d[1].open.hkey = MaxHash /\ d[1].open.next = 1 /\ d[1].val = 0
  /\ \A i \in DOMAIN d \ {0, 1} :
       /\ d[i].open.hkey \in Keys /\ d[i].key = d[i].open.hkey
       /\ d[i].val \in Values /\ d[i].val = d[i].open.hval

Distinct(d) ==
  \A i, j \in DOMAIN d : d[i].open.hkey = d[j].open.hkey => i = j

\* next and prev are inverse to each other; only the tail has no successor
\* and only the head no predecessor.
Linked(d) ==
  /\ \A i \in DOMAIN d \ {1} :
       d[i].open.next \in DOMAIN d \ {0} /\ d[d[i].open.next].open.prev = i
  /\ \A i \in DOMAIN d \ {0} :
       d[i].open.prev \in DOMAIN d \ {1} /\ d[d[i].open.prev].open.next = i

Ordered(d) ==
  \A i \in DOMAIN d \ {1} :
    /\ d[i].open.hkey < d[d[i].open.next].open.hkey
    /\ \A j \in DOMAIN d :
         \/ d[j].open.hkey <= d[i].open.hkey
         \/ d[d[i].open.next].open.hkey <= d[j].open.hkey

WellFormed(d, next) ==
  Contents(d, next) /\ Distinct(d) /\ Linked(d) /\ Ordered(d)

IsSeq(s) == \E S : s \in Seq(S)

\* The inductive invariant.
IInv ==
  /\ nextFreeNode \in Nat /\ nextFreeNode <= Capacity
  /\ WellFormed(data, nextFreeNode)
  /\ IsSeq(log)
  /\ PanicsOnlyWhenFull

-----------------------------------------------------------------------------
(* Nearest cells *)

LEMMA LessThanOnNat == OpToRel(<, Nat) = {ss \in Nat \X Nat : ss[1] < ss[2]}
  BY Zenon DEF OpToRel

LEMMA LeastExists ==
    ASSUME NEW T, T \subseteq Nat, T # {}
    PROVE  \E x \in T : \A y \in T : x <= y
  <1> DEFINE R == {ss \in Nat \X Nat : ss[1] < ss[2]}
  <1>1. IsWellFoundedOn(R, Nat)  BY LessThanOnNat, NatLessThanWellFounded
  <1>2. \E x \in T : \A y \in T : ~ (<<y, x>> \in R)  BY <1>1, WFMin
  <1>3. \A x, y \in Nat : <<y, x>> \in R <=> y < x  OBVIOUS
  <1>4. \E x \in T : \A y \in T : ~ (y < x)
    <2> HIDE DEF R
    <2> QED  BY <1>2, <1>3
  <1> QED  BY <1>4

\* The cell that findSandwich returns as the smaller neighbour exists.
LEMMA MinusFound ==
    ASSUME WellFormed(data, nextFreeNode), NEW key \in Keys, ~Has(key)
    PROVE  /\ FindMinus(key) \in DOMAIN data
           /\ data[FindMinus(key)].open.hkey < key
           /\ \A j \in DOMAIN data :
                data[j].open.hkey < key =>
                  data[j].open.hkey <= data[FindMinus(key)].open.hkey
  <1> DEFINE T == {MaxHash - data[i].open.hkey :
                     i \in {j \in DOMAIN data : data[j].open.hkey < key}}
  <1>1. \A i \in DOMAIN data : data[i].open.hkey \in 0 .. MaxHash
    BY AccumulatorAssumption DEF WellFormed, Contents
  <1>2. T \subseteq Nat
    BY <1>1, AccumulatorAssumption
  <1>3. T # {}
    <2>1. 0 \in DOMAIN data /\ data[0].open.hkey < key
      BY AccumulatorAssumption DEF WellFormed, Contents
    <2> QED  BY <2>1
  <1>4. PICK x \in T : \A y \in T : x <= y  BY <1>2, <1>3, LeastExists
  <1>5. PICK i \in DOMAIN data : data[i].open.hkey < key /\ x = MaxHash - data[i].open.hkey
    BY <1>4
  <1>6. \A j \in DOMAIN data : data[j].open.hkey < key => data[j].open.hkey <= data[i].open.hkey
    <2> SUFFICES ASSUME NEW j \in DOMAIN data, data[j].open.hkey < key
                 PROVE  data[j].open.hkey <= data[i].open.hkey
      OBVIOUS
    <2>1. MaxHash - data[j].open.hkey \in T  OBVIOUS
    <2>2. MaxHash - data[i].open.hkey <= MaxHash - data[j].open.hkey
      BY <2>1, <1>4, <1>5
    <2> QED  BY <2>2, <1>1, AccumulatorAssumption
  <1> QED  BY <1>5, <1>6 DEF FindMinus

LEMMA PlusFound ==
    ASSUME WellFormed(data, nextFreeNode), NEW key \in Keys, ~Has(key)
    PROVE  /\ FindPlus(key) \in DOMAIN data
           /\ data[FindPlus(key)].open.hkey > key
           /\ \A j \in DOMAIN data :
                data[j].open.hkey > key =>
                  data[FindPlus(key)].open.hkey <= data[j].open.hkey
  <1> DEFINE T == {data[i].open.hkey : i \in {j \in DOMAIN data : data[j].open.hkey > key}}
  <1>1. \A i \in DOMAIN data : data[i].open.hkey \in Nat
    BY AccumulatorAssumption DEF WellFormed, Contents
  <1>2. T \subseteq Nat
    BY <1>1
  <1>3. T # {}
    <2>1. 1 \in DOMAIN data /\ data[1].open.hkey > key
      BY AccumulatorAssumption DEF WellFormed, Contents
    <2> QED  BY <2>1
  <1>4. PICK x \in T : \A y \in T : x <= y  BY <1>2, <1>3, LeastExists
  <1>5. PICK i \in DOMAIN data : data[i].open.hkey > key /\ x = data[i].open.hkey
    BY <1>4
  <1>6. \A j \in DOMAIN data : data[j].open.hkey > key => data[i].open.hkey <= data[j].open.hkey
    BY <1>4, <1>5
  <1> QED  BY <1>5, <1>6 DEF FindPlus

\* The two neighbours of an absent key point to each other.
LEMMA Neighbours ==
    ASSUME WellFormed(data, nextFreeNode), NEW key \in Keys, ~Has(key)
    PROVE  /\ FindMinus(key) \in DOMAIN data \ {1} /\ FindPlus(key) \in DOMAIN data \ {0}
           /\ FindMinus(key) # FindPlus(key)
           /\ data[FindMinus(key)].open.hkey < key /\ key < data[FindPlus(key)].open.hkey
           /\ data[FindMinus(key)].open.next = FindPlus(key)
           /\ data[FindPlus(key)].open.prev = FindMinus(key)
  <1> DEFINE a == FindMinus(key)
             b == FindPlus(key)
             n == data[a].open.next
  <1>1. \A i \in DOMAIN data : data[i].open.hkey \in Nat /\ data[i].open.hkey <= MaxHash
    BY AccumulatorAssumption DEF WellFormed, Contents
  <1>2. a \in DOMAIN data /\ data[a].open.hkey < key
         /\ \A j \in DOMAIN data : data[j].open.hkey < key => data[j].open.hkey <= data[a].open.hkey
    BY MinusFound
  <1>3. b \in DOMAIN data /\ data[b].open.hkey > key
         /\ \A j \in DOMAIN data : data[j].open.hkey > key => data[b].open.hkey <= data[j].open.hkey
    BY PlusFound
  <1> HIDE DEF a, b
  <1>4. a # 1 /\ b # 0 /\ a # b
    BY <1>2, <1>3, AccumulatorAssumption DEF WellFormed, Contents
  <1>5. n \in DOMAIN data /\ data[n].open.prev = a /\ data[a].open.hkey < data[n].open.hkey
    BY <1>2, <1>4 DEF WellFormed, Linked, Ordered
  <1>6. data[n].open.hkey > key
    BY <1>1, <1>2, <1>5, AccumulatorAssumption DEF Has
  <1>7. data[n].open.hkey = data[b].open.hkey
    <2>1. data[b].open.hkey <= data[n].open.hkey  BY <1>3, <1>5, <1>6
    <2>2. data[n].open.hkey <= data[b].open.hkey
      <3>1. \/ data[b].open.hkey <= data[a].open.hkey
            \/ data[n].open.hkey <= data[b].open.hkey
        BY <1>2, <1>3, <1>4 DEF WellFormed, Ordered
      <3> QED  BY <3>1, <1>1, <1>2, <1>3, AccumulatorAssumption
    <2> QED  BY <2>1, <2>2, <1>1, <1>3, <1>5
  <1>8. n = b  BY <1>7, <1>3, <1>5 DEF WellFormed, Distinct
  <1> QED  BY <1>2, <1>3, <1>4, <1>5, <1>8 DEF a, b

-----------------------------------------------------------------------------
(* What the writes of an operation make of a well formed list.  A few      *)
(* facts about d, the list before, and e, the list after.                  *)

LEMMA CellTypes ==
    ASSUME NEW d, NEW next \in Nat, WellFormed(d, next)
    PROVE  /\ \A i \in DOMAIN d : d[i] \in Cell /\ d[i].open \in Opening
           /\ \A i \in DOMAIN d : i \in Nat /\ i < next
           /\ \A i \in DOMAIN d : d[i].open.hkey \in 0 .. MaxHash
           /\ \A i \in DOMAIN d \ {0, 1} : d[i].open.hkey \in 1 .. MaxHash - 1
  BY AccumulatorAssumption DEF WellFormed, Contents, Cell

LEMMA InsertForm ==
    ASSUME NEW d, NEW next \in Nat, WellFormed(d, next),
           NEW key \in Keys, NEW val \in Values,
           \A i \in DOMAIN d : d[i].open.hkey # key,
           NEW a \in DOMAIN d \ {1}, NEW b \in DOMAIN d \ {0}, a # b,
           d[a].open.next = b, d[b].open.prev = a,
           d[a].open.hkey < key, key < d[b].open.hkey,
           NEW e, e = [j \in DOMAIN e |-> e[j]],
           DOMAIN e = DOMAIN d \union {next},
           e[a] = [d[a] EXCEPT !.open = CopyWithNext(@, next)],
           e[next] = [key |-> key, val |-> val, open |-> Open(a, b, key, val)],
           e[b] = [d[b] EXCEPT !.open = CopyWithPrev(@, next)],
           \A j \in DOMAIN d \ {a, b} : e[j] = d[j]
    PROVE  WellFormed(e, next + 1)
  <1>1. /\ \A i \in DOMAIN d : d[i] \in Cell /\ d[i].open \in Opening
        /\ \A i \in DOMAIN d : i \in Nat /\ i < next
        /\ \A i \in DOMAIN d : d[i].open.hkey \in 0 .. MaxHash
    BY CellTypes
  <1>2. key \in Nat /\ key \in 1 .. MaxHash - 1 /\ val \in Nat
    BY AccumulatorAssumption
  <1>3. next \notin DOMAIN d  BY <1>1
  <1>4. /\ e[a].key = d[a].key /\ e[a].val = d[a].val
        /\ e[a].open = [d[a].open EXCEPT !.next = next]
        /\ e[b].key = d[b].key /\ e[b].val = d[b].val
        /\ e[b].open = [d[b].open EXCEPT !.prev = next]
        /\ e[a] \in Cell /\ e[b] \in Cell
    BY <1>1 DEF Cell, Opening, CopyWithNext, CopyWithPrev
  <1>5. /\ e[next].key = key /\ e[next].val = val
        /\ e[next].open.prev = a /\ e[next].open.next = b
        /\ e[next].open.hkey = key /\ e[next].open.hval = val
        /\ e[next] \in Cell
    BY <1>1, <1>2 DEF Cell, Opening, Open
  <1>6. /\ \A j \in DOMAIN d : e[j].key = d[j].key /\ e[j].val = d[j].val
        /\ \A j \in DOMAIN d : e[j].open.hkey = d[j].open.hkey
        /\ \A j \in DOMAIN d : e[j].open.hval = d[j].open.hval
        /\ \A j \in DOMAIN d \ {a} : e[j].open.next = d[j].open.next
        /\ e[a].open.next = next
        /\ \A j \in DOMAIN d \ {b} : e[j].open.prev = d[j].open.prev
        /\ e[b].open.prev = next
        /\ \A j \in DOMAIN d : e[j] \in Cell
    <2>1. /\ e[a].open.hkey = d[a].open.hkey /\ e[a].open.hval = d[a].open.hval
          /\ e[a].open.next = next /\ e[a].open.prev = d[a].open.prev
      BY <1>1, <1>4 DEF Opening
    <2>2. /\ e[b].open.hkey = d[b].open.hkey /\ e[b].open.hval = d[b].open.hval
          /\ e[b].open.prev = next /\ e[b].open.next = d[b].open.next
      BY <1>1, <1>4 DEF Opening
    <2> QED  BY <1>1, <1>4, <2>1, <2>2, ZenonT(40)
  <1>7. Contents(e, next + 1)
    <2>1. 0 \in DOMAIN d /\ 1 \in DOMAIN d  BY DEF WellFormed, Contents
    <2>2. {0, 1} \subseteq DOMAIN e /\ DOMAIN e \subseteq 0 .. (next + 1) - 1
      BY <1>1, <2>1
    <2>3. e \in [DOMAIN e -> Cell]  BY <1>5, <1>6
    <2>4. /\ e[0].open.hkey = 0 /\ e[0].open.prev = 0 /\ e[0].val = 0
          /\ e[1].open.hkey = MaxHash /\ e[1].open.next = 1 /\ e[1].val = 0
      BY <1>6, <2>1 DEF WellFormed, Contents
    <2>5. \A i \in DOMAIN e \ {0, 1} :
            /\ e[i].open.hkey \in Keys /\ e[i].key = e[i].open.hkey
            /\ e[i].val \in Values /\ e[i].val = e[i].open.hval
      BY <1>5, <1>6 DEF WellFormed, Contents
    <2> QED  BY <2>2, <2>3, <2>4, <2>5 DEF Contents
  <1>8. Distinct(e)
    BY <1>5, <1>6 DEF WellFormed, Distinct
  <1>9. Linked(e)
    <2>1. \A i \in DOMAIN d \ {1} :
            d[i].open.next \in DOMAIN d \ {0} /\ d[d[i].open.next].open.prev = i
      BY DEF WellFormed, Linked
    <2>2. \A i \in DOMAIN d \ {0} :
            d[i].open.prev \in DOMAIN d \ {1} /\ d[d[i].open.prev].open.next = i
      BY DEF WellFormed, Linked
    <2>3. next # 0 /\ next # 1  BY <1>3 DEF WellFormed, Contents
    <2>4. \A i \in DOMAIN e \ {1} :
            e[i].open.next \in DOMAIN e \ {0} /\ e[e[i].open.next].open.prev = i
      <3> SUFFICES ASSUME NEW i \in DOMAIN e \ {1}
                   PROVE  e[i].open.next \in DOMAIN e \ {0} /\ e[e[i].open.next].open.prev = i
        OBVIOUS
      <3>1. CASE i = next  BY <3>1, <1>5, <1>6
      <3>2. CASE i = a  BY <3>2, <1>5, <1>6, <2>3
      <3>3. CASE i \in DOMAIN d \ {a, 1}
        <4>1. d[i].open.next \in DOMAIN d \ {0, b}  BY <2>1, <3>3
        <4>2. e[i].open.next = d[i].open.next  BY <1>6, <3>3
        <4> QED  BY <1>6, <2>1, <3>3, <4>1, <4>2
      <3> QED  BY <3>1, <3>2, <3>3
    <2>5. \A i \in DOMAIN e \ {0} :
            e[i].open.prev \in DOMAIN e \ {1} /\ e[e[i].open.prev].open.next = i
      <3> SUFFICES ASSUME NEW i \in DOMAIN e \ {0}
                   PROVE  e[i].open.prev \in DOMAIN e \ {1} /\ e[e[i].open.prev].open.next = i
        OBVIOUS
      <3>1. CASE i = next  BY <3>1, <1>5, <1>6
      <3>2. CASE i = b  BY <3>2, <1>5, <1>6, <2>3
      <3>3. CASE i \in DOMAIN d \ {b, 0}
        <4>1. d[i].open.prev \in DOMAIN d \ {1, a}  BY <2>2, <3>3
        <4>2. e[i].open.prev = d[i].open.prev  BY <1>6, <3>3
        <4> QED  BY <1>6, <2>2, <3>3, <4>1, <4>2
      <3> QED  BY <3>1, <3>2, <3>3
    <2> QED  BY <2>4, <2>5 DEF Linked
  <1>10. Ordered(e)
    <2> SUFFICES ASSUME NEW i \in DOMAIN e \ {1}
                 PROVE  /\ e[i].open.hkey < e[e[i].open.next].open.hkey
                        /\ \A j \in DOMAIN e :
                             \/ e[j].open.hkey <= e[i].open.hkey
                             \/ e[e[i].open.next].open.hkey <= e[j].open.hkey
      BY DEF Ordered
    <2>1. \A j \in DOMAIN d : \/ d[j].open.hkey <= d[a].open.hkey
                              \/ d[b].open.hkey <= d[j].open.hkey
      BY DEF WellFormed, Ordered
    <2>2. CASE i = next
      BY <1>1, <1>2, <1>5, <1>6, <2>1, <2>2
    <2>3. CASE i = a
      <3>1. e[i].open.hkey = d[a].open.hkey /\ e[i].open.next = next
        BY <1>6, <2>3
      <3>2. \A j \in DOMAIN e : e[j].open.hkey <= d[a].open.hkey \/ key <= e[j].open.hkey
        BY <1>1, <1>2, <1>5, <1>6, <2>1
      <3> QED  BY <1>5, <3>1, <3>2
    <2>4. CASE i \notin {a, next}
      <3>1. i \in DOMAIN d \ {1} /\ d[i].open.next \in DOMAIN d
        BY <2>4 DEF WellFormed, Linked
      <3>2. e[i].open.next = d[i].open.next  BY <1>6, <2>4, <3>1
      <3>3. /\ d[i].open.hkey < d[d[i].open.next].open.hkey
            /\ \A j \in DOMAIN d : \/ d[j].open.hkey <= d[i].open.hkey
                                   \/ d[d[i].open.next].open.hkey <= d[j].open.hkey
        BY <3>1 DEF WellFormed, Ordered
      <3>4. \/ key <= d[i].open.hkey
            \/ d[d[i].open.next].open.hkey <= key
        <4>1. i # a /\ d[i].open.hkey # d[a].open.hkey
          BY <2>4, <3>1 DEF WellFormed, Distinct
        <4>2. CASE d[i].open.hkey <= d[a].open.hkey
          BY <4>1, <4>2, <3>1, <3>3, <1>1, <1>2
        <4>3. CASE d[b].open.hkey <= d[i].open.hkey
          BY <4>3, <3>1, <1>1, <1>2
        <4> QED  BY <4>2, <4>3, <3>1, <2>1
      <3> QED  BY <1>5, <1>6, <3>1, <3>2, <3>3, <3>4
    <2> QED  BY <2>2, <2>3, <2>4
  <1> QED  BY <1>7, <1>8, <1>9, <1>10 DEF WellFormed

\* The neighbours of a cell between head and tail.
LEMMA CellBetween ==
    ASSUME NEW d, NEW next \in Nat, WellFormed(d, next),
           NEW i \in DOMAIN d \ {0, 1},
           NEW a, a = d[i].open.prev, NEW b, b = d[i].open.next
    PROVE  /\ a \in DOMAIN d \ {1} /\ b \in DOMAIN d \ {0}
           /\ a # i /\ b # i /\ a # b
           /\ d[a].open.next = i /\ d[b].open.prev = i
           /\ d[a].open.hkey < d[b].open.hkey
           /\ \A j \in DOMAIN d \ {i} : \/ d[j].open.hkey <= d[a].open.hkey
                                        \/ d[b].open.hkey <= d[j].open.hkey
  <1>1. \A j \in DOMAIN d : d[j].open.hkey \in Nat
    BY CellTypes
  <1>2. a \in DOMAIN d \ {1} /\ b \in DOMAIN d \ {0}
         /\ d[a].open.next = i /\ d[b].open.prev = i
    BY DEF WellFormed, Linked
  <1>3. d[a].open.hkey < d[i].open.hkey /\ d[i].open.hkey < d[b].open.hkey
    BY <1>2 DEF WellFormed, Ordered
  <1>4. ASSUME NEW j \in DOMAIN d \ {i}
        PROVE  d[j].open.hkey <= d[a].open.hkey \/ d[b].open.hkey <= d[j].open.hkey
    <2>1. d[j].open.hkey <= d[a].open.hkey \/ d[i].open.hkey <= d[j].open.hkey
      BY <1>2 DEF WellFormed, Ordered
    <2>2. d[j].open.hkey <= d[i].open.hkey \/ d[b].open.hkey <= d[j].open.hkey
      BY DEF WellFormed, Ordered
    <2>3. d[j].open.hkey # d[i].open.hkey
      BY DEF WellFormed, Distinct
    <2> QED  BY <1>1, <1>2, <2>1, <2>2, <2>3
  <1>5. /\ d[a].open.hkey \in Nat /\ d[i].open.hkey \in Nat
        /\ d[b].open.hkey \in Nat
    BY <1>1, <1>2
  <1>6. d[a].open.hkey < d[b].open.hkey  BY <1>3, <1>5
  <1>7. a # i /\ b # i /\ a # b  BY <1>3, <1>5, <1>6
  <1> QED  BY <1>2, <1>4, <1>6, <1>7

\* CopyWithNext and CopyWithPrev change one link of a cell.
WithNext(c, n) == [c EXCEPT !.open = CopyWithNext(@, n)]
WithPrev(c, n) == [c EXCEPT !.open = CopyWithPrev(@, n)]

OnlyTheLink(f, c) ==
  /\ f \in Cell /\ f.key = c.key /\ f.val = c.val
  /\ f.open.hkey = c.open.hkey /\ f.open.hval = c.open.hval

LEMMA CellWithNext ==
    ASSUME NEW c \in Cell, NEW n \in Nat
    PROVE  OnlyTheLink(WithNext(c, n), c) /\ WithNext(c, n).open.next = n
           /\ WithNext(c, n).open.prev = c.open.prev
  <1> DEFINE f == WithNext(c, n)
  <1>1. c.open \in Opening  BY DEF Cell
  <1> DEFINE o == [c.open EXCEPT !.next = n]
  <1>2. /\ o \in Opening /\ o.hkey = c.open.hkey /\ o.hval = c.open.hval
        /\ o.next = n /\ o.prev = c.open.prev
    BY <1>1 DEF Opening
  <1>3. f = [c EXCEPT !.open = o]  BY DEF WithNext, CopyWithNext
  <1> HIDE DEF o, f
  <1>4. f \in Cell /\ f.key = c.key /\ f.val = c.val /\ f.open = o
    BY <1>2, <1>3 DEF Cell
  <1>5. f.open.hkey = c.open.hkey /\ f.open.hval = c.open.hval
        /\ f.open.next = n /\ f.open.prev = c.open.prev
    BY <1>2, <1>4
  <1> QED  BY <1>4, <1>5 DEF f, OnlyTheLink

LEMMA CellWithPrev ==
    ASSUME NEW c \in Cell, NEW n \in Nat
    PROVE  OnlyTheLink(WithPrev(c, n), c) /\ WithPrev(c, n).open.prev = n
           /\ WithPrev(c, n).open.next = c.open.next
  <1> DEFINE f == WithPrev(c, n)
  <1>1. c.open \in Opening  BY DEF Cell
  <1> DEFINE o == [c.open EXCEPT !.prev = n]
  <1>2. /\ o \in Opening /\ o.hkey = c.open.hkey /\ o.hval = c.open.hval
        /\ o.prev = n /\ o.next = c.open.next
    BY <1>1 DEF Opening
  <1>3. f = [c EXCEPT !.open = o]  BY DEF WithPrev, CopyWithPrev
  <1> HIDE DEF o, f
  <1>4. f \in Cell /\ f.key = c.key /\ f.val = c.val /\ f.open = o
    BY <1>2, <1>3 DEF Cell
  <1>5. f.open.hkey = c.open.hkey /\ f.open.hval = c.open.hval
        /\ f.open.prev = n /\ f.open.next = c.open.next
    BY <1>2, <1>4
  <1> QED  BY <1>4, <1>5 DEF f, OnlyTheLink

IsFunction(e) == e = [j \in DOMAIN e |-> e[j]]

\* e is d without the cell i, whose neighbours a and b are linked.
Unlinks(d, i, a, b, e) ==
  /\ IsFunction(e) /\ DOMAIN e = DOMAIN d \ {i}
  /\ \A j \in DOMAIN e : e[j].key = d[j].key /\ e[j].val = d[j].val
  /\ \A j \in DOMAIN e : e[j].open.hkey = d[j].open.hkey
  /\ \A j \in DOMAIN e : e[j].open.hval = d[j].open.hval
  /\ \A j \in DOMAIN e \ {a} : e[j].open.next = d[j].open.next
  /\ e[a].open.next = b
  /\ \A j \in DOMAIN e \ {b} : e[j].open.prev = d[j].open.prev
  /\ e[b].open.prev = a
  /\ \A j \in DOMAIN e : e[j] \in Cell

LEMMA Unlinked ==
    ASSUME NEW d, NEW next \in Nat, WellFormed(d, next),
           NEW i \in DOMAIN d \ {0, 1},
           NEW a, a = d[i].open.prev, NEW b, b = d[i].open.next,
           NEW e, Unlinks(d, i, a, b, e)
    PROVE  WellFormed(e, next)
  <1> USE DEF Unlinks
  <1>1. /\ \A j \in DOMAIN d : j \in Nat /\ j < next
        /\ \A j \in DOMAIN d : d[j].open.hkey \in 0 .. MaxHash
    BY CellTypes
  <1>2. /\ a \in DOMAIN d \ {1} /\ b \in DOMAIN d \ {0}
        /\ a # i /\ b # i /\ a # b
        /\ d[a].open.next = i /\ d[b].open.prev = i
        /\ d[a].open.hkey < d[b].open.hkey
        /\ \A j \in DOMAIN d \ {i} : \/ d[j].open.hkey <= d[a].open.hkey
                                     \/ d[b].open.hkey <= d[j].open.hkey
    BY CellBetween, ZenonT(20)
  <1>5. Contents(e, next)
    <2>1. 0 \in DOMAIN e /\ 1 \in DOMAIN e  BY DEF WellFormed, Contents
    <2>2. {0, 1} \subseteq DOMAIN e /\ DOMAIN e \subseteq 0 .. next - 1
      BY <1>1, <2>1
    <2>3. e \in [DOMAIN e -> Cell]  BY DEF IsFunction
    <2>4. /\ e[0].open.hkey = 0 /\ e[0].open.prev = 0 /\ e[0].val = 0
          /\ e[1].open.hkey = MaxHash /\ e[1].open.next = 1 /\ e[1].val = 0
      BY <1>2, <2>1 DEF WellFormed, Contents
    <2>5. \A j \in DOMAIN e \ {0, 1} :
            /\ e[j].open.hkey \in Keys /\ e[j].key = e[j].open.hkey
            /\ e[j].val \in Values /\ e[j].val = e[j].open.hval
      BY DEF WellFormed, Contents
    <2> QED  BY <2>2, <2>3, <2>4, <2>5 DEF Contents
  <1>6. Distinct(e)
    BY DEF WellFormed, Distinct
  <1>7. Linked(e)
    <2>1. \A j \in DOMAIN d \ {1} :
            d[j].open.next \in DOMAIN d \ {0} /\ d[d[j].open.next].open.prev = j
      BY DEF WellFormed, Linked
    <2>2. \A j \in DOMAIN d \ {0} :
            d[j].open.prev \in DOMAIN d \ {1} /\ d[d[j].open.prev].open.next = j
      BY DEF WellFormed, Linked
    <2>3. ASSUME NEW j \in DOMAIN e \ {1}
          PROVE  e[j].open.next \in DOMAIN e \ {0} /\ e[e[j].open.next].open.prev = j
      <3>1. CASE j = a  BY <3>1, <1>2
      <3>2. CASE j # a
        <4>0. /\ j \in DOMAIN d \ {1} /\ d[j].open.next \in DOMAIN d \ {0}
              /\ d[d[j].open.next].open.prev = j
          BY <2>1
        <4>1. d[j].open.next \in DOMAIN d \ {0, i, b}
          BY <4>0, <1>2, <3>2
        <4>2. e[j].open.next = d[j].open.next  BY <3>2
        <4> QED  BY <4>0, <4>1, <4>2
      <3> QED  BY <3>1, <3>2
    <2>4. ASSUME NEW j \in DOMAIN e \ {0}
          PROVE  e[j].open.prev \in DOMAIN e \ {1} /\ e[e[j].open.prev].open.next = j
      <3>1. CASE j = b  BY <3>1, <1>2
      <3>2. CASE j # b
        <4>0. /\ j \in DOMAIN d \ {0} /\ d[j].open.prev \in DOMAIN d \ {1}
              /\ d[d[j].open.prev].open.next = j
          BY <2>2
        <4>1. d[j].open.prev \in DOMAIN d \ {1, i, a}
          BY <4>0, <1>2, <3>2
        <4>2. e[j].open.prev = d[j].open.prev  BY <3>2
        <4> QED  BY <4>0, <4>1, <4>2
      <3> QED  BY <3>1, <3>2
    <2> QED  BY <2>3, <2>4 DEF Linked
  <1>8. Ordered(e)
    <2> SUFFICES ASSUME NEW k \in DOMAIN e \ {1}
                 PROVE  /\ e[k].open.hkey < e[e[k].open.next].open.hkey
                        /\ \A j \in DOMAIN e :
                             \/ e[j].open.hkey <= e[k].open.hkey
                             \/ e[e[k].open.next].open.hkey <= e[j].open.hkey
      BY DEF Ordered
    <2>1. CASE k = a
      <3>1. e[k].open.hkey = d[a].open.hkey /\ e[k].open.next = b
            /\ e[b].open.hkey = d[b].open.hkey
        BY <2>1, <1>2
      <3>2. d[a].open.hkey < d[b].open.hkey  BY <1>2
      <3>3. \A j \in DOMAIN e : \/ e[j].open.hkey <= d[a].open.hkey
                                 \/ d[b].open.hkey <= e[j].open.hkey
        BY <1>2
      <3> QED  BY <3>1, <3>2, <3>3
    <2>2. CASE k # a
      <3>1. k \in DOMAIN d \ {1} /\ d[k].open.next \in DOMAIN d \ {i}
        <4>1. k \in DOMAIN d \ {1}  OBVIOUS
        <4>2. d[k].open.next \in DOMAIN d /\ d[d[k].open.next].open.prev = k
          BY <4>1 DEF WellFormed, Linked
        <4>3. d[k].open.next # i  BY <2>2, <4>2
        <4> QED  BY <4>1, <4>2, <4>3
      <3>2. e[k].open.next = d[k].open.next  BY <2>2
      <3>3. /\ d[k].open.hkey < d[d[k].open.next].open.hkey
            /\ \A j \in DOMAIN d : \/ d[j].open.hkey <= d[k].open.hkey
                                   \/ d[d[k].open.next].open.hkey <= d[j].open.hkey
        BY <3>1 DEF WellFormed, Ordered
      <3>4. e[d[k].open.next].open.hkey = d[d[k].open.next].open.hkey
        BY <3>1
      <3>5. e[k].open.hkey = d[k].open.hkey  OBVIOUS
      <3>6. \A j \in DOMAIN e : j \in DOMAIN d /\ e[j].open.hkey = d[j].open.hkey
        OBVIOUS
      <3> QED  BY <3>2, <3>3, <3>4, <3>5, <3>6
    <2> QED  BY <2>1, <2>2
  <1> QED  BY <1>5, <1>6, <1>7, <1>8 DEF WellFormed

LEMMA DeleteForm ==
    ASSUME NEW d, NEW next \in Nat, WellFormed(d, next),
           NEW i \in DOMAIN d \ {0, 1},
           NEW a, a = d[i].open.prev, NEW b, b = d[i].open.next,
           NEW e, IsFunction(e),
           DOMAIN e = DOMAIN d \ {i},
           e[a] = WithNext(d[a], b),
           e[b] = WithPrev(d[b], a),
           \A j \in DOMAIN d \ {a, i, b} : e[j] = d[j]
    PROVE  WellFormed(e, next)
  <1>1. \A j \in DOMAIN d : d[j] \in Cell /\ j \in Nat
    BY CellTypes
  <1>2. /\ a \in DOMAIN d \ {1} /\ b \in DOMAIN d \ {0}
        /\ a # i /\ b # i /\ a # b
    BY CellBetween
  <1>3. /\ e[a] \in Cell /\ e[a].key = d[a].key /\ e[a].val = d[a].val
        /\ e[a].open.hkey = d[a].open.hkey /\ e[a].open.hval = d[a].open.hval
        /\ e[a].open.next = b /\ e[a].open.prev = d[a].open.prev
    <2>1. d[a] \in Cell /\ b \in Nat  BY <1>1, <1>2
    <2>2. OnlyTheLink(e[a], d[a])  BY <2>1, CellWithNext
    <2>3. e[a].open.next = b /\ e[a].open.prev = d[a].open.prev  BY <2>1, CellWithNext
    <2> QED  BY <2>2, <2>3 DEF OnlyTheLink
  <1>4. /\ e[b] \in Cell /\ e[b].key = d[b].key /\ e[b].val = d[b].val
        /\ e[b].open.hkey = d[b].open.hkey /\ e[b].open.hval = d[b].open.hval
        /\ e[b].open.prev = a /\ e[b].open.next = d[b].open.next
    <2>1. d[b] \in Cell /\ a \in Nat  BY <1>1, <1>2
    <2>2. OnlyTheLink(e[b], d[b])  BY <2>1, CellWithPrev
    <2>3. e[b].open.prev = a /\ e[b].open.next = d[b].open.next  BY <2>1, CellWithPrev
    <2> QED  BY <2>2, <2>3 DEF OnlyTheLink
  <1>5. Unlinks(d, i, a, b, e)  BY <1>1, <1>3, <1>4 DEF Unlinks
  <1> QED  BY <1>5, Unlinked

LEMMA UpdateForm ==
    ASSUME NEW d, NEW next \in Nat, WellFormed(d, next),
           NEW i \in DOMAIN d \ {0, 1}, NEW val \in Values,
           NEW e, e = [j \in DOMAIN e |-> e[j]],
           DOMAIN e = DOMAIN d,
           e[i] = [d[i] EXCEPT !.val = val, !.open = CopyWithVal(@, val)],
           \A j \in DOMAIN d \ {i} : e[j] = d[j]
    PROVE  WellFormed(e, next)
  <1>1. \A j \in DOMAIN d : d[j] \in Cell /\ d[j].open \in Opening
    BY CellTypes
  <1>2. val \in Nat  BY AccumulatorAssumption
  <1>3. /\ e[i].key = d[i].key /\ e[i].val = val
        /\ e[i].open = [d[i].open EXCEPT !.hval = val]
        /\ e[i] \in Cell
    <2> DEFINE o == [d[i].open EXCEPT !.hval = val]
    <2>1. o \in Opening  BY <1>1, <1>2 DEF Opening
    <2>2. e[i] = [d[i] EXCEPT !.val = val, !.open = o]  BY DEF CopyWithVal
    <2> HIDE DEF o
    <2>3. e[i].key = d[i].key /\ e[i].val = val /\ e[i].open = o /\ e[i] \in Cell
      BY <1>1, <1>2, <2>1, <2>2 DEF Cell
    <2> QED  BY <2>3 DEF o
  <1>4. /\ e[i].open.hkey = d[i].open.hkey /\ e[i].open.hval = val
        /\ e[i].open.next = d[i].open.next /\ e[i].open.prev = d[i].open.prev
    BY <1>1, <1>3 DEF Opening
  <1>5. /\ \A j \in DOMAIN d : e[j].key = d[j].key /\ e[j].open.hkey = d[j].open.hkey
        /\ \A j \in DOMAIN d : e[j].open.next = d[j].open.next
        /\ \A j \in DOMAIN d : e[j].open.prev = d[j].open.prev
        /\ \A j \in DOMAIN d : e[j] \in Cell
    BY <1>1, <1>3, <1>4
  <1>6. Contents(e, next)
    <2>1. 0 \in DOMAIN d /\ 1 \in DOMAIN d  BY DEF WellFormed, Contents
    <2>2. {0, 1} \subseteq DOMAIN e /\ DOMAIN e \subseteq 0 .. next - 1
      BY DEF WellFormed, Contents
    <2>3. e \in [DOMAIN e -> Cell]  BY <1>5
    <2>4. /\ e[0].open.hkey = 0 /\ e[0].open.prev = 0 /\ e[0].val = 0
          /\ e[1].open.hkey = MaxHash /\ e[1].open.next = 1 /\ e[1].val = 0
      BY <2>1 DEF WellFormed, Contents
    <2>5. \A j \in DOMAIN e \ {0, 1} :
            /\ e[j].open.hkey \in Keys /\ e[j].key = e[j].open.hkey
            /\ e[j].val \in Values /\ e[j].val = e[j].open.hval
      <3>1. \A j \in DOMAIN d \ {0, 1} :
              /\ d[j].open.hkey \in Keys /\ d[j].key = d[j].open.hkey
              /\ d[j].val \in Values /\ d[j].val = d[j].open.hval
        BY DEF WellFormed, Contents
      <3> QED  BY <1>3, <1>4, <1>5, <3>1, ZenonT(40)
    <2> QED  BY <2>2, <2>3, <2>4, <2>5 DEF Contents
  <1>7. Distinct(e)  BY <1>5 DEF WellFormed, Distinct
  <1>8. Linked(e)  BY <1>5 DEF WellFormed, Linked
  <1>9. Ordered(e)
    <2>1. \A j \in DOMAIN d \ {1} : d[j].open.next \in DOMAIN d
      BY DEF WellFormed, Linked
    <2> QED  BY <1>5, <2>1 DEF WellFormed, Ordered
  <1> QED  BY <1>6, <1>7, <1>8, <1>9 DEF WellFormed

-----------------------------------------------------------------------------
(* The checks of upsertTuple pass: a cell carries its own key and value,   *)
(* and a relinked cell differs in the one pointer.                         *)

LEMMA TupleChecks ==
    ASSUME NEW d, NEW next \in Nat, WellFormed(d, next), NEW i \in DOMAIN d
    PROVE  CheckTuple(d[i].key, d[i].val, d[i].open)
  BY DEF WellFormed, Contents, CheckTuple, HeadOrTail

LEMMA RelinkNext ==
    ASSUME NEW c \in Cell, CheckTuple(c.key, c.val, c.open),
           NEW n \in Nat, c.open.next # n,
           NEW d, NEW i, i \in DOMAIN d => d[i] = c
    PROVE  LegalUpsert(d, i, [c EXCEPT !.open = CopyWithNext(@, n)])
  <1> DEFINE t == [c EXCEPT !.open = CopyWithNext(@, n)]
  <1>1. t.key = c.key /\ t.val = c.val /\ t.open = [c.open EXCEPT !.next = n]
    BY DEF Cell, CopyWithNext
  <1>2. t.open.hkey = c.open.hkey /\ t.open.hval = c.open.hval
         /\ t.open.prev = c.open.prev /\ t.open.next = n
    BY <1>1 DEF Cell, Opening
  <1>3. CheckTuple(t.key, t.val, t.open)
    BY <1>1, <1>2 DEF CheckTuple, HeadOrTail
  <1> HIDE DEF t
  <1>4. Changes(c.open, t.open) = {"next"}
    BY <1>2 DEF Changes
  <1>5. Cardinality({"next"}) = 1  BY FS_Singleton
  <1>6. LegalUpsert(d, i, t)
    BY <1>2, <1>3, <1>4, <1>5 DEF LegalUpsert
  <1> QED  BY <1>6 DEF t

LEMMA RelinkPrev ==
    ASSUME NEW c \in Cell, CheckTuple(c.key, c.val, c.open),
           NEW n \in Nat, c.open.prev # n,
           NEW d, NEW i, i \in DOMAIN d => d[i] = c
    PROVE  LegalUpsert(d, i, [c EXCEPT !.open = CopyWithPrev(@, n)])
  <1> DEFINE t == [c EXCEPT !.open = CopyWithPrev(@, n)]
  <1>1. t.key = c.key /\ t.val = c.val /\ t.open = [c.open EXCEPT !.prev = n]
    BY DEF Cell, CopyWithPrev
  <1>2. t.open.hkey = c.open.hkey /\ t.open.hval = c.open.hval
         /\ t.open.next = c.open.next /\ t.open.prev = n
    BY <1>1 DEF Cell, Opening
  <1>3. CheckTuple(t.key, t.val, t.open)
    BY <1>1, <1>2 DEF CheckTuple, HeadOrTail
  <1> HIDE DEF t
  <1>4. Changes(c.open, t.open) = {"prev"}
    BY <1>2 DEF Changes
  <1>5. Cardinality({"prev"}) = 1  BY FS_Singleton
  <1>6. LegalUpsert(d, i, t)
    BY <1>2, <1>3, <1>4, <1>5 DEF LegalUpsert
  <1> QED  BY <1>6 DEF t

-----------------------------------------------------------------------------
(* The outcome of each operation *)

\* The cells of S hold the same keys and values in d and in e.
SameCells(d, e, S) ==
  \A j \in S : e[j].open.hkey = d[j].open.hkey /\ e[j].val = d[j].val

Panics ==
  panicked' /\ nextFreeNode = Capacity /\ UNCHANGED <<data, nextFreeNode, log>>

\* A cell at i for key and val is the one change, one position is used up.
Inserts(key, val) ==
  /\ ~panicked' /\ nextFreeNode < Capacity
  /\ nextFreeNode' = nextFreeNode + 1
  /\ WellFormed(data', nextFreeNode')
  /\ DOMAIN data' = DOMAIN data \union {nextFreeNode}
  /\ nextFreeNode \notin DOMAIN data
  /\ SameCells(data, data', DOMAIN data)
  /\ data'[nextFreeNode].open.hkey = key /\ data'[nextFreeNode].val = val
  /\ \E t : log' = Append(log, t) /\ t.type = "insert" /\ t.key = key /\ t.val = val

LEMMA InsertOutcome ==
    ASSUME IInv, NEW key \in Keys, NEW val \in Values, InsertAndProve(key, val)
    PROVE  Panics \/ Inserts(key, val)
  <1> DEFINE a == FindMinus(key)
             b == FindPlus(key)
             n == nextFreeNode
             ma == [data[a] EXCEPT !.open = CopyWithNext(@, n)]
             new == [key |-> key, val |-> val, open |-> Open(a, b, key, val)]
             pb == [data[b] EXCEPT !.open = CopyWithPrev(@, n)]
             s1 == UpsertTuple(Store, a, ma)
             s2 == UpsertTuple(s1, n, new)
             s3 == UpsertTuple(s2, b, pb)
  <1>1. /\ ~Has(key)
        /\ \E t : /\ Commit(s3, n + 1, t)
                  /\ t.type = "insert" /\ t.key = key /\ t.val = val
    BY DEF InsertAndProve
  <1>2. n \in Nat /\ n <= Capacity /\ WellFormed(data, n)  BY DEF IInv
  <1>3. /\ \A i \in DOMAIN data : data[i] \in Cell /\ data[i].open \in Opening
        /\ \A i \in DOMAIN data : i \in Nat /\ i < n
    BY <1>2, CellTypes
  <1>4. /\ a \in DOMAIN data \ {1} /\ b \in DOMAIN data \ {0} /\ a # b
        /\ data[a].open.hkey < key /\ key < data[b].open.hkey
        /\ data[a].open.next = b /\ data[b].open.prev = a
    BY <1>1, <1>2, Neighbours
  <1>5. /\ s1.data = Put(data, a, ma)
        /\ s1.ok <=> (LegalUpsert(data, a, ma) /\ a < Capacity)
        /\ s2.data = Put(s1.data, n, new)
        /\ s2.ok <=> (s1.ok /\ LegalUpsert(s1.data, n, new) /\ n < Capacity)
        /\ s3.data = Put(s2.data, b, pb)
        /\ s3.ok <=> (s2.ok /\ LegalUpsert(s2.data, b, pb) /\ b < Capacity)
    BY DEF UpsertTuple, Store
  <1> HIDE DEF a, b, s1, s2, s3
  <1>6. n \notin DOMAIN data /\ n # a /\ n # b  BY <1>3, <1>4
  <1>7. /\ DOMAIN s1.data = DOMAIN data
        /\ \A j \in DOMAIN data \ {a} : s1.data[j] = data[j]
        /\ s1.data[a] = ma
    <2>1. a \in DOMAIN data  BY <1>4
    <2>2. s1.data = Put(data, a, ma)  BY <1>5
    <2> HIDE DEF ma
    <2> QED  BY <2>1, <2>2, ZenonT(40) DEF Put
  <1>8. /\ DOMAIN s2.data = DOMAIN data \union {n}
        /\ \A j \in DOMAIN data \ {a} : s2.data[j] = data[j]
        /\ s2.data[a] = ma /\ s2.data[n] = new
    BY <1>4, <1>5, <1>6, <1>7 DEF Put
  <1>9. /\ DOMAIN s3.data = DOMAIN data \union {n}
        /\ \A j \in DOMAIN data \ {a, b} : s3.data[j] = data[j]
        /\ s3.data[a] = ma /\ s3.data[n] = new /\ s3.data[b] = pb
        /\ s3.data = [j \in DOMAIN s3.data |-> s3.data[j]]
    <2> HIDE DEF ma, pb, new
    <2>1. s3.data = [j \in DOMAIN s2.data \union {b} |-> IF j = b THEN pb ELSE s2.data[j]]
      BY <1>5 DEF Put
    <2>2. DOMAIN s3.data = DOMAIN data \union {n}  BY <1>4, <1>8, <2>1
    <2> QED  BY <1>4, <1>6, <1>8, <2>1, <2>2
  <1>10. LegalUpsert(data, a, ma)
    <2>1. data[a].open.next # n  BY <1>4, <1>6
    <2>2. CheckTuple(data[a].key, data[a].val, data[a].open)  BY <1>2, <1>4, TupleChecks
    <2>3. data[a] \in Cell  BY <1>3, <1>4
    <2> QED  BY <1>2, <2>1, <2>2, <2>3, RelinkNext
  <1>11. LegalUpsert(s1.data, n, new)
    BY <1>6, <1>7 DEF LegalUpsert, CheckTuple, Open
  <1>12. LegalUpsert(s2.data, b, pb)
    <2>1. data[b].open.prev # n  BY <1>4, <1>6
    <2>2. CheckTuple(data[b].key, data[b].val, data[b].open)  BY <1>2, <1>4, TupleChecks
    <2>3. data[b] \in Cell /\ s2.data[b] = data[b]  BY <1>3, <1>4, <1>8
    <2> QED  BY <1>2, <2>1, <2>2, <2>3, RelinkPrev
  <1>13. s3.ok <=> n < Capacity
    <2>1. n < Capacity => a < Capacity /\ b < Capacity
      BY <1>2, <1>3, <1>4, DepthAssumption
    <2> QED  BY <1>5, <1>10, <1>11, <1>12, <2>1
  <1>14. PICK t : /\ Commit(s3, n + 1, t)
                  /\ t.type = "insert" /\ t.key = key /\ t.val = val
    BY <1>1
  <1>15. CASE ~(n < Capacity)
    <2>1. n = Capacity  BY <1>2, <1>15, DepthAssumption
    <2>2. panicked' /\ UNCHANGED <<data, nextFreeNode, log>>
      BY <1>13, <1>14, <1>15 DEF Commit
    <2> QED  BY <2>1, <2>2 DEF Panics
  <1>16. CASE n < Capacity
    <2>1. /\ ~panicked' /\ data' = s3.data /\ nextFreeNode' = n + 1
          /\ log' = Append(log, t)
      BY <1>13, <1>14, <1>16 DEF Commit
    <2>2. \A i \in DOMAIN data : data[i].open.hkey # key  BY <1>1 DEF Has
    <2>3. WellFormed(s3.data, n + 1)
      BY <1>2, <1>4, <1>9, <2>2, InsertForm
    <2>4. /\ ma.val = data[a].val /\ ma.open.hkey = data[a].open.hkey
          /\ pb.val = data[b].val /\ pb.open.hkey = data[b].open.hkey
          /\ new.val = val /\ new.open.hkey = key
      BY <1>3, <1>4 DEF Cell, Opening, CopyWithNext, CopyWithPrev, Open
    <2>5. SameCells(data, s3.data, DOMAIN data)
      BY <1>4, <1>9, <2>4, ZenonT(40) DEF SameCells
    <2> QED  BY <1>6, <1>9, <1>14, <1>16, <2>1, <2>3, <2>4, <2>5 DEF Inserts
  <1> QED  BY <1>15, <1>16

LEMMA KeyFound ==
    ASSUME NEW key \in Keys, Has(key), WellFormed(data, nextFreeNode), nextFreeNode \in Nat
    PROVE  /\ FindKey(key) \in DOMAIN data \ {0, 1}
           /\ data[FindKey(key)].open.hkey = key
           /\ data[FindKey(key)].key = key
  <1>1. FindKey(key) \in DOMAIN data /\ data[FindKey(key)].open.hkey = key
    BY DEF Has, FindKey
  <1>2. FindKey(key) \notin {0, 1}
    BY <1>1, AccumulatorAssumption DEF WellFormed, Contents
  <1> QED  BY <1>1, <1>2 DEF WellFormed, Contents

Deletes(key) ==
  \E i, t :
    /\ i \in DOMAIN data
    /\ ~panicked' /\ nextFreeNode' = nextFreeNode
    /\ WellFormed(data', nextFreeNode')
    /\ data[i].open.hkey = key
    /\ DOMAIN data' = DOMAIN data \ {i}
    /\ SameCells(data, data', DOMAIN data \ {i})
    /\ log' = Append(log, t) /\ t.type = "delete" /\ t.key = key /\ t.val = data[i].val

LEMMA DeleteOutcome ==
    ASSUME IInv, NEW key \in Keys, DeleteAndProve(key)
    PROVE  Deletes(key)
  <1> DEFINE i == FindKey(key)
             a == data[i].open.prev
             b == data[i].open.next
             n == nextFreeNode
             ma == [data[a] EXCEPT !.open = CopyWithNext(@, b)]
             pb == [data[b] EXCEPT !.open = CopyWithPrev(@, a)]
             s1 == UpsertTuple(Store, a, ma)
             s2 == RmTuple(s1, i)
             s3 == UpsertTuple(s2, b, pb)
  <1>1. /\ Has(key)
        /\ \E t : /\ Commit(s3, n, t)
                  /\ t.type = "delete" /\ t.key = key /\ t.val = data[i].val
    <2> DEFINE t0 == [type |-> "delete", key |-> key, val |-> data[i].val,
                      oldRoot |-> tree.root, newRoot |-> s3.tree.root,
                      next |-> nextFreeNode,
                      minus |-> data[a].open, open |-> data[i].open, plus |-> data[b].open,
                      proofMinus |-> Prove(s1.tree, a),
                      proof      |-> Prove(s2.tree, i),
                      proofPlus  |-> Prove(s3.tree, b)]
    <2>1. Has(key) /\ Commit(s3, n, t0)  BY Zenon DEF DeleteAndProve
    <2>2. t0.type = "delete" /\ t0.key = key /\ t0.val = data[i].val  OBVIOUS
    <2> HIDE DEF t0, s3, i
    <2> QED  BY <2>1, <2>2
  <1>2. n \in Nat /\ n <= Capacity /\ WellFormed(data, n)  BY DEF IInv
  <1>3. /\ \A j \in DOMAIN data : data[j] \in Cell /\ data[j].open \in Opening
        /\ \A j \in DOMAIN data : j \in Nat /\ j < n
    BY <1>2, CellTypes
  <1>4. i \in DOMAIN data \ {0, 1} /\ data[i].open.hkey = key
    BY <1>1, <1>2, KeyFound
  <1>5. /\ s1.data = Put(data, a, ma)
        /\ s1.ok <=> (LegalUpsert(data, a, ma) /\ a < Capacity)
        /\ s2.data = Drop(s1.data, i)
        /\ s2.ok <=> (s1.ok /\ i \in DOMAIN s1.data)
        /\ s3.data = Put(s2.data, b, pb)
        /\ s3.ok <=> (s2.ok /\ LegalUpsert(s2.data, b, pb) /\ b < Capacity)
    BY DEF UpsertTuple, RmTuple, Store
  <1> HIDE DEF i, s1, s2, s3
  <1>6. /\ a \in DOMAIN data \ {1} /\ b \in DOMAIN data \ {0}
        /\ a # i /\ b # i /\ a # b
        /\ data[a].open.next = i /\ data[b].open.prev = i
    BY <1>2, <1>4, CellBetween
  <1> HIDE DEF a, b
  <1>7. /\ DOMAIN s1.data = DOMAIN data
        /\ \A j \in DOMAIN data \ {a} : s1.data[j] = data[j]
        /\ s1.data[a] = ma
    BY <1>5, <1>6 DEF Put
  <1>8. /\ DOMAIN s2.data = DOMAIN data \ {i}
        /\ \A j \in DOMAIN data \ {a, i} : s2.data[j] = data[j]
        /\ s2.data[a] = ma
    BY <1>4, <1>5, <1>6, <1>7 DEF Drop
  <1>9. /\ DOMAIN s3.data = DOMAIN data \ {i}
        /\ \A j \in DOMAIN data \ {a, i, b} : s3.data[j] = data[j]
        /\ s3.data[a] = ma /\ s3.data[b] = pb
        /\ s3.data = [j \in DOMAIN s3.data |-> s3.data[j]]
    <2> HIDE DEF ma, pb
    <2>1. s3.data = [j \in DOMAIN s2.data \union {b} |-> IF j = b THEN pb ELSE s2.data[j]]
      BY <1>5 DEF Put
    <2> QED  BY <1>6, <1>8, <2>1
  <1>10. LegalUpsert(data, a, ma)
    <2>1. data[a].open.next # b /\ b \in Nat  BY <1>3, <1>6
    <2>2. CheckTuple(data[a].key, data[a].val, data[a].open)  BY <1>2, <1>6, TupleChecks
    <2>3. data[a] \in Cell  BY <1>3, <1>6
    <2> QED  BY <2>1, <2>2, <2>3, RelinkNext
  <1>11. LegalUpsert(s2.data, b, pb)
    <2>1. data[b].open.prev # a /\ a \in Nat  BY <1>3, <1>6
    <2>2. CheckTuple(data[b].key, data[b].val, data[b].open)  BY <1>2, <1>6, TupleChecks
    <2>3. data[b] \in Cell /\ s2.data[b] = data[b]  BY <1>3, <1>6, <1>8
    <2> QED  BY <2>1, <2>2, <2>3, RelinkPrev
  <1>12. s3.ok
    <2>1. a < Capacity /\ b < Capacity
      BY <1>2, <1>3, <1>6, DepthAssumption
    <2> QED  BY <1>4, <1>5, <1>7, <1>10, <1>11, <2>1
  <1>13. PICK t : /\ Commit(s3, n, t)
                  /\ t.type = "delete" /\ t.key = key /\ t.val = data[i].val
    BY <1>1
  <1>14. ~panicked' /\ data' = s3.data /\ nextFreeNode' = n /\ log' = Append(log, t)
    BY <1>12, <1>13 DEF Commit
  <1>15. WellFormed(s3.data, n)
    <2>1. /\ s3.data[a] = WithNext(data[a], b) /\ s3.data[b] = WithPrev(data[b], a)
          /\ IsFunction(s3.data)
      BY <1>9 DEF WithNext, WithPrev, IsFunction
    <2>2. a = data[i].open.prev /\ b = data[i].open.next  BY DEF a, b
    <2> HIDE DEF ma, pb
    <2> QED  BY <1>2, <1>4, <1>9, <2>1, <2>2, DeleteForm
  <1>16. /\ ma.val = data[a].val /\ ma.open.hkey = data[a].open.hkey
         /\ pb.val = data[b].val /\ pb.open.hkey = data[b].open.hkey
    BY <1>3, <1>6 DEF Cell, Opening, CopyWithNext, CopyWithPrev
  <1>17. SameCells(data, s3.data, DOMAIN data \ {i})
    BY <1>6, <1>9, <1>16 DEF SameCells
  <1> QED  BY <1>4, <1>9, <1>13, <1>14, <1>15, <1>17 DEF Deletes

Updates(key, val) ==
  \E i, t :
    /\ i \in DOMAIN data
    /\ ~panicked' /\ nextFreeNode' = nextFreeNode
    /\ WellFormed(data', nextFreeNode')
    /\ data[i].open.hkey = key
    /\ DOMAIN data' = DOMAIN data
    /\ SameCells(data, data', DOMAIN data \ {i})
    /\ data'[i].open.hkey = key /\ data'[i].val = val
    /\ log' = Append(log, t) /\ t.type = "update" /\ t.key = key
    /\ t.old = data[i].val /\ t.val = val

LEMMA UpdateOutcome ==
    ASSUME IInv, NEW key \in Keys, NEW val \in Values, UpdateAndProve(key, val)
    PROVE  Updates(key, val)
  <1> DEFINE i == FindKey(key)
             new == [data[i] EXCEPT !.val = val, !.open = CopyWithVal(@, val)]
             s == [data |-> Put(data, i, new),
                   tree |-> Update(tree, i, Hash(new.open)),
                   ok   |-> data[i].key = key]
             n == nextFreeNode
  <1>1. /\ Has(key)
        /\ \E t : /\ Commit(s, n, t) /\ t.type = "update" /\ t.key = key
                  /\ t.old = data[i].val /\ t.val = val
    BY DEF UpdateAndProve
  <1>2. n \in Nat /\ WellFormed(data, n)  BY DEF IInv
  <1>3. i \in DOMAIN data \ {0, 1} /\ data[i].open.hkey = key /\ data[i].key = key
    BY <1>1, <1>2, KeyFound
  <1>4. data[i] \in Cell  BY <1>2, <1>3, CellTypes
  <1> HIDE DEF i
  <1>5. s.ok /\ s.data = Put(data, i, new)  BY <1>3
  <1>6. PICK t : /\ Commit(s, n, t) /\ t.type = "update" /\ t.key = key
                 /\ t.old = data[i].val /\ t.val = val
    BY <1>1
  <1>7. ~panicked' /\ data' = s.data /\ nextFreeNode' = n /\ log' = Append(log, t)
    BY <1>5, <1>6 DEF Commit
  <1>8. /\ DOMAIN data' = DOMAIN data
        /\ \A j \in DOMAIN data \ {i} : data'[j] = data[j]
        /\ data'[i] = new
        /\ data' = [j \in DOMAIN data' |-> data'[j]]
    BY <1>3, <1>5, <1>7 DEF Put
  <1>9. WellFormed(data', n)  BY <1>2, <1>3, <1>8, UpdateForm
  <1>10. new.val = val /\ new.open.hkey = data[i].open.hkey
    BY <1>4 DEF Cell, Opening, CopyWithVal
  <1>11. data'[i].val = val /\ data'[i].open.hkey = key  BY <1>3, <1>8, <1>10
  <1>12. SameCells(data, data', DOMAIN data \ {i})  BY <1>8 DEF SameCells
  <1> QED  BY <1>3, <1>6, <1>7, <1>8, <1>9, <1>11, <1>12 DEF Updates

ReadsZero(key) ==
  /\ ~panicked' /\ UNCHANGED <<data, nextFreeNode>>
  /\ \A i \in DOMAIN data : data[i].open.hkey # key
  /\ \E t : log' = Append(log, t) /\ t.type = "readzero" /\ t.key = key

LEMMA ReadZeroOutcome ==
    ASSUME IInv, NEW key \in Keys, ReadZeroAndProve(key)
    PROVE  ReadsZero(key)
  <1>1. ~Has(key) /\ \E t : Commit(Store, nextFreeNode, t) /\ t.type = "readzero" /\ t.key = key
    BY DEF ReadZeroAndProve
  <1>2. Store.ok /\ Store.data = data  BY DEF Store
  <1>3. PICK t : Commit(Store, nextFreeNode, t) /\ t.type = "readzero" /\ t.key = key
    BY <1>1
  <1>4. ~panicked' /\ data' = data /\ nextFreeNode' = nextFreeNode /\ log' = Append(log, t)
    BY <1>2, <1>3 DEF Commit
  <1> QED  BY <1>1, <1>3, <1>4 DEF ReadsZero, Has

ReadsNonZero(key) ==
  /\ ~panicked' /\ UNCHANGED <<data, nextFreeNode>>
  /\ \E i, t :
       /\ i \in DOMAIN data
       /\ data[i].open.hkey = key
       /\ log' = Append(log, t) /\ t.type = "readnonzero" /\ t.key = key
       /\ t.val = data[i].val

LEMMA ReadNonZeroOutcome ==
    ASSUME IInv, NEW key \in Keys, ReadNonZeroAndProve(key)
    PROVE  ReadsNonZero(key)
  <1> DEFINE i == FindKey(key)
             s == [Store EXCEPT !.ok = data[i].key = key]
  <1>1. /\ Has(key)
        /\ \E t : /\ Commit(s, nextFreeNode, t)
                  /\ t.type = "readnonzero" /\ t.key = key /\ t.val = data[i].val
    BY DEF ReadNonZeroAndProve
  <1>2. i \in DOMAIN data /\ data[i].open.hkey = key /\ data[i].key = key
    BY <1>1, KeyFound DEF IInv
  <1> HIDE DEF i
  <1>3. s.ok /\ s.data = data  BY <1>2 DEF Store
  <1>4. PICK t : /\ Commit(s, nextFreeNode, t)
                 /\ t.type = "readnonzero" /\ t.key = key /\ t.val = data[i].val
    BY <1>1
  <1>5. ~panicked' /\ data' = data /\ nextFreeNode' = nextFreeNode /\ log' = Append(log, t)
    BY <1>3, <1>4 DEF Commit
  <1> QED  BY <1>2, <1>4, <1>5 DEF ReadsNonZero

\* Every step of Operate is one of these.
LEMMA Outcomes ==
    ASSUME IInv, Operate
    PROVE  \E key \in Keys :
             \/ Panics
             \/ \E val \in Values : Inserts(key, val) \/ Updates(key, val)
             \/ Deletes(key) \/ ReadsZero(key) \/ ReadsNonZero(key)
  BY InsertOutcome, DeleteOutcome, UpdateOutcome, ReadZeroOutcome, ReadNonZeroOutcome
     DEF Operate

-----------------------------------------------------------------------------
(* The invariant *)

LEMMA Appended ==
    ASSUME NEW s, IsSeq(s), NEW t
    PROVE  /\ IsSeq(Append(s, t)) /\ Append(s, t) # <<>>
           /\ Append(s, t)[Len(Append(s, t))] = t
  <1>1. PICK S : s \in Seq(S)  BY DEF IsSeq
  <1>2. s \in Seq(S \union {t})  BY <1>1
  <1>3. Append(s, t) \in Seq(S \union {t})  BY <1>2
  <1> QED  BY <1>2, <1>3 DEF IsSeq

LEMMA InitForm == Init => IInv
  <1> SUFFICES ASSUME Init PROVE IInv  OBVIOUS
  <1>1. PICK n \in Spent : nextFreeNode = 2 + n  BY DEF Init
  <1>2. nextFreeNode \in Nat /\ nextFreeNode <= Capacity /\ nextFreeNode >= 2
    BY <1>1, AccumulatorAssumption, DepthAssumption
  <1>3. /\ DOMAIN data = {0, 1}
        /\ data[0] = [key |-> 0, val |-> 0, open |-> HeadOpening]
        /\ data[1] = [key |-> 0, val |-> 0, open |-> TailOpening]
    BY DEF Init
  <1>4. /\ data[0].val = 0 /\ data[0].open.hkey = 0
        /\ data[0].open.prev = 0 /\ data[0].open.next = 1
        /\ data[1].val = 0 /\ data[1].open.hkey = MaxHash
        /\ data[1].open.prev = 0 /\ data[1].open.next = 1
        /\ data[0] \in Cell /\ data[1] \in Cell
    BY <1>3, AccumulatorAssumption DEF HeadOpening, TailOpening, Open, Cell, Opening
  <1>5. data \in [DOMAIN data -> Cell]
    <2>1. data = [i \in DOMAIN data |-> data[i]]  BY DEF Init
    <2> QED  BY <1>3, <1>4, <2>1
  <1>6. Contents(data, nextFreeNode)  BY <1>2, <1>3, <1>4, <1>5 DEF Contents
  <1>7. Distinct(data) /\ Linked(data) /\ Ordered(data)
    <2>1. MaxHash \in Nat /\ 0 < MaxHash  BY AccumulatorAssumption
    <2>2. Distinct(data)  BY <1>3, <1>4, <2>1 DEF Distinct
    <2>3. Linked(data)  BY <1>3, <1>4 DEF Linked
    <2>4. Ordered(data)
      <3> SUFFICES ASSUME NEW i \in DOMAIN data \ {1}
                   PROVE  /\ data[i].open.hkey < data[data[i].open.next].open.hkey
                          /\ \A j \in DOMAIN data :
                               \/ data[j].open.hkey <= data[i].open.hkey
                               \/ data[data[i].open.next].open.hkey <= data[j].open.hkey
        BY DEF Ordered
      <3>1. /\ data[i].open.hkey = 0
            /\ data[data[i].open.next].open.hkey = MaxHash
        <4>1. i = 0  BY <1>3
        <4> QED  BY <4>1, <1>4
      <3>2. \A j \in DOMAIN data : data[j].open.hkey \in {0, MaxHash}
        BY <1>3, <1>4
      <3> QED  BY <2>1, <3>1, <3>2
    <2> QED  BY <2>2, <2>3, <2>4
  <1>8. IsSeq(log)
    <2>1. log \in Seq({})  BY DEF Init
    <2> QED  BY <2>1 DEF IsSeq
  <1>9. PanicsOnlyWhenFull  BY DEF Init, PanicsOnlyWhenFull
  <1> QED  BY <1>2, <1>6, <1>7, <1>8, <1>9 DEF IInv, WellFormed

LEMMA StepForm == IInv /\ [Next]_vars => IInv'
  <1> SUFFICES ASSUME IInv, [Next]_vars PROVE IInv'  OBVIOUS
  <1>1. CASE Operate
    <2>1. PICK key \in Keys :
             \/ Panics
             \/ \E val \in Values : Inserts(key, val) \/ Updates(key, val)
             \/ Deletes(key) \/ ReadsZero(key) \/ ReadsNonZero(key)
      BY <1>1, Outcomes
    <2>2. CASE Panics
      BY <2>2 DEF Panics, IInv, PanicsOnlyWhenFull
    <2>3. ASSUME NEW val \in Values, Inserts(key, val) PROVE IInv'
      <3>1. nextFreeNode' \in Nat /\ nextFreeNode' <= Capacity
        BY <2>3, DepthAssumption DEF Inserts, IInv
      <3>2. IsSeq(log')  BY <2>3, Appended DEF Inserts, IInv
      <3> QED  BY <2>3, <3>1, <3>2 DEF Inserts, IInv, PanicsOnlyWhenFull
    <2>4. ASSUME NEW val \in Values, Updates(key, val) PROVE IInv'
      <3>1. IsSeq(log')  BY <2>4, Appended DEF Updates, IInv
      <3> QED  BY <2>4, <3>1 DEF Updates, IInv, PanicsOnlyWhenFull
    <2>5. CASE Deletes(key)
      <3>1. IsSeq(log')  BY <2>5, Appended DEF Deletes, IInv
      <3> QED  BY <2>5, <3>1 DEF Deletes, IInv, PanicsOnlyWhenFull
    <2>6. CASE ReadsZero(key)
      <3>1. IsSeq(log')  BY <2>6, Appended DEF ReadsZero, IInv
      <3> QED  BY <2>6, <3>1 DEF ReadsZero, IInv, PanicsOnlyWhenFull
    <2>7. CASE ReadsNonZero(key)
      <3>1. IsSeq(log')  BY <2>7, Appended DEF ReadsNonZero, IInv
      <3> QED  BY <2>7, <3>1 DEF ReadsNonZero, IInv, PanicsOnlyWhenFull
    <2> QED  BY <2>1, <2>2, <2>3, <2>4, <2>5, <2>6, <2>7
  <1>2. CASE StartReplay \/ CheckTrace \/ UNCHANGED vars
    <2>1. UNCHANGED <<data, nextFreeNode, log, panicked>>
      BY <1>2 DEF StartReplay, CheckTrace, vars
    <2> QED  BY <2>1 DEF IInv, PanicsOnlyWhenFull
  <1> QED  BY <1>1, <1>2 DEF Next

\* The list is well formed, and the prover panics only on a full tree, however
\* operations follow each other.
THEOREM Invariance == Spec => []IInv
  <1>1. Init => IInv  BY InitForm
  <1>2. IInv /\ [Next]_vars => IInv'  BY StepForm
  <1> QED  BY <1>1, <1>2, PTL DEF Spec

\* The prover never panics before all positions of the tree are taken.
THEOREM OnlyAFullTreePanics == Spec => []PanicsOnlyWhenFull
  <1>1. IInv => PanicsOnlyWhenFull  BY DEF IInv
  <1> QED  BY <1>1, Invariance, PTL

\* The linked list stays sorted and doubly linked under every sequence of
\* insertions and deletions, for every depth and every set of keys.
THEOREM ListStaysSorted == Spec => []ListSorted
  <1>1. IInv => ListSorted  BY DEF IInv, WellFormed, Linked, Ordered, ListSorted
  <1> QED  BY <1>1, Invariance, PTL

-----------------------------------------------------------------------------
(* The refinement *)

MapOf(d) ==
  [k \in {d[i].open.hkey : i \in DOMAIN d} \ {0, MaxHash} |->
     d[CHOOSE i \in DOMAIN d : d[i].open.hkey = k].val]

LEMMA MapOfCells ==
    ASSUME NEW d, NEW next, WellFormed(d, next)
    PROVE  /\ \A i \in DOMAIN d \ {0, 1} : MapOf(d)[d[i].open.hkey] = d[i].val
           /\ DOMAIN MapOf(d) = {d[i].open.hkey : i \in DOMAIN d \ {0, 1}}
           /\ MapOf(d) = [k \in DOMAIN MapOf(d) |-> MapOf(d)[k]]
           /\ \A i \in DOMAIN d : d[i].open.hkey \in Keys => i \in DOMAIN d \ {0, 1}
  <1>1. \A i \in DOMAIN d :
          /\ i \in {0, 1} => d[i].open.hkey \in {0, MaxHash}
          /\ i \notin {0, 1} => d[i].open.hkey \in Keys
    BY DEF WellFormed, Contents
  <1>2. Keys \intersect {0, MaxHash} = {}  BY AccumulatorAssumption
  <1>3. \A i \in DOMAIN d : d[i].open.hkey \in Keys => i \in DOMAIN d \ {0, 1}
    BY <1>1, <1>2
  <1>4. DOMAIN MapOf(d) = {d[i].open.hkey : i \in DOMAIN d} \ {0, MaxHash}
    BY DEF MapOf
  <1>5. DOMAIN MapOf(d) = {d[i].open.hkey : i \in DOMAIN d \ {0, 1}}
    BY <1>1, <1>2, <1>4
  <1>6. ASSUME NEW i \in DOMAIN d \ {0, 1}
        PROVE  MapOf(d)[d[i].open.hkey] = d[i].val
    <2> DEFINE k == d[i].open.hkey
               c == CHOOSE j \in DOMAIN d : d[j].open.hkey = k
    <2>1. c \in DOMAIN d /\ d[c].open.hkey = k  OBVIOUS
    <2>2. c = i  BY <2>1 DEF WellFormed, Distinct
    <2>3. k \in {d[j].open.hkey : j \in DOMAIN d} \ {0, MaxHash}  BY <1>1, <1>2
    <2>4. MapOf(d)[k] = d[c].val  BY <2>3 DEF MapOf
    <2> QED  BY <2>2, <2>4
  <1>7. MapOf(d) = [k \in DOMAIN MapOf(d) |-> MapOf(d)[k]]  BY DEF MapOf
  <1> QED  BY <1>3, <1>5, <1>6, <1>7

LEMMA LastIs ==
    ASSUME IInv, NEW t, log' = Append(log, t)
    PROVE  /\ t.type = "readzero" => Last' = <<t.type, t.key>>
           /\ t.type = "update" => Last' = <<t.type, t.key, t.old, t.val>>
           /\ t.type \in {"insert", "delete", "readnonzero"} => Last' = <<t.type, t.key, t.val>>
  <1>1. log' # <<>> /\ log'[Len(log')] = t  BY Appended DEF IInv
  <1> QED  BY <1>1 DEF Last

LEMMA InsertsInMap ==
    ASSUME IInv, NEW key \in Keys, NEW val \in Values, Inserts(key, val)
    PROVE  M!Insert(key, val)
  <1> DEFINE f == MapOf(data)
             g == MapOf(data')
             n == nextFreeNode
  <1>1. CurrentMap = f /\ CurrentMap' = g  BY DEF CurrentMap, MapOf, FindKey
  <1>2. /\ \A i \in DOMAIN data \ {0, 1} : f[data[i].open.hkey] = data[i].val
        /\ DOMAIN f = {data[i].open.hkey : i \in DOMAIN data \ {0, 1}}
    <2>1. WellFormed(data, nextFreeNode)  BY DEF IInv
    <2> QED  BY <2>1, MapOfCells, ZenonT(40)
  <1>3. /\ \A i \in DOMAIN data' \ {0, 1} : g[data'[i].open.hkey] = data'[i].val
        /\ DOMAIN g = {data'[i].open.hkey : i \in DOMAIN data' \ {0, 1}}
        /\ g = [k \in DOMAIN g |-> g[k]]
    BY MapOfCells DEF Inserts
  <1> HIDE DEF f, g
  <1>4. /\ DOMAIN data' = DOMAIN data \union {n} /\ n \notin DOMAIN data
        /\ \A j \in DOMAIN data :
             data'[j].open.hkey = data[j].open.hkey /\ data'[j].val = data[j].val
        /\ data'[n].open.hkey = key /\ data'[n].val = val
        /\ \A i, j \in DOMAIN data' : data'[i].open.hkey = data'[j].open.hkey => i = j
        /\ n \notin {0, 1}
    BY DEF Inserts, SameCells, WellFormed, Distinct, IInv, Contents
  <1>5. key \notin DOMAIN f
    BY <1>2, <1>4
  <1>6. DOMAIN g = DOMAIN f \union {key}
    BY <1>2, <1>3, <1>4
  <1>7. g[key] = val  BY <1>3, <1>4
  <1>8. \A k \in DOMAIN f : g[k] = f[k]
    BY <1>2, <1>3, <1>4
  <1>9. g = [j \in DOMAIN f \union {key} |-> IF j = key THEN val ELSE f[j]]
    BY <1>3, <1>5, <1>6, <1>7, <1>8
  <1>10. Last' = <<"insert", key, val>>
    BY LastIs DEF Inserts
  <1> QED  BY <1>1, <1>5, <1>9, <1>10 DEF M!Insert

LEMMA DeletesInMap ==
    ASSUME IInv, NEW key \in Keys, Deletes(key)
    PROVE  M!Delete(key)
  <1> DEFINE f == MapOf(data)
             g == MapOf(data')
  <1>1. CurrentMap = f /\ CurrentMap' = g  BY DEF CurrentMap, MapOf, FindKey
  <1>2. /\ \A i \in DOMAIN data \ {0, 1} : f[data[i].open.hkey] = data[i].val
        /\ DOMAIN f = {data[i].open.hkey : i \in DOMAIN data \ {0, 1}}
        /\ \A i \in DOMAIN data : data[i].open.hkey \in Keys => i \in DOMAIN data \ {0, 1}
    <2>1. WellFormed(data, nextFreeNode)  BY DEF IInv
    <2> QED  BY <2>1, MapOfCells, ZenonT(40)
  <1>3. /\ \A i \in DOMAIN data' \ {0, 1} : g[data'[i].open.hkey] = data'[i].val
        /\ DOMAIN g = {data'[i].open.hkey : i \in DOMAIN data' \ {0, 1}}
        /\ g = [k \in DOMAIN g |-> g[k]]
    BY MapOfCells DEF Deletes
  <1> HIDE DEF f, g
  <1>4. PICK i, t :
          /\ i \in DOMAIN data
          /\ data[i].open.hkey = key
          /\ DOMAIN data' = DOMAIN data \ {i}
          /\ SameCells(data, data', DOMAIN data \ {i})
          /\ log' = Append(log, t) /\ t.type = "delete" /\ t.key = key /\ t.val = data[i].val
    BY DEF Deletes
  <1>5. /\ \A j \in DOMAIN data \ {i} :
             data'[j].open.hkey = data[j].open.hkey /\ data'[j].val = data[j].val
        /\ \A j \in DOMAIN data \ {i} : data[j].open.hkey # key
    BY <1>4 DEF SameCells, WellFormed, Distinct, IInv
  <1>6. i \in DOMAIN data \ {0, 1}  BY <1>2, <1>4
  <1>7. key \in DOMAIN f /\ f[key] = data[i].val  BY <1>2, <1>4, <1>6
  <1>8. DOMAIN g = DOMAIN f \ {key}  BY <1>2, <1>3, <1>4, <1>5
  <1>9. \A k \in DOMAIN g : g[k] = f[k]  BY <1>2, <1>3, <1>4, <1>5
  <1>10. g = [j \in DOMAIN f \ {key} |-> f[j]]  BY <1>3, <1>8, <1>9
  <1>11. Last' = <<"delete", key, f[key]>>  BY <1>4, <1>7, LastIs
  <1> QED  BY <1>1, <1>7, <1>10, <1>11 DEF M!Delete

LEMMA UpdatesInMap ==
    ASSUME IInv, NEW key \in Keys, NEW val \in Values, Updates(key, val)
    PROVE  M!Update(key, val)
  <1> DEFINE f == MapOf(data)
             g == MapOf(data')
  <1>1. CurrentMap = f /\ CurrentMap' = g  BY DEF CurrentMap, MapOf, FindKey
  <1>2. /\ \A i \in DOMAIN data \ {0, 1} : f[data[i].open.hkey] = data[i].val
        /\ DOMAIN f = {data[i].open.hkey : i \in DOMAIN data \ {0, 1}}
        /\ \A i \in DOMAIN data : data[i].open.hkey \in Keys => i \in DOMAIN data \ {0, 1}
    <2>1. WellFormed(data, nextFreeNode)  BY DEF IInv
    <2> QED  BY <2>1, MapOfCells, ZenonT(40)
  <1>3. /\ \A i \in DOMAIN data' \ {0, 1} : g[data'[i].open.hkey] = data'[i].val
        /\ DOMAIN g = {data'[i].open.hkey : i \in DOMAIN data' \ {0, 1}}
        /\ g = [k \in DOMAIN g |-> g[k]]
    BY MapOfCells DEF Updates
  <1> HIDE DEF f, g
  <1>4. PICK i, t :
          /\ i \in DOMAIN data
          /\ data[i].open.hkey = key
          /\ DOMAIN data' = DOMAIN data
          /\ SameCells(data, data', DOMAIN data \ {i})
          /\ data'[i].open.hkey = key /\ data'[i].val = val
          /\ log' = Append(log, t) /\ t.type = "update" /\ t.key = key
          /\ t.old = data[i].val /\ t.val = val
    BY DEF Updates
  <1>5. /\ \A j \in DOMAIN data : data'[j].open.hkey = data[j].open.hkey
        /\ \A j \in DOMAIN data \ {i} : data'[j].val = data[j].val
        /\ \A j \in DOMAIN data \ {i} : data[j].open.hkey # key
    BY <1>4 DEF SameCells, WellFormed, Distinct, IInv
  <1>6. i \in DOMAIN data \ {0, 1}  BY <1>2, <1>4
  <1>7. key \in DOMAIN f /\ f[key] = data[i].val /\ g[key] = val
    BY <1>2, <1>3, <1>4, <1>6
  <1>8. DOMAIN g = DOMAIN f  BY <1>2, <1>3, <1>4, <1>5
  <1>9. \A k \in DOMAIN g \ {key} : g[k] = f[k]  BY <1>2, <1>3, <1>4, <1>5
  <1>10. g = [f EXCEPT ![key] = val]  BY <1>3, <1>7, <1>8, <1>9
  <1>11. Last' = <<"update", key, f[key], val>>  BY <1>4, <1>7, LastIs
  <1> QED  BY <1>1, <1>7, <1>10, <1>11 DEF M!Update

LEMMA ReadsInMap ==
    ASSUME IInv, NEW key \in Keys
    PROVE  /\ ReadsZero(key) => M!ReadZero(key)
           /\ ReadsNonZero(key) => M!ReadNonZero(key)
  <1> DEFINE f == MapOf(data)
  <1>1. CurrentMap = f  BY DEF CurrentMap, MapOf, FindKey
  <1>2. /\ \A i \in DOMAIN data \ {0, 1} : f[data[i].open.hkey] = data[i].val
        /\ DOMAIN f = {data[i].open.hkey : i \in DOMAIN data \ {0, 1}}
        /\ \A i \in DOMAIN data : data[i].open.hkey \in Keys => i \in DOMAIN data \ {0, 1}
    <2>1. WellFormed(data, nextFreeNode)  BY DEF IInv
    <2> QED  BY <2>1, MapOfCells, ZenonT(40)
  <1>3. data' = data => CurrentMap' = CurrentMap  BY DEF CurrentMap, FindKey
  <1> HIDE DEF f
  <1>4. ASSUME ReadsZero(key) PROVE M!ReadZero(key)
    <2>1. key \notin DOMAIN f  BY <1>2, <1>4 DEF ReadsZero
    <2>2. Last' = <<"readzero", key>>  BY <1>4, LastIs DEF ReadsZero
    <2> QED  BY <1>1, <1>3, <1>4, <2>1, <2>2 DEF ReadsZero, M!ReadZero
  <1>5. ASSUME ReadsNonZero(key) PROVE M!ReadNonZero(key)
    <2>1. PICK i, t :
            /\ i \in DOMAIN data
            /\ data[i].open.hkey = key
            /\ log' = Append(log, t) /\ t.type = "readnonzero" /\ t.key = key
            /\ t.val = data[i].val
      BY <1>5 DEF ReadsNonZero
    <2>2. key \in DOMAIN f /\ f[key] = data[i].val  BY <1>2, <2>1
    <2>3. Last' = <<"readnonzero", key, f[key]>>  BY <2>1, <2>2, LastIs
    <2> QED  BY <1>1, <1>3, <1>5, <2>2, <2>3 DEF ReadsNonZero, M!ReadNonZero
  <1> QED  BY <1>4, <1>5

LEMMA InitInMap == Init => M!MapInit
  <1> SUFFICES ASSUME Init PROVE M!MapInit  OBVIOUS
  <1>1. IInv /\ log = <<>> /\ DOMAIN data = {0, 1}  BY InitForm DEF Init
  <1>2. DOMAIN MapOf(data) = {}
    <2>1. DOMAIN MapOf(data) = {data[i].open.hkey : i \in DOMAIN data \ {0, 1}}
      BY <1>1, MapOfCells DEF IInv
    <2>2. DOMAIN data \ {0, 1} = {}  BY <1>1
    <2> QED  BY <2>1, <2>2
  <1>3. MapOf(data) = [k \in DOMAIN MapOf(data) |-> MapOf(data)[k]]
    BY <1>1, MapOfCells DEF IInv
  <1>4. CurrentMap = MapOf(data)  BY DEF CurrentMap, MapOf, FindKey
  <1>5. CurrentMap = [k \in {} |-> k]  BY <1>2, <1>3, <1>4
  <1>6. Last = <<"none">>  BY <1>1 DEF Last
  <1> QED  BY <1>5, <1>6 DEF M!MapInit

LEMMA StepInMap == IInv /\ [Next]_vars => [M!MapNext]_(M!mvars)
  <1> SUFFICES ASSUME IInv, [Next]_vars PROVE [M!MapNext]_(M!mvars)  OBVIOUS
  <1>1. UNCHANGED <<data, log>> => UNCHANGED M!mvars
    BY DEF CurrentMap, FindKey, Last, M!mvars
  <1>2. CASE Operate
    <2>1. PICK key \in Keys :
             \/ Panics
             \/ \E val \in Values : Inserts(key, val) \/ Updates(key, val)
             \/ Deletes(key) \/ ReadsZero(key) \/ ReadsNonZero(key)
      BY <1>2, Outcomes
    <2>2. CASE Panics  BY <1>1, <2>2 DEF Panics
    <2>3. ASSUME NEW val \in Values, Inserts(key, val) \/ Updates(key, val)
          PROVE  M!MapNext
      BY <2>3, InsertsInMap, UpdatesInMap DEF M!MapNext
    <2>4. CASE Deletes(key) \/ ReadsZero(key) \/ ReadsNonZero(key)
      BY <2>4, DeletesInMap, ReadsInMap DEF M!MapNext
    <2> QED  BY <2>1, <2>2, <2>3, <2>4
  <1>3. CASE StartReplay \/ CheckTrace \/ UNCHANGED vars
    <2>1. UNCHANGED <<data, log>>  BY <1>3 DEF StartReplay, CheckTrace, vars
    <2> QED  BY <1>1, <2>1
  <1> QED  BY <1>2, <1>3 DEF Next

\* The accumulator with its linked list, its tree and its traces implements
\* the map of AccumulatorMap: what the five operations answer is what a map
\* would have answered, for every depth, every set of keys and of values.
THEOREM Refinement == Spec => IsAMap
  <1>1. Init => M!MapInit  BY InitInMap
  <1>2. IInv /\ [Next]_vars => [M!MapNext]_(M!mvars)  BY StepInMap
  <1> QED  BY <1>1, <1>2, Invariance, PTL DEF Spec, IsAMap, M!MapSpec
=============================================================================
