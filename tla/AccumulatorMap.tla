--------------------------- MODULE AccumulatorMap ---------------------------
(***************************************************************************)
(* What the accumulator of the state manager promises: a map from keys to  *)
(* values with five operations, and the answer each of them gives.         *)
(***************************************************************************)
CONSTANTS Keys, Values

VARIABLES map,  \* a function from the keys present to their values
          last  \* the operation last carried out, with what it answered

mvars == <<map, last>>

MapInit == map = [k \in {} |-> k] /\ last = <<"none">>

Insert(k, v) ==
  /\ k \notin DOMAIN map
  /\ map' = [j \in DOMAIN map \union {k} |-> IF j = k THEN v ELSE map[j]]
  /\ last' = <<"insert", k, v>>

Delete(k) ==
  /\ k \in DOMAIN map
  /\ map' = [j \in DOMAIN map \ {k} |-> map[j]]
  /\ last' = <<"delete", k, map[k]>>

Update(k, v) ==
  /\ k \in DOMAIN map
  /\ map' = [map EXCEPT ![k] = v]
  /\ last' = <<"update", k, map[k], v>>

ReadZero(k) ==
  /\ k \notin DOMAIN map
  /\ last' = <<"readzero", k>>
  /\ UNCHANGED map

ReadNonZero(k) ==
  /\ k \in DOMAIN map
  /\ last' = <<"readnonzero", k, map[k]>>
  /\ UNCHANGED map

MapNext ==
  \E k \in Keys :
    \/ \E v \in Values : Insert(k, v) \/ Update(k, v)
    \/ Delete(k)
    \/ ReadZero(k)
    \/ ReadNonZero(k)

MapSpec == MapInit /\ [][MapNext]_mvars
=============================================================================
