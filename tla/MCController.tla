---------------------------- MODULE MCController ----------------------------
(* An instance of Controller: an ordinary and a large controller, two       *)
(* execution requests, for which a controller uses one temporary file, and  *)
(* a compression request.                                                   *)
EXTENDS Controller

MCKind == [r \in Requests |-> IF r = "comp" THEN "compression" ELSE "execution"]
MCEnd == [r \in Requests |-> IF r = "exec" THEN 2 ELSE 1]
MCWatches ==
  [c \in Controllers |->
     IF c \in CanRunFullLarge THEN {"execution"} ELSE {"execution", "compression"}]

\* The first execution request waits when the controllers start.  The
\* compression request has been answered before, or waits as well: then one
\* fault fewer is to come.
MCInit ==
  /\ \E answered \in BOOLEAN :
       /\ file = [r \in Requests |->
            CASE r = "exec"  -> InDone("absent", <<>>)
              [] r = "comp" /\ answered -> InDone("succeeded", <<>>)
              [] OTHER -> InFrom(<<>>, None)]
       /\ response = [r \in Requests |-> IF r = "comp" /\ answered THEN r ELSE None]
       /\ faults = IF answered THEN 0 ELSE 1
  /\ tmp = [p \in Controllers \X Kinds |-> None]
  /\ trace = [r \in Requests |-> TRUE]
  /\ ctl = [c \in Controllers |-> Fresh]
  /\ dropped = {}

MCSpec == MCInit /\ [][Next]_vars /\ Fairness
=============================================================================
