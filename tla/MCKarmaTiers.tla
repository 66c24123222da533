---------------------------- MODULE MCKarmaTiers ----------------------------
(* Instances of KarmaTiers for TLC. *)
EXTENDS KarmaTiers

T(name, min, max, tx) == [name |-> name, min |-> min, max |-> max, tx |-> tx]

MCInitial == <<T("none", 0, 0, 0), T("entry", 1, 3, 2)>>

\* Lists with one to three tiers; a limit that does not increase and a name
\* used twice, which only the prover refuses; an empty list, a gap, an empty
\* range and an invalid name, which the contract refuses.
MCInputs ==
  { << T("all", 0, 3, 1) >>,
    << T("none", 0, 1, 0), T("entry", 2, 3, 1) >>,
    << T("none", 0, 0, 0), T("entry", 1, 1, 1), T("basic", 2, 3, 3) >>,
    << T("none", 0, 1, 2), T("entry", 2, 3, 2) >>,
    << T("none", 0, 1, 0), T("none", 2, 2, 2) >>,
    << >>,
    << T("none", 0, 0, 0), T("entry", 2, 3, 1) >>,
    << T("none", 0, 1, 0), T("entry", 2, 1, 1) >>,
    << T("", 0, 3, 1) >> }
=============================================================================
