---------------------------- MODULE MCRequestPath ----------------------------
(***************************************************************************)
(* RequestPath for TLC: the sets of outcomes the runs choose from, and the *)
(* symmetry of the Links, which the safety runs may use.                   *)
(***************************************************************************)
EXTENDS RequestPathInv, TLC

AnyOutcome  == Outcomes
NoException == {"ok", "serr"}
OkOrRaise   == {"ok", "exc"}

LinkPerms == Permutations(Links)

=============================================================================
