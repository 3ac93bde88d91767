----------------------------- MODULE MCFuseOps -----------------------------
(* Instances of FuseOps for TLC.                                           *)
EXTENDS FuseInv, TLC

Filled(kinds) == Root :> "d" @@ [p \in {<<n>> : n \in Names} |-> kinds[p[1]]]

AnyKinds  == {Filled(k) : k \in [Names -> {"d", "f"}]}

(* One name is a file and the other a directory, whichever way round.      *)
FileAndDir == {Filled(k) : k \in {g \in [Names -> {"d", "f"}] :
                                   Cardinality(Range(g)) = 2}}
FilesOnly == {Filled([n \in Names |-> "f"])}

HandlerSymmetry == Permutations(Handlers)
Symmetry == HandlerSymmetry \cup Permutations(Names)

=============================================================================
