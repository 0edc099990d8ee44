------------------------- MODULE MCApprovalSignals -------------------------
(* One request, at most two levels, four people, one of whom cannot act.   *)
EXTENDS ApprovalSignals, TLC

CONSTANTS owner, manager, colleague, employee

MCUsers    == {owner, manager, colleague, employee}
MCCanAct   == MCUsers \ {employee}
MCRanks    == (owner :> 1) @@ (manager :> 3) @@ (colleague :> 3) @@ (employee :> 5)
MCBranches == (owner :> {}) @@ (manager :> {"BOM"}) @@ (colleague :> {"NBO"}) @@ (employee :> {"BOM"})
MCSupers   == {owner}
MCSymmetry == Permutations(Handlers)

ASSUME SuggestionsAreAccepted
=============================================================================
