---------------------------- MODULE MCApprovals ----------------------------
(* One request, four people and two handlers in flight: see README.        *)
EXTENDS Approvals, TLC

CONSTANTS owner, manager, colleague, employee

MCUsers  == {owner, manager, colleague, employee}
MCRanks  == (owner :> 1) @@ (manager :> 3) @@ (colleague :> 3) @@ (employee :> 5)
MCBranches == (owner :> {}) @@ (manager :> {"BOM"}) @@ (colleague :> {"NBO"}) @@ (employee :> {"BOM"})
MCSymmetry == Permutations(Handlers)
=============================================================================
