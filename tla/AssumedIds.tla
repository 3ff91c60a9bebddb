------------------------------ MODULE AssumedIds -----------------------------
(***************************************************************************)
(* What the component API promises of the ids it hands out ("assumed ids", *)
(* src/src/ir/component/idx_spaces.rs): in an index space of a scope no    *)
(* two of them stand for the same item, and what an id stands for never    *)
(* changes, whatever is added, redirected, deleted or encoded afterwards.  *)
(***************************************************************************)
VARIABLE bound          \* the ids handed out: [scope, space, id, item]

Clash(x, y) ==
    /\ x.scope = y.scope /\ x.space = y.space
    /\ x.id = y.id \/ x.item = y.item

Init == bound = {}
Allocate ==
    /\ bound \subseteq bound'
    /\ \A x \in bound' \ bound : \A y \in bound' : Clash(x, y) => x = y

Spec == Init /\ [][Allocate]_bound
=============================================================================
