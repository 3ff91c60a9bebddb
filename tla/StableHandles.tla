---------------------------- MODULE StableHandles ----------------------------
(***************************************************************************)
(* What the manipulation API promises of one index space: the IDs it       *)
(* returns are handles.  A handle is allocated once, keeps its meaning     *)
(* until the caller deletes or rebinds that very handle, and the encoded   *)
(* binary, read through the ID fix-ups of the encoder, gives each handle   *)
(* its meaning ("this library will take care of ID changes for you during  *)
(* encoding", src/src/ir/module/mod.rs).                                   *)
(***************************************************************************)
EXTENDS Integers, Sequences

CONSTANTS
    Gone,        \* what a deleted handle stands for
    CanRebind    \* TRUE if the space has conversions (functions only)
VARIABLES
    bound,       \* handle -> meaning or Gone
    resolved     \* handle -> what the encoded binary gives it

Meanings == {bound[h] : h \in DOMAIN bound}
Promise == resolved' = bound'

Init == resolved = bound

Allocate ==
    /\ Len(bound') = Len(bound) + 1
    /\ bound' = Append(bound, bound'[Len(bound) + 1])
    /\ bound'[Len(bound) + 1] \notin Meanings \cup {Gone}

Delete(h) == bound' = [bound EXCEPT ![h] = Gone]

Rebind(h) ==
    /\ CanRebind
    /\ bound' = [bound EXCEPT ![h] = bound'[h]]
    /\ bound'[h] \notin Meanings \cup {Gone}

Next ==
    /\ Allocate \/ \E h \in DOMAIN bound : Delete(h) \/ Rebind(h)
    /\ Promise

Spec == Init /\ [][Next]_<<bound, resolved>>
=============================================================================
