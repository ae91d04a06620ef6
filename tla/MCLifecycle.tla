---------------------------- MODULE MCLifecycle ----------------------------
(* Small instances of Lifecycle.                                           *)
EXTENDS Lifecycle, TLC

AllOps == OpNames
Symmetry == Permutations(Procs)

(* What Spec is when Conditional is empty.                                 *)
CallNext == \E p \in Procs : Call(p)
CallSpec == Init /\ [][CallNext]_vars
=============================================================================
