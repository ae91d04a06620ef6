------------------------------ MODULE MCFastIO ------------------------------
(* Small instances of FastIO.                                              *)
EXTENDS FastIO, TLC

Symmetry == Permutations(Procs)

(* What Spec is when Ops names neither "audit" nor "edit".                 *)
QuietNext == \E p \in Procs : Access(p) \/ Crash(p)
=============================================================================
