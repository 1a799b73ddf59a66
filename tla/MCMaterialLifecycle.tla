-------------------------- MODULE MCMaterialLifecycle --------------------------
(* Small instances of MaterialLifecycle for TLC. *)
EXTENDS MaterialLifecycle, TLC

\* Requests are interchangeable, and so are credentials of one kind.
Symmetry == Permutations(Request) \cup Permutations(Cred)
================================================================================
