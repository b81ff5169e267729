---------------------------- MODULE MCAlertConfig ---------------------------
(* Symmetry for TLC: clients are interchangeable.  Writes of bindings are  *)
(* unconditional and alike: what follows a second one is left out.         *)
EXTENDS AlertConfig, TLC

CONSTANTS c1, c2, l1, l2, a1

Interchangeable == Permutations({c1, c2})
FewBindingWrites == Latest("bindings") <= 1
=============================================================================
