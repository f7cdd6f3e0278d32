---------------------------- MODULE MCFeishuAuth ----------------------------
(* An instance of FeishuAuth for TLC. *)
EXTENDS FeishuAuth, TLC

CallerSymmetry == Permutations(Callers)

MCLifetimes == {4}
=============================================================================
