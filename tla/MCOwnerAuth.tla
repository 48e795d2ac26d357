---------------------------- MODULE MCOwnerAuth ----------------------------
(* OwnerAuth on an instance whose token doubles as the password; the other  *)
(* words differ only in what the owner makes of them.                       *)
EXTENDS OwnerAuth, TLC

CONSTANTS w1, w2, w3

Others == Permutations({w2, w3})
=============================================================================
