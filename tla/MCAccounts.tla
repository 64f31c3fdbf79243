----------------------------- MODULE MCAccounts -----------------------------
(* Small instances of Accounts. *)
EXTENDS Accounts, TLC

CONSTANTS u1, u2, k1, k2, c1, c2

Symmetry == Permutations(Users) \cup Permutations(Tokens) \cup Permutations(Clients)
=============================================================================
