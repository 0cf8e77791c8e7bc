------------------------------- MODULE MCSession -------------------------------
(* Symmetry for TLC: nothing tells the callers, or the accounts, apart.       *)
EXTENDS SessionRaces, TLC

AnyOrder == Permutations(Caller) \cup Permutations(Account)
===============================================================================
