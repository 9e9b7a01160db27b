------------------------------- MODULE MCAuth -------------------------------
(* Two candidates and a stranger; calls and passwords are alike.           *)
EXTENDS Auth, TLC

MCSymmetry == Permutations(Calls) \cup Permutations(Passwords)
=============================================================================
