-------------------------- MODULE MCLoginThrottle --------------------------
(* LoginThrottle for TLC: small thresholds and a window of one tick.        *)
EXTENDS LoginThrottle, TLC

Alike == Permutations(Handlers) \cup Permutations(Accounts)
=============================================================================
