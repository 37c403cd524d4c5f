--------------------------- MODULE MCLeaveLedger ---------------------------
(* LeaveLedger for TLC: two employees, one of them managing the other, and *)
(* three days of which the last is in the next year.                       *)
EXTENDS LeaveLedger, TLC

CONSTANTS ana, mia

MCManager == ana :> mia @@ mia :> Nobody
MCDays == 1 .. 3
MCYearOf == 1 :> 1 @@ 2 :> 1 @@ 3 :> 2

Alike == Permutations(RequestIds) \cup Permutations(BalanceIds)
=============================================================================
