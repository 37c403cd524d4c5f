------------------------- MODULE MCLeaveConcurrent -------------------------
(* LeaveConcurrent for TLC: an employee and her manager.                   *)
EXTENDS LeaveConcurrent, TLC

CONSTANTS ana, mia

MCManager == ana :> mia @@ mia :> Nobody
MCDays == 1 .. 2
MCOneYear == [d \in MCDays |-> 1]
MCTwoYears == 1 :> 1 @@ 2 :> 2
AllOperations == {"approve", "reject", "create", "edit", "delete",
                  "create_balance", "edit_balance", "delete_balance"}
=============================================================================
