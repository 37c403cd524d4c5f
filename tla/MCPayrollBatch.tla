--------------------------- MODULE MCPayrollBatch ---------------------------
(* PayrollBatch for TLC. *)
EXTENDS PayrollBatch

AllOperations == {"post_payslip", "deduct", "delete_run"}
=============================================================================
