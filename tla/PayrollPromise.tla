--------------------------- MODULE PayrollPromise ---------------------------
(***************************************************************************)
(* What Advanced Payroll promises about the results of its runs (decisions *)
(* D9 and E5): until a run is completed it has no results anyone may rely  *)
(* on, however often it is recalculated; completing it publishes one       *)
(* payslip per paid employee, all at once; and what is published stays.    *)
(***************************************************************************)
EXTENDS Naturals

CONSTANTS
  Employees,
  RunIds,
  Unpublished     \* the result of a run that is not completed

VARIABLE published  \* payslips each run shows each employee, or Unpublished

Init == published = [r \in RunIds |-> Unpublished]

\* Who is paid is the business of the calculation; nobody is paid twice.
Publish(r) ==
  /\ published[r] = Unpublished
  /\ \E paid \in SUBSET Employees :
       published' = [published EXCEPT
                       ![r] = [e \in Employees |-> IF e \in paid THEN 1 ELSE 0]]

\* A completed run that paid nobody may still be deleted.
Withdraw(r) ==
  /\ published[r] = [e \in Employees |-> 0]
  /\ published' = [published EXCEPT ![r] = Unpublished]

Next == \E r \in RunIds : Publish(r) \/ Withdraw(r)

Spec == Init /\ [][Next]_published
=============================================================================
