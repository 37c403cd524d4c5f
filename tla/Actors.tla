------------------------------- MODULE Actors -------------------------------
(* Whom payroll is about, and who works on it. *)

CONSTANTS
  Employees,    \* ids of the existing hr_employees rows
  Workers       \* request handlers that run at the same time
=============================================================================
