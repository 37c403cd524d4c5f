------------------------------ MODULE Callers ------------------------------
(***************************************************************************)
(* Who a request comes from: the user, whether the user is an admin (the   *)
(* admin column stands for the role, which module Organization has), and   *)
(* the employee the user is.                                               *)
(***************************************************************************)
EXTENDS Tables

IsUser(d, user) == user \in DOMAIN d["users"]
IsAdmin(d, user) == IsUser(d, user) /\ d["users"][user].admin

EmployeesOf(d, user) ==
  {e \in DOMAIN d["hr_employees"] : d["hr_employees"][e].user_id = user}

\* The employee context of a user: exactly one employee is linked to them.
HasContext(d, user) == IsUser(d, user) /\ Cardinality(EmployeesOf(d, user)) = 1
Caller(d, user) == CHOOSE e \in EmployeesOf(d, user) : TRUE

\* The owner-only policies: the employee a row is about is the caller.
Owner(d, r, employee) == HasContext(d, r.by) /\ Caller(d, r.by) = employee
=============================================================================
