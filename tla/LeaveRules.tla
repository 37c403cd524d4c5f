----------------------------- MODULE LeaveRules -----------------------------
(***************************************************************************)
(* The data of the leave subsystem and the rules its services apply to it: *)
(* who may act on a leave request, when two requests overlap, which        *)
(* balance an approval is charged to and how a balance is written.  The    *)
(* rules are pure; LeaveLedger runs them one service call at a time and    *)
(* LeaveConcurrent one database statement at a time.                       *)
(***************************************************************************)
EXTENDS Integers, FiniteSets

CONSTANTS
  Employees,      \* ids of the existing hr_employees rows
  Manager,        \* hr_employees.manager_id of each of them, or Nobody
  Nobody,         \* SQL NULL in a column that holds a person
  RequestIds,     \* ids a leave_requests row may be created with
  BalanceIds,     \* ids a leave_balances row may be created with
  NoRow,          \* marks an id with no row in its table
  Days,           \* calendar days, numbered so that the next day is + 1
  YearOf,         \* calendar year of each day
  ClientStatuses, \* status strings the clients send in PUT bodies
  MaxAllocation   \* bound of the model on allocated_days

ASSUME PeopleAssumption ==
  /\ Nobody \notin Employees
  /\ Manager \in [Employees -> Employees \cup {Nobody}]
  /\ \A e \in Employees : Manager[e] # e

ASSUME CalendarAssumption ==
  /\ Days \subseteq Int
  /\ \A d \in Days : YearOf[d] \in Int

ASSUME StatusAssumption == ClientStatuses \subseteq STRING

ASSUME BoundAssumption == MaxAllocation \in Nat

Years == {YearOf[d] : d \in Days}

ApprovalStatus == {"approved", "rejected"}
Statuses == {"pending"} \cup ApprovalStatus \cup ClientStatuses

LeaveRequest ==
  [ employee_id : Employees,
    start_date  : Days,
    end_date    : Days,
    status      : Statuses,
    approved_by : Employees \cup {Nobody} ]

LeaveBalance ==
  [ employee_id    : Employees,
    period_year    : Years,
    allocated_days : Int,
    used_days      : Int,
    remaining_days : Int ]

ASSUME NoRowAssumption == NoRow \notin LeaveRequest \cup LeaveBalance

Rows(table) == {id \in DOMAIN table : table[id] # NoRow}

-----------------------------------------------------------------------------
(* Requests *)

\* Leave Authorization Policy: owner only.
Owns(caller, request) == caller = request.employee_id

\* Approval Authorization Policy: the requester's direct manager.
Manages(caller, request) == caller = Manager[request.employee_id]

IsApproved(row) == row # NoRow /\ row.status = "approved"

\* A request as create_leave_request stores it.
NewRequest(employee, start, end) ==
  [ employee_id |-> employee, start_date |-> start, end_date |-> end,
    status |-> "pending", approved_by |-> Nobody ]

\* Mutant of Edits: the date range is not checked.
EditsUnchecked(request) ==
  [ employee_id : Employees, start_date : Days, end_date : Days,
    status : {request.status} \cup ClientStatuses, approved_by : {request.approved_by} ]

\* What a PUT may turn a pending request into: any subset of the client's
\* fields replaced, the date range still in order.  The status may be any
\* string the schema lets through; approved_by is not a client field.
Edits(request) ==
  { new \in [ employee_id : Employees, start_date : Days, end_date : Days,
              status : {request.status} \cup ClientStatuses,
              approved_by : {request.approved_by} ] :
      new.start_date <= new.end_date }

\* Mutant of Decided: the approver is forgotten.
DecidedUnsigned(request, outcome, approver) == [request EXCEPT !.status = outcome]

Decided(request, outcome, approver) ==
  [request EXCEPT !.status = outcome, !.approved_by = approver]

Overlap(a, b) ==
  /\ a.employee_id = b.employee_id
  /\ a.start_date <= b.end_date
  /\ a.end_date >= b.start_date

\* Mutant of ApprovedOverlaps: end dates taken as exclusive.
ApprovedOverlapsExclusive(table, id, request) ==
  { other \in Rows(table) \ {id} :
      /\ IsApproved(table[other]) /\ Overlap(request, table[other])
      /\ table[other].end_date # request.start_date }

\* find_overlapping, narrowed to the approved rows as its caller does.
ApprovedOverlaps(table, id, request) ==
  { other \in Rows(table) \ {id} :
      IsApproved(table[other]) /\ Overlap(request, table[other]) }

WithinOneYear(request) == YearOf[request.start_date] = YearOf[request.end_date]

DayCount(request) == request.end_date - request.start_date + 1

-----------------------------------------------------------------------------
(* Balances *)

BalancesFor(table, request) ==
  { id \in Rows(table) :
      /\ table[id].employee_id = request.employee_id
      /\ table[id].period_year = YearOf[request.start_date] }

\* Amounts an administrator may send; the negative one stands for all that the
\* services refuse.
Allocations == -1 .. MaxAllocation

NewBalance(employee, year, days) ==
  [ employee_id |-> employee, period_year |-> year, allocated_days |-> days,
    used_days |-> 0, remaining_days |-> days ]

ValidNonNegative(balance) ==
  balance.allocated_days >= 0 /\ balance.used_days >= 0 /\ balance.remaining_days >= 0

\* Mutant of CanDeduct: the balance is compared before the deduction.
CanDeductFirst(balance, days) == balance.remaining_days >= 0

CanDeduct(balance, days) == balance.remaining_days - days >= 0

\* Mutant of Deduct: the last day of the leave forgotten.
DeductExclusive(balance, days) ==
  [balance EXCEPT !.used_days = @ + days - 1, !.remaining_days = @ - days + 1]

Deduct(balance, days) ==
  [balance EXCEPT !.used_days = @ + days, !.remaining_days = @ - days]

\* Mutant of BalanceEdits: allocated_days replaced, nothing recomputed.
BalanceEditsStale(balance) == {[balance EXCEPT !.allocated_days = n] : n \in 0 .. MaxAllocation}

\* What an administrator's PUT may turn a balance into.  A body that names
\* allocated_days recomputes remaining_days from the used_days that was read;
\* one that does not leaves both as they are.
BalanceEdits(balance) ==
  LET amounts == {balance.allocated_days} \cup Allocations IN
  { new \in
      [ employee_id    : Employees,
        period_year    : Years,
        allocated_days : amounts,
        used_days      : {balance.used_days},
        remaining_days : {balance.remaining_days} \cup
                         {n - balance.used_days : n \in amounts} ] :
      /\ \/ /\ new.allocated_days = balance.allocated_days
            /\ new.remaining_days = balance.remaining_days
         \/ new.remaining_days = new.allocated_days - new.used_days
      /\ ValidNonNegative(new) }
=============================================================================
