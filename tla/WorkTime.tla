------------------------------ MODULE WorkTime ------------------------------
(***************************************************************************)
(* Working time: attendance events, which are never changed but corrected  *)
(* by new ones; the payroll runs that lock the days they cover, and the    *)
(* payslips and deductions that hold a run; holidays; leave and overtime   *)
(* requests and timesheets with the manager's decision; and the            *)
(* reconciliation payroll reads from all of them.  Days are numbers; a     *)
(* client's time is its UTC day and the day it reads in its own offset.    *)
(***************************************************************************)
EXTENDS Callers

CONSTANTS
  Handlers, Requests, MaxRequests,
  Database,         \* the database the system starts from
  Months,           \* the calendar months, as pairs of first and last day
  Year(_)           \* the calendar year of a day

VARIABLES db, lastId, handler, handled

WorkTimeTables ==
  {"users", "hr_employees", "shifts", "attendance_events", "payroll_runs",
   "holidays", "overtime_requests", "timesheets", "leave_requests",
   "payslips", "deductions"}

-----------------------------------------------------------------------------
(* Constraints *)

AttendanceKeys ==
  References("attendance_events", {"employee_id"}, "hr_employees", "restrict")
  \cup References("attendance_events", {"shift_id"}, "shifts", "restrict")
  \cup References("attendance_events", {"corrects_id"}, "attendance_events", "restrict")

RequestKeys(t) ==
  References(t, {"employee_id"}, "hr_employees", "restrict")
  \cup References(t, {"approved_by"}, "users", "restrict")

OvertimeKeys == RequestKeys("overtime_requests")
TimesheetKeys == RequestKeys("timesheets")

LeaveKeys == RequestKeys("leave_requests")

PaidKeys(t) ==
  References(t, {"employee_id"}, "hr_employees", "restrict")
  \cup References(t, {"payroll_run_id"}, "payroll_runs", "restrict")

PayslipKeys == PaidKeys("payslips")
DeductionKeys == PaidKeys("deductions")

WorkTimeForeignKeys ==
  AttendanceKeys \cup OvertimeKeys \cup TimesheetKeys \cup LeaveKeys
  \cup PayslipKeys \cup DeductionKeys

PayrollRunKeys == {Unique("payroll_runs", {"code"})}
HolidayKeys == {Unique("holidays", {"code"}), Unique("holidays", {"holiday_date"})}
WorkTimeUniqueKeys == PayrollRunKeys \cup HolidayKeys

\* The NOT NULL columns of the tables that requests write.
WorkTimeRequired ==
  [ attendance_events |-> {"employee_id", "shift_id", "event_type", "event_time", "source"},
    payroll_runs |-> {"code", "name", "status"},
    holidays |-> {"code", "name", "holiday_date"},
    overtime_requests |-> {"employee_id", "overtime_date", "start_time", "end_time", "status"},
    timesheets |-> {"employee_id", "start_date", "end_date", "status"},
    leave_requests |-> {"employee_id", "start_date", "end_date", "status"},
    payslips |-> {"employee_id", "payroll_run_id"} ]

-----------------------------------------------------------------------------
(* Who calls *)

WorkTimePermitted(d, r) ==
  /\ IsUser(d, r.by)
  /\ r.table \in {"payroll_runs", "holidays"} => IsAdmin(d, r.by)
  /\ r.table \in {"attendance_events", "leave_requests", "payslips"}
       \/ r.op \in {"approve", "reject"} => HasContext(d, r.by)

-----------------------------------------------------------------------------
(* Attendance events *)

\* Mutant of Locked: only a completed run locks its days.
LockedByCompleted(d, day) ==
  \E run \in DOMAIN d["payroll_runs"] :
    LET p == d["payroll_runs"][run] IN
    p.period_start <= day /\ day <= p.period_end /\ p.status = "COMPLETED"

\* A payroll run that covers the day, in any currency, has left DRAFT.
Locked(d, day) ==
  \E run \in DOMAIN d["payroll_runs"] :
    LET p == d["payroll_runs"][run] IN
    p.period_start <= day /\ day <= p.period_end /\ p.status # "DRAFT"

\* The date of a new event is read in the offset the client sent.
AttendanceCreate(d, r) ==
  LET v == r.values IN
  Raise(~Exists(d, "hr_employees", v.employee_id), "EmployeeNotFound")
  \cup Raise(~Exists(d, "shifts", v.shift_id), "ShiftNotFound")
  \cup Raise(~Owner(d, r, v.employee_id), "AttendanceAuthorizationDenied")
  \cup Raise(Locked(d, v.event_time.local), "AttendanceEventLocked")

AttendanceUpdate(d, r) ==
  LET event == d["attendance_events"][r.id] IN
  Raise(~Owner(d, r, event.employee_id), "AttendanceAuthorizationDenied")
  \cup Raise(Locked(d, event.event_time), "AttendanceEventLocked")
  \cup Raise("shift_id" \in DOMAIN r.values /\ ~Exists(d, "shifts", r.values.shift_id),
             "ShiftNotFound")

\* The lock of the original's day; the day it is corrected to is not looked at.
AttendanceCorrect(d, r) ==
  LET original == d["attendance_events"][r.id] IN
  Raise(~Owner(d, r, original.employee_id), "AttendanceAuthorizationDenied")
  \cup Raise(Locked(d, original.event_time), "AttendanceEventLocked")

\* Mutant of AttendanceDelete: the owner deletes.
AttendanceDeleteByOwner(d, r) ==
  Raise(~Owner(d, r, d["attendance_events"][r.id].employee_id), "AttendanceAuthorizationDenied")

AttendanceDelete(d, r) ==
  Raise(~Owner(d, r, d["attendance_events"][r.id].employee_id), "AttendanceAuthorizationDenied")
  \cup {"AttendanceEventDeletionNotAllowed"}

AttendanceErrors(d, r) ==
  CASE r.op = "create" -> AttendanceCreate(d, r)
    [] r.op = "update" -> AttendanceUpdate(d, r)
    [] r.op = "correct" -> AttendanceCorrect(d, r)
    [] r.op = "delete" -> AttendanceDelete(d, r)

\* The columns, an aware time stored as its UTC day.
InUtc(v) ==
  IF "event_time" \in DOMAIN v /\ v.event_time # Null
  THEN [v EXCEPT !.event_time = v.event_time.utc] ELSE v

\* The event that corrects row id: what was not sent is as in the original.
Correction(original, id, v) == [Patched(original, InUtc(v)) EXCEPT !.corrects_id = id]

AttendanceAssigned(d, r) ==
  IF r.op = "correct" THEN Correction(d["attendance_events"][r.id], r.id, r.values)
  ELSE IF r.op = "create" THEN Patched(InUtc(r.values), [corrects_id |-> Null])
  ELSE r.values

-----------------------------------------------------------------------------
(* Payroll runs and holidays *)

\* Mutant of ValidPeriod: the last day is not compared.
ValidFirstDay(first, last) == \E month \in Months : first = month[1] /\ first <= last

ValidPeriod(first, last) == <<first, last>> \in Months

FindOverlappingPeriod(d, currency, first, last) ==
  {run \in DOMAIN d["payroll_runs"] :
     LET p == d["payroll_runs"][run] IN
     p.currency = currency /\ p.period_start <= last /\ p.period_end >= first}

PayrollRunCreate(d, v) ==
  Raise(~ValidPeriod(v.period_start, v.period_end), "InvalidPayrollPeriod")
  \cup Raise(Taken(d, "payroll_runs", 0, {"code"}, v), "DuplicatePayrollRunCode")
  \cup Raise(FindOverlappingPeriod(d, v.currency, v.period_start, v.period_end) # {},
             "OverlappingPayrollRunPeriod")

PayrollRunUpdate(d, id, v) ==
  Raise("code" \in DOMAIN v /\ Taken(d, "payroll_runs", id, {"code"}, v),
        "DuplicatePayrollRunCode")

PayslipsOf(d, run) == {p \in DOMAIN d["payslips"] : d["payslips"][p].payroll_run_id = run}

\* The run has a second payslip: a lookup by the run finds more than one row.
ManyPayslips(d, run) == \E p, q \in PayslipsOf(d, run) : p # q

\* Mutant of PayrollRunDelete: nobody looks for payslips.
PayrollRunDeleteBlindly(d, id) == {}

\* Refused for one payslip; of several, the lookup itself raises.
PayrollRunDelete(d, id) ==
  Raise(PayslipsOf(d, id) # {} /\ ~ManyPayslips(d, id), "PayrollRunHasPayslips")
  \cup Raise(ManyPayslips(d, id), "MultipleResultsFound")

PayrollRunErrors(d, r) ==
  LET status == d["payroll_runs"][r.id].status IN
  CASE r.op = "create" -> PayrollRunCreate(d, r.values)
    [] r.op = "update" -> PayrollRunUpdate(d, r.id, r.values)
    [] r.op = "delete" -> PayrollRunDelete(d, r.id)
    [] r.op = "start_processing" ->
         Raise(status = "COMPLETED", "InvalidPayrollRunTransition")
    [] r.op = "complete" ->
         Raise(status # "PROCESSING", "InvalidPayrollRunTransition")

PayrollRunAssigned(r) ==
  CASE r.op = "create" -> Patched(r.values, [status |-> "DRAFT"])
    [] r.op = "start_processing" -> [status |-> "PROCESSING"]
    [] r.op = "complete" -> [status |-> "COMPLETED"]
    [] OTHER -> r.values

\* A payslip that its employee posts.  (The batch of a run writes and deletes the
\* others, in module PayrollBatch; nothing but the initial data writes deductions.)
PayslipErrors(d, r) ==
  LET v == r.values IN
  Raise(~Exists(d, "hr_employees", v.employee_id), "EmployeeNotFound")
  \cup Raise(~Exists(d, "payroll_runs", v.payroll_run_id), "PayrollRunNotFound")
  \cup Raise(~Owner(d, r, v.employee_id), "PayslipAuthorizationDenied")

HolidayCreate(d, v) ==
  Raise(Taken(d, "holidays", 0, {"code"}, v), "DuplicateHolidayCode")
  \cup Raise(Taken(d, "holidays", 0, {"holiday_date"}, v), "DuplicateHolidayDate")

HolidayUpdate(d, id, v) ==
  Raise("code" \in DOMAIN v /\ Taken(d, "holidays", id, {"code"}, v), "DuplicateHolidayCode")
  \cup Raise("holiday_date" \in DOMAIN v /\ Taken(d, "holidays", id, {"holiday_date"}, v),
             "DuplicateHolidayDate")

HolidayErrors(d, r) ==
  CASE r.op = "create" -> HolidayCreate(d, r.values)
    [] r.op = "update" -> HolidayUpdate(d, r.id, r.values)
    [] r.op = "delete" -> {}

-----------------------------------------------------------------------------
(* Overtime and leave requests and timesheets, and the decisions of ApprovalService *)

OvertimeRequestCreate(d, v) ==
  Raise(~Exists(d, "hr_employees", v.employee_id), "EmployeeNotFound")
  \cup Raise(v.end_time <= v.start_time, "InvalidOvertimeTimeRange")

OvertimeRequestDelete(d, id) ==
  Raise(d["overtime_requests"][id].status # "pending", "InvalidOvertimeRequestState")

OvertimeRequestUpdate(d, id, v) ==
  LET row == Patched(d["overtime_requests"][id], v) IN
  OvertimeRequestDelete(d, id)
  \cup Raise("employee_id" \in DOMAIN v /\ ~Exists(d, "hr_employees", v.employee_id),
             "EmployeeNotFound")
  \cup Compare(row.end_time, row.start_time, row.end_time <= row.start_time,
               "InvalidOvertimeTimeRange")

OvertimeRequestErrors(d, r) ==
  CASE r.op = "create" -> OvertimeRequestCreate(d, r.values)
    [] r.op = "update" -> OvertimeRequestUpdate(d, r.id, r.values)
    [] r.op = "delete" -> OvertimeRequestDelete(d, r.id)

TimesheetCreate(d, v) ==
  Raise(~Exists(d, "hr_employees", v.employee_id), "EmployeeNotFound")
  \cup Raise(v.end_date < v.start_date, "InvalidTimesheetDateRange")

TimesheetDelete(d, id) ==
  Raise(d["timesheets"][id].status # "pending", "InvalidTimesheetState")

TimesheetUpdate(d, id, v) ==
  LET row == Patched(d["timesheets"][id], v) IN
  TimesheetDelete(d, id)
  \cup Raise("employee_id" \in DOMAIN v /\ ~Exists(d, "hr_employees", v.employee_id),
             "EmployeeNotFound")
  \cup Compare(row.end_date, row.start_date, row.end_date < row.start_date,
               "InvalidTimesheetDateRange")

TimesheetErrors(d, r) ==
  CASE r.op = "create" -> TimesheetCreate(d, r.values)
    [] r.op = "update" -> TimesheetUpdate(d, r.id, r.values)
    [] r.op = "delete" -> TimesheetDelete(d, r.id)

LeaveRequestCreate(d, r) ==
  LET v == r.values IN
  Raise(~Exists(d, "hr_employees", v.employee_id), "EmployeeNotFound")
  \cup Raise(~Owner(d, r, v.employee_id), "LeaveAuthorizationDenied")
  \cup Raise(v.end_date < v.start_date, "InvalidLeaveDateRange")

LeaveRequestUpdate(d, r) ==
  LET leave == d["leave_requests"][r.id]
      row == Patched(leave, r.values) IN
  Raise(~Owner(d, r, leave.employee_id), "LeaveAuthorizationDenied")
  \cup Raise(leave.status # "pending", "InvalidLeaveRequestState")
  \cup Raise("employee_id" \in DOMAIN r.values /\ ~Exists(d, "hr_employees", row.employee_id),
             "EmployeeNotFound")
  \cup Compare(row.end_date, row.start_date, row.end_date < row.start_date,
               "InvalidLeaveDateRange")

\* A rejected leave can be deleted, unlike a rejected request of the other kinds.
LeaveRequestDelete(d, r) ==
  LET leave == d["leave_requests"][r.id] IN
  Raise(~Owner(d, r, leave.employee_id), "LeaveAuthorizationDenied")
  \cup Raise(leave.status = "approved", "InvalidLeaveRequestState")

LeaveRequestErrors(d, r) ==
  CASE r.op = "create" -> LeaveRequestCreate(d, r)
    [] r.op = "update" -> LeaveRequestUpdate(d, r)
    [] r.op = "delete" -> LeaveRequestDelete(d, r)

BalanceErrors == {"LeaveBalanceNotFound", "AmbiguousLeaveBalance", "NegativeLeaveBalance"}

\* What stops the approval of a leave after its row was flushed; all is rolled
\* back.  What the employee's balances of the year say comes with the request:
\* they are kept in module LeaveLedger.
SyncLeaveBalance(d, r) ==
  LET leaves == d["leave_requests"]  leave == leaves[r.id] IN
  Raise(Year(leave.start_date) # Year(leave.end_date), "CrossYearLeaveRequest")
  \cup Raise(\E other \in DOMAIN leaves \ {r.id} :
               /\ leaves[other].employee_id = leave.employee_id
               /\ leaves[other].status = "approved"
               /\ leaves[other].start_date <= leave.end_date
               /\ leaves[other].end_date >= leave.start_date,
             "OverlappingLeaveRequest")
  \cup r.values.balance

\* The approver is the manager of the employee the request is for.
Authorize(d, r) ==
  LET requester == d[r.table][r.id].employee_id IN
  d["hr_employees"][requester].manager_id = Caller(d, r.by)

\* Mutant of DecisionErrors: a decided request is decided again.
DecisionErrorsAgain(d, r) == Raise(~Authorize(d, r), "ApprovalAuthorizationDenied")

DecisionErrors(d, r) ==
  Raise(~Authorize(d, r), "ApprovalAuthorizationDenied")
  \cup Raise(d[r.table][r.id].status # "pending", "InvalidApprovalState")

\* What a manager decides.
Decided == {"overtime_requests", "timesheets", "leave_requests"}

\* New requests are pending; an update assigns whatever the client sent, the
\* status included.
RequestAssigned(r) ==
  CASE r.op = "create" -> Patched(r.values, [status |-> "pending", approved_by |-> Null])
    [] r.op = "approve" -> [status |-> "approved", approved_by |-> r.by]
    [] r.op = "reject" -> [status |-> "rejected", approved_by |-> r.by]
    [] OTHER -> r.values

-----------------------------------------------------------------------------
(* Reconciliation: what payroll pays a day for *)

\* Events nobody corrected.
Authoritative(d, employee) ==
  {e \in DOMAIN d["attendance_events"] :
     /\ d["attendance_events"][e].employee_id = employee
     /\ \A c \in DOMAIN d["attendance_events"] : d["attendance_events"][c].corrects_id # e}

Reconcile(d, employee, day) ==
  IF \E h \in DOMAIN d["holidays"] : d["holidays"][h].holiday_date = day THEN "holiday"
  ELSE IF \E l \in DOMAIN d["leave_requests"] :
            LET leave == d["leave_requests"][l] IN
            /\ leave.employee_id = employee /\ leave.status = "approved"
            /\ leave.start_date <= day /\ day <= leave.end_date THEN "leave"
  ELSE IF \E e \in Authoritative(d, employee) : d["attendance_events"][e].event_time = day
  THEN "present" ELSE "absent"

-----------------------------------------------------------------------------
(* Specification *)

WorkTimeErrors(d, r) ==
  IF r.op \in {"approve", "reject"}
  THEN DecisionErrors(d, r)
       \cup (IF r.table = "leave_requests" /\ r.op = "approve" THEN SyncLeaveBalance(d, r) ELSE {})
  ELSE CASE r.table = "attendance_events" -> AttendanceErrors(d, r)
         [] r.table = "payroll_runs" -> PayrollRunErrors(d, r)
         [] r.table = "holidays" -> HolidayErrors(d, r)
         [] r.table = "overtime_requests" -> OvertimeRequestErrors(d, r)
         [] r.table = "timesheets" -> TimesheetErrors(d, r)
         [] r.table = "leave_requests" -> LeaveRequestErrors(d, r)
         [] r.table = "payslips" -> PayslipErrors(d, r)

WorkTimeAssigned(d, r) ==
  CASE r.table = "attendance_events" -> AttendanceAssigned(d, r)
    [] r.table = "payroll_runs" -> PayrollRunAssigned(r)
    [] r.table \in {"holidays", "payslips"} -> r.values
    [] r.table \in Decided -> RequestAssigned(r)

AttendanceRoutes ==
  LET write == {"EmployeeNotFound", "ShiftNotFound", "AttendanceAuthorizationDenied",
                "AttendanceEventLocked"} IN
  [ create |-> write, update |-> write,
    correct |-> {"AttendanceAuthorizationDenied", "AttendanceEventLocked"},
    delete |-> {"AttendanceAuthorizationDenied", "AttendanceEventDeletionNotAllowed"} ]

\* The process route calls start_processing and complete.
PayrollRunRoutes ==
  [ create |-> {"DuplicatePayrollRunCode", "InvalidPayrollPeriod", "OverlappingPayrollRunPeriod"},
    update |-> {"DuplicatePayrollRunCode"}, delete |-> {"PayrollRunHasPayslips"},
    start_processing |-> {"InvalidPayrollRunTransition"},
    complete |-> {"InvalidPayrollRunTransition"} ]

HolidayRoutes ==
  LET write == {"DuplicateHolidayCode", "DuplicateHolidayDate"} IN
  [ create |-> write, update |-> write, delete |-> {} ]

DecisionRoute == {"ApprovalAuthorizationDenied", "InvalidApprovalState"}

OvertimeRequestRoutes ==
  [ create |-> {"EmployeeNotFound", "InvalidOvertimeTimeRange"},
    update |-> {"EmployeeNotFound", "InvalidOvertimeTimeRange", "InvalidOvertimeRequestState"},
    delete |-> {"InvalidOvertimeRequestState"},
    approve |-> DecisionRoute, reject |-> DecisionRoute ]

TimesheetRoutes ==
  [ create |-> {"EmployeeNotFound", "InvalidTimesheetDateRange"},
    update |-> {"EmployeeNotFound", "InvalidTimesheetDateRange", "InvalidTimesheetState"},
    delete |-> {"InvalidTimesheetState"},
    approve |-> DecisionRoute, reject |-> DecisionRoute ]

LeaveRequestRoutes ==
  [ create |-> {"EmployeeNotFound", "LeaveAuthorizationDenied", "InvalidLeaveDateRange"},
    update |-> {"EmployeeNotFound", "LeaveAuthorizationDenied", "InvalidLeaveDateRange",
                "InvalidLeaveRequestState"},
    delete |-> {"LeaveAuthorizationDenied", "InvalidLeaveRequestState"},
    approve |-> DecisionRoute
                \cup {"CrossYearLeaveRequest", "OverlappingLeaveRequest"} \cup BalanceErrors,
    reject |-> DecisionRoute ]

PayslipRoutes ==
  [ create |-> {"EmployeeNotFound", "PayrollRunNotFound", "PayslipAuthorizationDenied"} ]

WorkTimeRoutes(r) ==
  CASE r.table = "attendance_events" -> AttendanceRoutes[r.op]
    [] r.table = "payroll_runs" -> PayrollRunRoutes[r.op]
    [] r.table = "holidays" -> HolidayRoutes[r.op]
    [] r.table = "overtime_requests" -> OvertimeRequestRoutes[r.op]
    [] r.table = "timesheets" -> TimesheetRoutes[r.op]
    [] r.table = "leave_requests" -> LeaveRequestRoutes[r.op]
    [] r.table = "payslips" -> PayslipRoutes[r.op]

-----------------------------------------------------------------------------
(* What the program starts from, and what it is asked *)

\* The columns of every row that something below looks at.
Columns ==
  [ users |-> {"admin"}, hr_employees |-> {"user_id", "manager_id"}, shifts |-> {},
    attendance_events |-> {"employee_id", "shift_id", "event_time", "corrects_id"},
    payroll_runs |-> {"code", "currency", "period_start", "period_end", "status"},
    holidays |-> {"code", "holiday_date"},
    overtime_requests |-> {"employee_id", "start_time", "end_time", "status", "approved_by"},
    timesheets |-> {"employee_id", "start_date", "end_date", "status", "approved_by"},
    leave_requests |-> {"employee_id", "start_date", "end_date", "status", "approved_by"},
    payslips |-> {"employee_id", "payroll_run_id"},
    deductions |-> {"employee_id", "payroll_run_id"} ]

\* Those that no creation names: the service sets them.
SetByService == {"corrects_id", "status", "approved_by"}

Operations ==
  [ attendance_events |-> {"create", "update", "correct", "delete"},
    payroll_runs |-> {"create", "update", "delete", "start_processing", "complete"},
    holidays |-> {"create", "update", "delete"},
    overtime_requests |-> {"create", "update", "delete", "approve", "reject"},
    timesheets |-> {"create", "update", "delete", "approve", "reject"},
    leave_requests |-> {"create", "update", "delete", "approve", "reject"},
    payslips |-> {"create"} ]

IsRow(row) == row = [c \in DOMAIN row |-> row[c]]

RunsAreMonths(d) ==
  \A run \in DOMAIN d["payroll_runs"] :
    LET p == d["payroll_runs"][run] IN <<p.period_start, p.period_end>> \in Months

ASSUME MonthsAssumption == Months \subseteq Int \X Int

ASSUME DatabaseAssumption ==
  /\ Database = [t \in WorkTimeTables |-> Database[t]]
  /\ \A t \in WorkTimeTables :
       /\ IsFiniteSet(DOMAIN Database[t])
       /\ DOMAIN Database[t] = 1 .. Cardinality(DOMAIN Database[t])
  /\ \A t \in WorkTimeTables : \A id \in DOMAIN Database[t] :
       IsRow(Database[t][id]) /\ Columns[t] \subseteq DOMAIN Database[t][id]
  /\ ReferencesHold(Database, WorkTimeForeignKeys)
  /\ KeysHold(Database, WorkTimeUniqueKeys)
  /\ RowsComplete(Database, WorkTimeRequired)
  /\ RunsAreMonths(Database)

\* What the request schemas let through.
ASSUME RequestAssumption ==
  \A r \in Requests :
    /\ r.table \in DOMAIN Operations /\ r.op \in Operations[r.table] /\ IsRow(r.values)
    /\ r.op = "create" =>
         /\ Columns[r.table] \ SetByService \subseteq DOMAIN r.values
         /\ Complete(r.values, WorkTimeRequired[r.table])
         /\ r.table = "attendance_events" => r.values.event_time.utc # Null
    /\ r.op = "approve" /\ r.table = "leave_requests" => r.values.balance \subseteq BalanceErrors
    /\ r.op = "update" =>
         /\ {"corrects_id", "approved_by"} \cap DOMAIN r.values = {}
         /\ r.table = "attendance_events" =>
              {"employee_id", "event_time"} \cap DOMAIN r.values = {}
         /\ r.table = "payroll_runs" =>
              {"currency", "period_start", "period_end", "status"} \cap DOMAIN r.values = {}
    /\ r.op = "correct" =>
         {"employee_id", "shift_id", "corrects_id"} \cap DOMAIN r.values = {}

-----------------------------------------------------------------------------
(* Handling a request *)

T == INSTANCE Transactions WITH
       ForeignKeys <- WorkTimeForeignKeys, UniqueKeys <- WorkTimeUniqueKeys,
       Required <- WorkTimeRequired,
       Permitted <- WorkTimePermitted, Errors <- WorkTimeErrors,
       Assigned <- WorkTimeAssigned, Routes <- WorkTimeRoutes

vars == <<db, lastId, handler, handled>>

Init == T!StartWith(Database)
Next == T!Next
Spec == Init /\ [][Next]_vars

-----------------------------------------------------------------------------
(* Properties *)

\* What a handler has checked and is about to write, in the terms of the
\* database as it is by now.
Prepared(d, c) ==
  LET r == c.request IN
  /\ r.table = "attendance_events" => r.op # "delete"
  /\ r.table = "payroll_runs" /\ r.op = "create" =>
       ValidPeriod(r.values.period_start, r.values.period_end)
  /\ r.op # "correct" => c.values = WorkTimeAssigned(d, r)
  /\ r.op = "correct" =>
       LET original == c.loaded IN
       /\ c.values = Correction(original, r.id, r.values)
       /\ IsRow(original) /\ Columns["attendance_events"] \subseteq DOMAIN original
       /\ Exists(d, "attendance_events", r.id)
       /\ original.employee_id = d["attendance_events"][r.id].employee_id

\* The committed tables are sound, whoever wrote them at the same time: every
\* row has an id of its own, every constraint holds, every run is one month;
\* and what a handler is about to write is what it was asked to, by a user
\* that is still there.
TypeOK ==
  /\ db = [t \in WorkTimeTables |-> db[t]]
  /\ lastId \in [WorkTimeTables -> Nat]
  /\ \A t \in WorkTimeTables : DOMAIN db[t] \subseteq 1 .. lastId[t]
  /\ \A t \in WorkTimeTables : \A id \in DOMAIN db[t] :
       IsRow(db[t][id]) /\ Columns[t] \subseteq DOMAIN db[t][id]
  /\ ReferencesHold(db, WorkTimeForeignKeys)
  /\ KeysHold(db, WorkTimeUniqueKeys)
  /\ RowsComplete(db, WorkTimeRequired)
  /\ RunsAreMonths(db)
  /\ DOMAIN handler = Handlers
  /\ \A h \in Handlers : handler[h].at # "idle" =>
       handler[h].request \in Requests /\ IsUser(db, handler[h].request.by)
  /\ \A h \in Handlers : handler[h].at = "checked" => Prepared(db, handler[h])

\* Days of a run whose calculation has started.
Processed(d) ==
  UNION {d["payroll_runs"][run].period_start .. d["payroll_runs"][run].period_end :
         run \in {i \in DOMAIN d["payroll_runs"] :
                   d["payroll_runs"][i].status \in {"PROCESSING", "COMPLETED"}}}

\* What reconciliation says of a locked day - and with it an absence deduction
\* of the run that locked it - is changed by no request whose checks still
\* hold at the write, apart from four that do not look at the lock of that
\* day: a correction to another time, an event in another offset than UTC, the
\* holidays, and the approval of a leave - by the manager, or by a status the
\* employee sends - which may cover days of any run.  (A run that starts between
\* check and write lets any event through: attendance_event.py:221.)
LockedDaysStand ==
  [][\A h \in Handlers : T!Writes(h) /\ T!Current(h) =>
       LET r == handler[h].request IN
       \A day \in Processed(db) :
         \A employee \in DOMAIN db["hr_employees"] :
           \/ Reconcile(db', employee, day) = Reconcile(db, employee, day)
           \/ r.op = "correct" /\ "event_time" \in DOMAIN r.values
           \/ r.op = "create" /\ r.table = "attendance_events"
                /\ r.values.event_time.utc # r.values.event_time.local
           \/ r.table = "holidays"
           \/ /\ r.table = "leave_requests" /\ Reconcile(db', employee, day) = "leave"
              /\ r.op = "approve" \/ (r.op = "update" /\ "status" \in DOMAIN r.values)]_vars

\* Recorded time is never lost, however calls interleave: no event changes its
\* employee or time or goes, and a correction replaces at most one
\* authoritative event of the same employee by another.
HistoryStands ==
  [][LET events == db["attendance_events"]  later == db'["attendance_events"] IN
     /\ \A e \in DOMAIN events :
          /\ e \in DOMAIN later
          /\ later[e].employee_id = events[e].employee_id
          /\ later[e].event_time = events[e].event_time
          /\ later[e].corrects_id = events[e].corrects_id
     /\ \A employee \in DOMAIN db["hr_employees"] :
          Cardinality(Authoritative(db', employee))
            >= Cardinality(Authoritative(db, employee))]_vars

\* A decided overtime request or timesheet stays as it was decided, unless an
\* edit or a second decision had read it pending; and only its manager's
\* decision or a status the client sent makes it approved.
DecisionsStand ==
  [][\A h \in Handlers : T!Writes(h) /\ T!Current(h) =>
       LET r == handler[h].request IN
       \A t \in {"overtime_requests", "timesheets"} :
         /\ \A id \in DOMAIN db[t] :
              db[t][id].status # "pending" => id \in DOMAIN db'[t] /\ db'[t][id] = db[t][id]
         /\ \A id \in DOMAIN db'[t] :
              (db'[t][id].status = "approved"
                 /\ ~(id \in DOMAIN db[t] /\ db[t][id].status = "approved")) =>
              \/ r.op = "update" /\ "status" \in DOMAIN r.values
              \/ r.op = "approve" /\ Authorize(db, r) /\ db'[t][id].approved_by = r.by]_vars

\* Every run is one whole calendar month, and two runs of a currency cover the
\* same day only if one was created between the other's check and its write.
RunsPartitionTime ==
  [][ /\ RunsAreMonths(db')
      /\ \A h \in Handlers : T!Writes(h) /\ T!Current(h) =>
           \A run \in DOMAIN db'["payroll_runs"] \ DOMAIN db["payroll_runs"] :
             LET p == db'["payroll_runs"][run] IN
             \A day \in p.period_start .. p.period_end :
               \A other \in DOMAIN db["payroll_runs"] :
                 LET q == db["payroll_runs"][other] IN
                 q.currency = p.currency => day \notin q.period_start .. q.period_end ]_vars

\* What keeps a run from being deleted although its service finds no error to
\* answer with: a second payslip or a deduction.
HeldUnanswered(d, run) ==
  \/ ManyPayslips(d, run)
  \/ \E i \in DOMAIN d["deductions"] : d["deductions"][i].payroll_run_id = run

\* A request that nobody overtook gets an answer: its route knows every error
\* its service raises, and the keys reject nothing that the service accepted.  Two
\* kinds do not, and end in status 500: deleting a run that has a deduction or more
\* than one payslip (payroll_run.py:181 looks for the payslip); and an update or a
\* correction that sends null for a NOT NULL column.
AnsweredUnlessOvertaken ==
  \A h \in Handlers :
    LET r == handler[h].request IN
    T!Unanswered(h) =>
      \/ r.table = "payroll_runs" /\ r.op = "delete" /\ HeldUnanswered(db, r.id)
      \/ T!SendsNull(db, r)
=============================================================================
