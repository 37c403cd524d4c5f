----------------------------- MODULE MCWorkTime -----------------------------
(* WorkTime for TLC: two months of two days, an administrator who manages   *)
(* the one employee with attendance, one row or two of everything.          *)
EXTENDS WorkTime, TLC

MCMonths == {<<1, 2>>, <<3, 4>>}
MCYear(day) == IF day <= 3 THEN 1 ELSE 2

Event(employee, time) == [employee_id |-> employee, shift_id |-> 1, event_time |-> time]
Run(code, currency, first, last) ==
  [code |-> code, currency |-> currency, period_start |-> first, period_end |-> last]
Overtime(first, last) == [employee_id |-> 2, start_time |-> first, end_time |-> last]
Timesheet(first, last) == [employee_id |-> 2, start_date |-> first, end_date |-> last]
Leave(employee, first, last) == [employee_id |-> employee, start_date |-> first, end_date |-> last]
Payslip(employee, run) == [employee_id |-> employee, payroll_run_id |-> run]
Pending(row) == row @@ [status |-> "pending", approved_by |-> Null]
At(day) == "event_time" :> [utc |-> day, local |-> day]

MCDatabase ==
  [ users |-> << [admin |-> TRUE], [admin |-> FALSE] >>,
    hr_employees |-> << [user_id |-> 1, manager_id |-> Null],
                        [user_id |-> 2, manager_id |-> 1] >>,
    shifts |-> << [code |-> "early"], [code |-> "late"] >>,
    attendance_events |-> << Event(2, 1) @@ "corrects_id" :> Null,
                             Event(2, 3) @@ "corrects_id" :> Null >>,
    payroll_runs |-> << Run("x", "idr", 1, 2) @@ "status" :> "DRAFT",
                        Run("u", "eur", 3, 4) @@ "status" :> "DRAFT" >>,
    holidays |-> << [code |-> "h", holiday_date |-> 4] >>,
    overtime_requests |-> << Pending(Overtime(17, 19)) >>,
    timesheets |-> << Pending(Timesheet(1, 2)) >>,
    leave_requests |-> << Pending(Leave(2, 2, 3)),
                          [Pending(Leave(1, 2, 2)) EXCEPT !.status = "approved"] >>,
    payslips |-> <<>>,
    deductions |-> << Payslip(1, 2) >> ]

Ask(user, op, table, id, values) ==
  [by |-> user, op |-> op, table |-> table, id |-> id, values |-> values]

AttendanceRequests ==
  { Ask(2, "create", "attendance_events", 0, [Event(2, 0) EXCEPT !.event_time = [utc |-> u, local |-> l]]) :
      <<u, l>> \in {<<1, 1>>, <<2, 3>>, <<3, 3>>} }
  \cup { Ask(2, "create", "attendance_events", 0, Event(1, [utc |-> 2, local |-> 2])),
         Ask(2, "correct", "attendance_events", 1, [source |-> "manual"]),
         Ask(2, "correct", "attendance_events", 1, At(3)),
         Ask(2, "correct", "attendance_events", 2, At(1)),
         Ask(2, "correct", "attendance_events", 3, At(2)),
         Ask(1, "correct", "attendance_events", 1, At(2)),
         Ask(2, "update", "attendance_events", 1, [shift_id |-> 2]),
         Ask(2, "update", "attendance_events", 3, [shift_id |-> 3]),
         Ask(2, "correct", "attendance_events", 1, [event_time |-> Null]),
         Ask(2, "delete", "attendance_events", 1, <<>>) }

RunRequests ==
  { Ask(1, "create", "payroll_runs", 0, Run("y", "idr", 3, 4)),
    Ask(1, "create", "payroll_runs", 0, Run("z", "idr", 3, 4)),
    Ask(1, "create", "payroll_runs", 0, Run("y", "usd", 1, 2)),
    Ask(1, "create", "payroll_runs", 0, Run("w", "usd", 1, 3)),
    Ask(2, "create", "payroll_runs", 0, Run("v", "usd", 3, 4)),
    Ask(1, "update", "payroll_runs", 1, [code |-> "y"]),
    Ask(1, "delete", "payroll_runs", 1, <<>>),
    Ask(1, "start_processing", "payroll_runs", 1, <<>>),
    Ask(1, "complete", "payroll_runs", 1, <<>>),
    Ask(1, "start_processing", "payroll_runs", 2, <<>>),
    Ask(1, "delete", "payroll_runs", 2, <<>>),
    Ask(2, "create", "payslips", 0, Payslip(2, 1)) }

HolidayRequests ==
  { Ask(1, "create", "holidays", 0, [code |-> "i", holiday_date |-> 1]),
    Ask(1, "update", "holidays", 1, [holiday_date |-> 1]),
    Ask(1, "update", "holidays", 1, [code |-> Null]),
    Ask(1, "delete", "holidays", 1, <<>>) }

DecisionRequests ==
  { Ask(user, op, t, 1, <<>>) : user \in {1, 2}, op \in {"approve", "reject"},
                                t \in {"overtime_requests", "timesheets"} }
  \cup { Ask(2, "delete", t, 1, <<>>) : t \in {"overtime_requests", "timesheets"} }
  \cup { Ask(2, "update", t, 1, [status |-> "approved"]) :
           t \in {"overtime_requests", "timesheets"} }
  \cup { Ask(2, "update", "overtime_requests", 1, [end_time |-> 18]),
         Ask(2, "update", "overtime_requests", 1, [start_time |-> 18]),
         Ask(2, "create", "overtime_requests", 0, Overtime(20, 20)),
         Ask(2, "create", "timesheets", 0, Timesheet(3, 3)),
         Ask(2, "update", "timesheets", 1, [end_date |-> 1]),
         Ask(2, "update", "timesheets", 1, [end_date |-> Null]),
         Ask(2, "update", "timesheets", 1, [start_date |-> 2]) }

LeaveRequests ==
  { Ask(2, "create", "leave_requests", 0, Leave(2, 3, 3)),
    Ask(2, "update", "leave_requests", 1, [employee_id |-> 1]),
    Ask(2, "update", "leave_requests", 1, [end_date |-> 4]),
    Ask(2, "update", "leave_requests", 1, [end_date |-> Null]),
    Ask(2, "update", "leave_requests", 1, [status |-> "approved"]),
    Ask(2, "delete", "leave_requests", 1, <<>>),
    Ask(1, "delete", "leave_requests", 2, <<>>),
    Ask(1, "reject", "leave_requests", 1, <<>>),
    Ask(1, "approve", "leave_requests", 1, [balance |-> {"NegativeLeaveBalance"}]) }
  \cup { Ask(1, "approve", "leave_requests", l, [balance |-> {}]) : l \in {1, 3} }

MCRequests == AttendanceRequests \cup RunRequests \cup HolidayRequests \cup DecisionRequests
  \cup LeaveRequests

Alike == Permutations(Handlers)
=============================================================================
