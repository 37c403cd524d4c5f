------------------------ MODULE MCPayslipComputation ------------------------
(***************************************************************************)
(* PayslipComputation for TLC: a period of two days, its eve among the     *)
(* days.  The salaries do not divide evenly by the working days, nor the   *)
(* daily rate by the hours; the working days change on the second day.     *)
(***************************************************************************)
EXTENDS PayslipComputation

MCDays == 0 .. 2

Rate(num, den) == [num |-> num, den |-> den]
Row(key, value, from, to) ==
  [key |-> key, value |-> value, effective_from |-> from, effective_to |-> to]

MCConfigured ==
  { Row("STANDARD_WORKING_DAYS_PER_MONTH", Rate(3, 1), 0, 1),
    Row("STANDARD_DAILY_HOURS", Rate(7, 1), 0, Open),
    Row("OVERTIME_MULTIPLIER_WEEKDAY", Rate(3, 2), 0, Open) }

MCCreatable ==
  { Row("STANDARD_WORKING_DAYS_PER_MONTH", Rate(7, 2), 2, Open),
    Row("STANDARD_WORKING_DAYS_PER_MONTH", Rate(0, 1), 1, 2),
    Row("STATUTORY_TAX_RATE", Rate(1, 8), 1, Open),
    Row("STATUTORY_TAX_RATE", Rate(0, 1), 0, 2) }

Salary(amount, active) ==
  [id |-> "c1", amount |-> amount, currency |-> "usd", is_active |-> active]
Entry(id, amount, currency) == [id |-> id, amount |-> amount, currency |-> currency]

MCPossible ==
  [ run |-> {"open", "completed"},
    compensation |-> {None, Salary(1000, TRUE), Salary(1001, TRUE), Salary(1000, FALSE)},
    allowances |-> {{}, {Entry("a1", 55, "usd"), Entry("a2", 55, "eur")}},
    overtime |-> {0, 90},
    absent |-> {{}, {0, 1, 2}},
    works |-> {{1, 2}, {2}},
    deductions |-> {{}, {Entry("d1", 20, "usd")}} ]
=============================================================================
