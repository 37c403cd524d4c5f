------------------------- MODULE PayslipComputation -------------------------
(***************************************************************************)
(* PayrollCalculationService.calculate for one employee and one run: what  *)
(* the payslip is made of, and when each part of it is read.  Every read   *)
(* is a transaction of its own - the run, the compensation, the            *)
(* allowances, the overtime, each statutory parameter each time it is      *)
(* needed, the schedule of each absent day, the deductions - so that the   *)
(* other services change the inputs between any two of them.               *)
(*                                                                         *)
(* Amounts are whole cents and not negative; parameters are rationals.     *)
(* Which compensation, allowance or schedule is in force on a date is      *)
(* module EffectiveDating's subject, and which days are absences module    *)
(* WorkTime's: here they are inputs.                                       *)
(***************************************************************************)
EXTENDS Integers, FiniteSetsExt

CONSTANTS
  Days, PeriodStart, PeriodEnd,
  RunCurrency,
  Possible,       \* the values each input may take: a record of sets
  Configured,     \* the statutory parameter rows there are at first
  Creatable,      \* the rows that may be created
  Open,           \* an effective_to that is NULL
  None,           \* no row
  MaxChanges,     \* bound on the calls of other services
  MaxSlips        \* bound on the payslips recorded

ASSUME PeriodAssumption ==
  /\ Days \subseteq Int
  /\ PeriodStart \in Days /\ PeriodEnd \in Days

VARIABLES
  inputs,         \* what the tables of the other services say
  parameters,     \* payroll_statutory_parameters
  posted,         \* the parameter row checked and not yet inserted, or None
  calculation,    \* where calculate is, and what it has read
  payslip,        \* the payslip of the employee and the run, or None
  last,           \* for Reproducible: the last payslip, even if deleted
  changes, slips

vars == <<inputs, parameters, posted, calculation, payslip, last, changes, slips>>

Idle == [at |-> "idle"]

Init ==
  /\ inputs \in [ run : Possible.run, compensation : Possible.compensation,
                  allowances : Possible.allowances, overtime : Possible.overtime,
                  absent : Possible.absent, works : Possible.works,
                  deductions : Possible.deductions ]
  /\ parameters = Configured
  /\ posted = None
  /\ calculation = Idle
  /\ payslip = None
  /\ last = None
  /\ changes = 0
  /\ slips = 0

-----------------------------------------------------------------------------
(* Money *)

\* Mutant of Rounded: the fraction of a cent is cut off.
Truncated(num, den) == num \div den

\* num / den, quantized to whole cents, half up.
Rounded(num, den) == (2 * num + den) \div (2 * den)

Per(amount, rate) == Rounded(amount * rate.den, rate.num)
Times(amount, rate) == Rounded(amount * rate.num, rate.den)

Earnings == {"BASE_SALARY", "ALLOWANCE", "OVERTIME"}
Deducted == {"ATTENDANCE_DEDUCTION", "STATUTORY_DEDUCTION", "NON_STATUTORY_DEDUCTION"}

Line(type, source, amount, currency) ==
  [type |-> type, source |-> source, amount |-> amount, currency |-> currency]

Amount(line) == line.amount
Total(lines, types) == MapThenSumSet(Amount, {l \in lines : l.type \in types})

-----------------------------------------------------------------------------
(* Statutory parameters *)

IsEffective(row, day) ==
  /\ row.effective_from <= day
  /\ row.effective_to = Open \/ row.effective_to >= day

InForce(key, day) == {row \in parameters : row.key = key /\ IsEffective(row, day)}
Value(key, day) == (CHOOSE row \in InForce(key, day) : TRUE).value

\* resolve: no row is an error of its own, several are ambiguous.
Known(key, day) == Cardinality(InForce(key, day)) = 1
Missing(key, day) == InForce(key, day) = {}

\* Mutant of Overlaps: a period is thought to end before its last day.
OverlapsExclusive(old, new) ==
  /\ old.key = new.key
  /\ old.effective_to = Open \/ old.effective_to > new.effective_from
  /\ new.effective_to = Open \/ old.effective_from < new.effective_to

Overlaps(old, new) ==
  /\ old.key = new.key
  /\ old.effective_to = Open \/ old.effective_to >= new.effective_from
  /\ new.effective_to = Open \/ old.effective_from <= new.effective_to

ASSUME RowsAssumption ==
  /\ Open \notin Int /\ None \notin Configured \cup Creatable
  /\ \A row \in Configured \cup Creatable :
       row.effective_from \in Int /\ row.effective_to \in Int \cup {Open}
  /\ \A a, b \in Configured : a # b => ~Overlaps(a, b)

\* Neither amounts nor minutes nor parameters are negative: the lines of a
\* payslip are documented as unsigned.  Nothing checks it; below zero, Rounded
\* would not be what the quantization does.
ASSUME AmountsAssumption ==
  /\ \A c \in Possible.compensation \ {None} : c.amount \in Nat
  /\ \A entries \in Possible.allowances \cup Possible.deductions :
       /\ IsFiniteSet(entries)
       /\ \A e \in entries :
            /\ e = [id |-> e.id, amount |-> e.amount, currency |-> e.currency]
            /\ e.amount \in Nat
  /\ Possible.overtime \subseteq Nat
  /\ \A row \in Configured \cup Creatable :
       row.value.num \in Nat /\ row.value.den \in Nat \ {0}

CheckParameter(row) ==
  /\ posted = None
  /\ \A old \in parameters : ~Overlaps(old, row)
  /\ posted' = row
  /\ UNCHANGED <<inputs, parameters, calculation, payslip, last, changes, slips>>

InsertParameter ==
  /\ posted # None
  /\ parameters' = parameters \cup {posted}
  /\ posted' = None
  /\ UNCHANGED <<inputs, calculation, payslip, last, changes, slips>>

\* Mutant of Described: the update takes a new value as well.
DescribedAnew(row) == [row EXCEPT !.value.num = @ + 1]

\* Nothing but the description of a parameter may be updated.
Described(row) == row

UpdateParameter(row) ==
  /\ changes < MaxChanges
  /\ changes' = changes + 1
  /\ parameters' = (parameters \ {row}) \cup {Described(row)}
  /\ UNCHANGED <<inputs, posted, calculation, payslip, last, slips>>

-----------------------------------------------------------------------------
(* calculate *)

At(point) == calculation.at = point
OnlyCalculation == UNCHANGED <<inputs, parameters, posted, payslip, last, changes, slips>>

\* The exception ends the calculation; nothing was written.
Abandon == calculation' = Idle

GoTo(point) == calculation' = [calculation EXCEPT !.at = point]

AddLines(lines, point) ==
  calculation' = [calculation EXCEPT !.at = point, !.lines = @ \cup lines]

\* The run is there and not COMPLETED.
Calculate ==
  /\ At("idle")
  /\ slips < MaxSlips
  /\ inputs.run = "open"
  /\ calculation' = [at |-> "compensation", began |-> <<changes, parameters>>,
                     lines |-> {}, base |-> 0, rate |-> 0,
                     minutes |-> 0, absent |-> {}, days |-> 0, deducted |-> 0]
  /\ OnlyCalculation

FindCompensation ==
  LET c == inputs.compensation IN
  /\ At("compensation")
  /\ IF c # None /\ c.is_active /\ c.currency = RunCurrency
     THEN calculation' = [calculation EXCEPT !.at = "existing", !.base = c.amount,
            !.lines = {Line("BASE_SALARY", c.id, c.amount, c.currency)}]
     ELSE Abandon
  /\ OnlyCalculation

FindExisting ==
  /\ At("existing")
  /\ IF payslip = None THEN GoTo("allowances") ELSE Abandon
  /\ OnlyCalculation

\* One line per active allowance, whatever its currency.
ListAllowances ==
  /\ At("allowances")
  /\ AddLines({Line("ALLOWANCE", a.id, a.amount, a.currency) : a \in inputs.allowances},
              "overtime")
  /\ OnlyCalculation

\* The minutes of the approved overtime requests of the period.
ListOvertime ==
  /\ At("overtime")
  /\ calculation' = [calculation EXCEPT
       !.at = IF inputs.overtime = 0 THEN "absences" ELSE "working days",
       !.minutes = inputs.overtime]
  /\ OnlyCalculation

\* The rate of the day that a parameter divides, rounded each time.  A
\* divisor of zero raises, like a parameter that is missing or ambiguous.
Divide(key, day, amount, point) ==
  IF Known(key, day) /\ Value(key, day).num # 0
  THEN calculation' = [calculation EXCEPT !.at = point,
                                          !.rate = Per(amount, Value(key, day))]
  ELSE Abandon

DailyRate ==
  /\ At("working days")
  /\ Divide("STANDARD_WORKING_DAYS_PER_MONTH", PeriodEnd, calculation.base, "daily hours")
  /\ OnlyCalculation

HourlyRate ==
  /\ At("daily hours")
  /\ Divide("STANDARD_DAILY_HOURS", PeriodEnd, calculation.rate, "multiplier")
  /\ OnlyCalculation

OvertimeLine ==
  LET key == "OVERTIME_MULTIPLIER_WEEKDAY" IN
  /\ At("multiplier")
  /\ IF Known(key, PeriodEnd)
     THEN LET m == Value(key, PeriodEnd) IN
          AddLines({Line("OVERTIME", None,
                         Rounded(calculation.rate * calculation.minutes * m.num, 60 * m.den),
                         RunCurrency)}, "absences")
     ELSE Abandon
  /\ OnlyCalculation

\* get_range, then day after day.  deducted is the sum so far, days their
\* number.
Reconcile ==
  /\ At("absences")
  /\ calculation' = [calculation EXCEPT !.at = "schedule",
       !.absent = inputs.absent \cap (PeriodStart .. PeriodEnd)]
  /\ OnlyCalculation

Day == Min(calculation.absent)

\* An absence counts on a day the schedule of that day has the employee work.
FindSchedule ==
  /\ At("schedule") /\ calculation.absent # {}
  /\ IF Day \in inputs.works
     THEN GoTo("day rate")
     ELSE calculation' = [calculation EXCEPT !.absent = @ \ {Day}]
  /\ OnlyCalculation

DeductDay ==
  LET key == "STANDARD_WORKING_DAYS_PER_MONTH" IN
  /\ At("day rate")
  /\ IF Known(key, Day) /\ Value(key, Day).num # 0
     THEN calculation' = [calculation EXCEPT !.at = "schedule",
            !.absent = @ \ {Day}, !.days = @ + 1,
            !.deducted = @ + Per(calculation.base, Value(key, Day))]
     ELSE Abandon
  /\ OnlyCalculation

AbsenceLine ==
  /\ At("schedule") /\ calculation.absent = {}
  /\ IF calculation.days = 0
     THEN GoTo("deductions")
     ELSE AddLines({Line("ATTENDANCE_DEDUCTION", None, calculation.deducted, RunCurrency)},
                   "deductions")
  /\ OnlyCalculation

\* One line per deduction recorded for the employee and the run.
ListDeductions ==
  /\ At("deductions")
  /\ AddLines({Line("NON_STATUTORY_DEDUCTION", d.id, d.amount, d.currency)
                 : d \in inputs.deductions}, "tax")
  /\ OnlyCalculation

\* Mutant of Gross: the amounts deducted for absences are not taxed.
GrossAfterAbsences(lines) == Total(lines, Earnings) - Total(lines, {"ATTENDANCE_DEDUCTION"})

Gross(lines) == Total(lines, Earnings)

\* Without a rate there is no tax, and with a rate of zero no line.
TaxLine ==
  LET key == "STATUTORY_TAX_RATE"
      untaxed == Missing(key, PeriodEnd) \/ (Known(key, PeriodEnd) /\ Value(key, PeriodEnd).num = 0)
  IN
  /\ At("tax")
  /\ IF untaxed THEN GoTo("record")
     ELSE IF Known(key, PeriodEnd)
     THEN AddLines({Line("STATUTORY_DEDUCTION", None,
                         Times(Gross(calculation.lines), Value(key, PeriodEnd)),
                         RunCurrency)}, "record")
     ELSE Abandon
  /\ OnlyCalculation

\* PayslipService.create: the payslip and its lines, in one transaction.
Record ==
  LET lines == calculation.lines IN
  /\ At("record")
  /\ payslip' = [ lines |-> lines, gross |-> Gross(lines),
                  net |-> Gross(lines) - Total(lines, Deducted), currency |-> RunCurrency ]
  /\ last' = [ payslip |-> payslip', inputs |-> inputs,
               undisturbed |-> calculation.began = <<changes, parameters>> ]
  /\ calculation' = Idle
  /\ slips' = slips + 1
  /\ UNCHANGED <<inputs, parameters, posted, changes>>

-----------------------------------------------------------------------------
(* The other services *)

\* A batch that is run again deletes the payslips of its run.
Clear ==
  /\ payslip # None /\ At("idle") /\ inputs.run = "open"
  /\ payslip' = None
  /\ UNCHANGED <<inputs, parameters, posted, calculation, last, changes, slips>>

\* A compensation is corrected, an allowance deactivated, overtime approved,
\* an absence explained, a schedule changed, a deduction recorded, the run
\* completed.
Change(f) ==
  /\ changes < MaxChanges
  /\ \E v \in Possible[f] \ {inputs[f]} : inputs' = [inputs EXCEPT ![f] = v]
  /\ changes' = changes + 1
  /\ UNCHANGED <<parameters, posted, calculation, payslip, last, slips>>

Step ==
  \/ FindCompensation \/ FindExisting \/ ListAllowances \/ ListOvertime
  \/ DailyRate \/ HourlyRate \/ OvertimeLine
  \/ Reconcile \/ FindSchedule \/ DeductDay \/ AbsenceLine
  \/ ListDeductions \/ TaxLine \/ Record

Next ==
  \/ Calculate \/ Step \/ Clear
  \/ \E row \in Creatable : CheckParameter(row)
  \/ InsertParameter
  \/ \E row \in parameters : UpdateParameter(row)
  \/ \E f \in DOMAIN inputs : Change(f)

Spec == Init /\ [][Next]_vars

-----------------------------------------------------------------------------
(* Properties *)

Records == payslip' \notin {None, payslip}

\* x / den is the exact amount and slack / den what rounding may add or take.
Within(amount, x, slack, den) ==
  x - slack <= amount * den /\ amount * den <= x + slack

Of(p, type) == Total(p.lines, {type})

\* The references, from the inputs and not from the steps.  The hourly rate is
\* rounded twice before it is multiplied: half a cent of the daily rate, spread
\* over the hours of a day, and half a cent of its own, for every hour paid.
OvertimeOwed(p) ==
  LET base == inputs.compensation.amount
      m == Value("OVERTIME_MULTIPLIER_WEEKDAY", PeriodEnd)
      d == Value("STANDARD_WORKING_DAYS_PER_MONTH", PeriodEnd)
      h == Value("STANDARD_DAILY_HOURS", PeriodEnd)
  IN  IF inputs.overtime = 0
      THEN Of(p, "OVERTIME") = 0
      ELSE Within(2 * Of(p, "OVERTIME"),
                  2 * base * inputs.overtime * d.den * h.den * m.num,
                  inputs.overtime * m.num * (h.den + h.num) * d.num
                    + 60 * d.num * h.num * m.den,
                  60 * d.num * h.num * m.den)

\* Each absent working day costs its share of the salary to half a cent.
AbsencesOwed(p) ==
  LET days == inputs.absent \cap inputs.works \cap (PeriodStart .. PeriodEnd)
      Rate(day) == Value("STANDARD_WORKING_DAYS_PER_MONTH", day)
      product == ProductSet({Rate(day).num : day \in days})
      Share(day) == inputs.compensation.amount * Rate(day).den * (product \div Rate(day).num)
  IN  IF days = {}
      THEN Of(p, "ATTENDANCE_DEDUCTION") = 0
      ELSE Within(2 * Of(p, "ATTENDANCE_DEDUCTION"), 2 * MapThenSumSet(Share, days),
                  Cardinality(days) * product, product)

TaxOwed(p) ==
  LET t == Value("STATUTORY_TAX_RATE", PeriodEnd) IN
  IF Missing("STATUTORY_TAX_RATE", PeriodEnd)
  THEN Of(p, "STATUTORY_DEDUCTION") = 0
  ELSE Within(2 * Of(p, "STATUTORY_DEDUCTION"), 2 * p.gross * t.num, t.den, t.den)

NetOwed(p) ==
  p.net = inputs.compensation.amount + MapThenSumSet(Amount, inputs.allowances)
          + Of(p, "OVERTIME") - Of(p, "ATTENDANCE_DEDUCTION")
          - MapThenSumSet(Amount, inputs.deductions) - Of(p, "STATUTORY_DEDUCTION")

\* As long as parameters are created one at a time, no parameter has two values
\* on a day: resolve never raises in the middle of a batch.
OneValueADay ==
  \A day \in Days : \A a, b \in parameters :
    a.key = b.key /\ IsEffective(a, day) /\ IsEffective(b, day) => a = b

\* A payslip that no other call overtook pays what the records of the employee
\* amount to, to the roundings of the rates and nothing else.
PaysWhatIsOwed ==
  [][Records /\ last'.undisturbed =>
       /\ OvertimeOwed(payslip') /\ AbsencesOwed(payslip')
       /\ TaxOwed(payslip') /\ NetOwed(payslip')]_vars

Taxes(p) == {l \in p.lines : l.type = "STATUTORY_DEDUCTION"}

\* A rerun reproduces the payslip from the same records whatever parameters
\* were added or edited in between: a parameter that was used never changes.
\* Only a tax that had no rate may appear.
Reproducible ==
  [][Records /\ last # None /\ last.undisturbed /\ last'.undisturbed
       /\ last.inputs = inputs =>
       /\ payslip'.lines \ Taxes(payslip') = last.payslip.lines \ Taxes(last.payslip)
       /\ Taxes(last.payslip) \subseteq Taxes(payslip')]_vars
=============================================================================
