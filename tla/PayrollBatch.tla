---------------------------- MODULE PayrollBatch ----------------------------
(***************************************************************************)
(* A payroll run from creation to its completed, immutable result.         *)
(* PayrollCalculationService.calculate_batch is a sequence of calls to     *)
(* other services, each a database transaction of its own: a batch that    *)
(* dies leaves what it committed, and two batches, or a batch and another  *)
(* call, interleave between any two of them.                               *)
(*                                                                         *)
(* One step is one such transaction, or one half of it where what happens  *)
(* between its SELECT and its UPDATE matters.  A call refused by its first *)
(* check changes nothing and is not a step.                                *)
(***************************************************************************)
EXTENDS Actors, Naturals, FiniteSets

CONSTANTS
  RunIds, PayslipIds, DeductionIds,
  Operations,       \* the other calls that are made meanwhile
  NoRow,            \* marks an id with no row in its table
  MaxPosted,        \* bound of the model on payslips posted by employees
  MaxCrashes,       \* bound of the model on batches that die
  MaxChanges        \* bound of the model on changes of compensation

ASSUME BoundsAssumption ==
  MaxPosted \in Nat /\ MaxCrashes \in Nat /\ MaxChanges \in Nat

ASSUME OperationsAssumption ==
  Operations \subseteq {"post_payslip", "deduct", "delete_run"}

VARIABLES
  runs,         \* payroll_runs: id -> status, or NoRow
  payslips,     \* payslips: id -> row, or NoRow
  deductions,   \* deductions: id -> row, or NoRow
  standing,     \* what the compensation rows say of each employee
  batch,        \* where the calculate_batch of each worker is
  clerk,        \* the DeductionService call in progress
  crashes, changes

vars == <<runs, payslips, deductions, standing, batch, clerk, crashes, changes>>

Status == {"DRAFT", "PROCESSING", "COMPLETED"}
Payslip == [employee : Employees, run : RunIds, itemized : BOOLEAN]
Deduction == [run : RunIds, amount : {1, 2}]

ASSUME NoRowAssumption == NoRow \notin Status \cup Payslip \cup Deduction

\* The compensation rows of an employee, at the run's period end and in its
\* currency, make the employee payable, not eligible, or eligible by the batch
\* query and then refused by calculate: the effective row is a correction that
\* is inactive or in another currency, or there are several.
Standings == {"payable", "ineligible", "conflicting"}

Points == {"idle", "read_run", "flush_start", "check_run", "clear_payslips",
           "list_eligible", "next_employee", "find_payslip", "record_payslip",
           "complete"}

IdleBatch == [at |-> "idle", run |-> NoRow, eligible |-> {}, todo |-> {}, current |-> NoRow]
IdleClerk == [call |-> "idle", id |-> NoRow, row |-> NoRow]

TypeOK ==
  /\ runs \in [RunIds -> Status \cup {NoRow}]
  /\ payslips \in [PayslipIds -> Payslip \cup {NoRow}]
  /\ deductions \in [DeductionIds -> Deduction \cup {NoRow}]
  /\ standing \in [Employees -> Standings]
  /\ batch \in [Workers -> [ at : Points, run : RunIds \cup {NoRow},
                             eligible : SUBSET Employees, todo : SUBSET Employees,
                             current : Employees \cup {NoRow} ]]
  /\ clerk \in [ call : {"idle", "insert", "update", "delete"},
                 id : DeductionIds \cup {NoRow}, row : Deduction \cup {NoRow} ]
  /\ crashes \in 0 .. MaxCrashes
  /\ changes \in 0 .. MaxChanges

Init ==
  /\ runs = [r \in RunIds |-> NoRow]
  /\ payslips = [p \in PayslipIds |-> NoRow]
  /\ deductions = [d \in DeductionIds |-> NoRow]
  /\ standing \in [Employees -> Standings]
  /\ batch = [w \in Workers |-> IdleBatch]
  /\ clerk = IdleClerk
  /\ crashes = 0
  /\ changes = 0

-----------------------------------------------------------------------------
Rows(table) == {id \in DOMAIN table : table[id] # NoRow}
PayslipsOf(r) == {p \in Rows(payslips) : payslips[p].run = r}
PayslipsFor(r, e) == {p \in PayslipsOf(r) : payslips[p].employee = e}

At(w, point) == batch[w].at = point
GoTo(w, point) == batch' = [batch EXCEPT ![w].at = point]
Finish(w) == batch' = [batch EXCEPT ![w] = IdleBatch]

OnlyBatch == UNCHANGED <<runs, payslips, deductions, standing, clerk, crashes, changes>>
OnlyRun == UNCHANGED <<payslips, deductions, standing, clerk, crashes, changes>>
OnlyPayslips == UNCHANGED <<runs, deductions, standing, clerk, crashes, changes>>

\* The batch gives a payslip its line items, POST /payslips gives it none.
InsertPayslip(employee, run, itemized) ==
  \E p \in PayslipIds :
    /\ payslips[p] = NoRow
    /\ payslips' = [payslips EXCEPT
                      ![p] = [employee |-> employee, run |-> run, itemized |-> itemized]]

-----------------------------------------------------------------------------
(* calculate_batch *)

\* POST /payroll-runs/{id}/process
Process(w, r) ==
  /\ At(w, "idle")
  /\ runs[r] \in {"DRAFT", "PROCESSING"}
  /\ batch' = [batch EXCEPT ![w] = [IdleBatch EXCEPT !.at = "read_run", !.run = r]]
  /\ OnlyBatch

\* Mutant of ReadRun: only a DRAFT run may start.
ReadDraft(w) ==
  /\ At(w, "read_run")
  /\ IF runs[batch[w].run] = "DRAFT" THEN GoTo(w, "flush_start") ELSE Finish(w)
  /\ OnlyBatch

\* start_processing, up to its UPDATE.  A run deleted meanwhile answers None,
\* which calculate_batch does not look at.
ReadRun(w) ==
  LET status == runs[batch[w].run] IN
  /\ At(w, "read_run")
  /\ \/ status = "DRAFT" /\ GoTo(w, "flush_start")
     \/ status \in {"PROCESSING", NoRow} /\ GoTo(w, "check_run")
     \/ status = "COMPLETED" /\ Finish(w)
  /\ OnlyBatch

\* The UPDATE writes the status unconditionally; without its row it raises.
FlushStart(w) ==
  LET r == batch[w].run IN
  /\ At(w, "flush_start")
  /\ IF runs[r] = NoRow
     THEN Finish(w) /\ OnlyBatch
     ELSE /\ runs' = [runs EXCEPT ![r] = "PROCESSING"]
          /\ GoTo(w, "check_run")
          /\ OnlyRun

\* delete_by_payroll_run: its own check, then the deletion.
CheckRun(w) ==
  /\ At(w, "check_run")
  /\ IF runs[batch[w].run] = "COMPLETED" THEN Finish(w) ELSE GoTo(w, "clear_payslips")
  /\ OnlyBatch

\* Mutant of ClearPayslips: a rerun keeps what the last one wrote.
ClearNothing(w) ==
  /\ At(w, "clear_payslips")
  /\ GoTo(w, "list_eligible")
  /\ OnlyBatch

ClearPayslips(w) ==
  /\ At(w, "clear_payslips")
  /\ payslips' = [p \in PayslipIds |->
                    IF p \in PayslipsOf(batch[w].run) THEN NoRow ELSE payslips[p]]
  /\ GoTo(w, "list_eligible")
  /\ OnlyPayslips

\* list_active_as_of, in the run's currency.
Eligible == {e \in Employees : standing[e] # "ineligible"}

ListEligible(w) ==
  /\ At(w, "list_eligible")
  /\ batch' = [batch EXCEPT ![w].at = "next_employee", ![w].eligible = Eligible,
                            ![w].todo = Eligible]
  /\ OnlyBatch

\* calculate: the run and the employee's compensation are read again, and
\* anything but a payable employee of an open run ends the batch.
NextEmployee(w) ==
  LET status == runs[batch[w].run] IN
  /\ At(w, "next_employee")
  /\ \/ batch[w].todo = {} /\ GoTo(w, "complete")
     \/ \E e \in batch[w].todo :
          IF status \in {"DRAFT", "PROCESSING"} /\ standing[e] = "payable"
          THEN batch' = [batch EXCEPT ![w].at = "find_payslip", ![w].current = e]
          ELSE Finish(w)
  /\ OnlyBatch

DoneWithCurrent(w) ==
  batch' = [batch EXCEPT ![w].at = "next_employee", ![w].current = NoRow,
                         ![w].todo = @ \ {batch[w].current}]

\* An employee who has a payslip already is skipped (DuplicatePayslipError).
FindPayslip(w) ==
  /\ At(w, "find_payslip")
  /\ IF PayslipsFor(batch[w].run, batch[w].current) = {}
     THEN GoTo(w, "record_payslip")
     ELSE DoneWithCurrent(w)
  /\ OnlyBatch

\* PayslipService.create looks for the run again, not for its status.
RecordPayslip(w) ==
  LET r == batch[w].run IN
  /\ At(w, "record_payslip")
  /\ IF runs[r] = NoRow
     THEN Finish(w) /\ OnlyBatch
     ELSE /\ InsertPayslip(batch[w].current, r, TRUE)
          /\ DoneWithCurrent(w)
          /\ OnlyPayslips

\* complete: PROCESSING -> COMPLETED, or an error from any other status.
Complete(w) ==
  LET r == batch[w].run IN
  /\ At(w, "complete")
  /\ runs' = IF runs[r] = "PROCESSING" THEN [runs EXCEPT ![r] = "COMPLETED"] ELSE runs
  /\ Finish(w)
  /\ OnlyRun

\* The process dies between two transactions: what is committed stays.
Crash(w) ==
  /\ ~ At(w, "idle")
  /\ crashes < MaxCrashes
  /\ crashes' = crashes + 1
  /\ Finish(w)
  /\ UNCHANGED <<runs, payslips, deductions, standing, clerk, changes>>

Step(w) ==
  \/ ReadRun(w) \/ FlushStart(w) \/ CheckRun(w) \/ ClearPayslips(w)
  \/ ListEligible(w) \/ NextEmployee(w) \/ FindPayslip(w) \/ RecordPayslip(w)
  \/ Complete(w)

-----------------------------------------------------------------------------
(* The other calls *)

\* Primary keys are fresh UUIDs: no call still knows the new one.
CreateRun(r) ==
  /\ runs[r] = NoRow
  /\ \A w \in Workers : batch[w].run # r
  /\ clerk.row # NoRow => clerk.row.run # r
  /\ runs' = [runs EXCEPT ![r] = "DRAFT"]
  /\ UNCHANGED batch
  /\ OnlyRun

\* Mutants of Deletable: one of the two references is overlooked.
DeletableWithPayslips(r) == \A d \in Rows(deductions) : deductions[d].run # r
DeletableWithDeductions(r) == PayslipsOf(r) = {}

\* No payslip and no deduction refers to the run.
Deletable(r) == PayslipsOf(r) = {} /\ \A d \in Rows(deductions) : deductions[d].run # r

\* Otherwise the call is refused, by the lookup of its payslips - which raises
\* if it finds several - or by the foreign keys of the deductions.
DeleteRun(r) ==
  /\ "delete_run" \in Operations
  /\ runs[r] # NoRow
  /\ runs' = IF Deletable(r) THEN [runs EXCEPT ![r] = NoRow] ELSE runs
  /\ UNCHANGED batch
  /\ OnlyRun

\* POST /payslips: an employee records a payslip of their own.
PostPayslip(e, r) ==
  /\ "post_payslip" \in Operations
  /\ runs[r] # NoRow
  /\ Cardinality({p \in Rows(payslips) : ~ payslips[p].itemized}) < MaxPosted
  /\ InsertPayslip(e, r, FALSE)
  /\ UNCHANGED batch
  /\ OnlyPayslips

\* DeductionService: the parent run is looked up and must not be COMPLETED ...
CheckDeduction(call, d, row) ==
  /\ "deduct" \in Operations
  /\ clerk = IdleClerk
  /\ IF call = "insert"
     THEN deductions[d] = NoRow
     ELSE deductions[d] # NoRow /\ row.run = deductions[d].run
  /\ runs[row.run] \in {"DRAFT", "PROCESSING"}
  /\ clerk' = [call |-> call, id |-> d, row |-> row]
  /\ UNCHANGED <<runs, payslips, deductions, standing, batch, crashes, changes>>

\* ... then the row is written, if the run an INSERT refers to is still there.
WriteDeduction ==
  /\ clerk # IdleClerk
  /\ deductions' = [deductions EXCEPT ![clerk.id] =
       IF clerk.call = "delete" \/ runs[clerk.row.run] = NoRow THEN NoRow ELSE clerk.row]
  /\ clerk' = IdleClerk
  /\ UNCHANGED <<runs, payslips, standing, batch, crashes, changes>>

\* Compensations are recorded, corrected, deactivated.
ChangeCompensation(e) ==
  /\ changes < MaxChanges
  /\ changes' = changes + 1
  /\ \E s \in Standings : standing' = [standing EXCEPT ![e] = s]
  /\ UNCHANGED <<runs, payslips, deductions, batch, clerk, crashes>>

Next ==
  \/ \E w \in Workers : Step(w) \/ Crash(w) \/ \E r \in RunIds : Process(w, r)
  \/ \E r \in RunIds : CreateRun(r) \/ DeleteRun(r) \/ \E e \in Employees : PostPayslip(e, r)
  \/ \E call \in {"insert", "update", "delete"}, d \in DeductionIds, row \in Deduction :
       CheckDeduction(call, d, row)
  \/ WriteDeduction
  \/ \E e \in Employees : ChangeCompensation(e)

Spec == Init /\ [][Next]_vars

\* A started batch runs on, and an administrator processes an open run again
\* as long as it is not completed.
FairSpec ==
  /\ Spec
  /\ \A w \in Workers : WF_vars(Step(w))
  /\ \A r \in RunIds : WF_vars(\E w \in Workers : Process(w, r))

-----------------------------------------------------------------------------
(* Properties *)

\* The promise about the payslips a batch computes: they appear at once when
\* the run completes, pay nobody twice and never change, although the batch
\* writes them one by one, may be rerun, and others write to the run as well.
Itemized(r) == {p \in PayslipsOf(r) : payslips[p].itemized}
Published ==
  [r \in RunIds |->
     IF runs[r] = "COMPLETED"
     THEN [e \in Employees |-> Cardinality(Itemized(r) \cap PayslipsFor(r, e))]
     ELSE NoRow]
Promise == INSTANCE PayrollPromise WITH published <- Published, Unpublished <- NoRow
KeepsPromise == Promise!Spec

\* When a batch completes its run, it has computed payslips for nobody but the
\* employees it found eligible, whatever earlier, interrupted batches left
\* behind, and each of them has a payslip, even if they posted it themselves.
Completes(w) == At(w, "complete") /\ runs[batch[w].run] = "PROCESSING" /\ Complete(w)
PaidBy(ids) == {payslips[p].employee : p \in ids}
WholeResults ==
  [][\A w \in Workers : Completes(w) =>
       /\ PaidBy(Itemized(batch[w].run)) \subseteq batch[w].eligible
       /\ batch[w].eligible \subseteq PaidBy(PayslipsOf(batch[w].run))]_vars

\* No payslip and no deduction outlives its run, in any order of deletion,
\* insertion and rerun.  (It is not promised that a COMPLETED run stays as it is:
\* POST /payslips and a deduction checked before the completion still write.)
NoOrphans ==
  /\ \A p \in Rows(payslips) : runs[payslips[p].run] # NoRow
  /\ \A d \in Rows(deductions) : runs[deductions[d].run] # NoRow

BatchInv == TypeOK /\ NoOrphans

\* A run stuck in PROCESSING by a crash or by a conflicting compensation is
\* recovered by processing it again, once no compensation conflicts any more.
RerunRecovers ==
  <>[](\A e \in Employees : standing[e] # "conflicting") =>
    \A r \in RunIds : runs[r] = "PROCESSING" ~> runs[r] \in {"COMPLETED", NoRow}
=============================================================================
