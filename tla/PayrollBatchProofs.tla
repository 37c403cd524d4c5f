------------------------- MODULE PayrollBatchProofs -------------------------
(***************************************************************************)
(* Proofs about PayrollBatch: no payslip and no deduction outlives its     *)
(* run, whoever runs batches at the same time; and with one batch at a     *)
(* time, what a batch completes is whole and the results of a run keep the *)
(* promise of PayrollPromise, for any number of employees, runs, payslips, *)
(* crashes and changes of compensation.  At the end, the histories of the  *)
(* effective-dated rows that the batches read (module EffectiveDating).    *)
(***************************************************************************)
EXTENDS PayrollBatch, EffectiveDating, FiniteSetTheorems, TLAPS

(* Where a batch and the clerk are *)

Batch == [ at : Points, run : RunIds \cup {NoRow},
           eligible : SUBSET Employees, todo : SUBSET Employees,
           current : Employees \cup {NoRow} ]

\* A batch under way has a run, and between two of its employees it has one; a
\* deduction under way has its id and its row.
UnderWay ==
  /\ \A w \in Workers :
       /\ ~ At(w, "idle") => batch[w].run \in RunIds
       /\ At(w, "find_payslip") \/ At(w, "record_payslip")
            => batch[w].current \in Employees
  /\ clerk # IdleClerk => clerk.id \in DeductionIds /\ clerk.row \in Deduction

BatchIInv == BatchInv /\ UnderWay

LEMMA IdleIsBatch == IdleBatch \in Batch /\ IdleBatch.at = "idle"
BY DEF IdleBatch, Batch, Points

LEMMA GoesTo ==
  ASSUME TypeOK, NEW w \in Workers, NEW point \in Points, GoTo(w, point)
  PROVE  /\ batch' \in [Workers -> Batch]
         /\ \A v \in Workers \ {w} : batch'[v] = batch[v]
         /\ batch'[w].at = point /\ batch'[w].run = batch[w].run
         /\ batch'[w].eligible = batch[w].eligible /\ batch'[w].todo = batch[w].todo
         /\ batch'[w].current = batch[w].current
<1>1. batch \in [Workers -> Batch]
  BY DEF TypeOK, Batch
<1> DEFINE b == [batch[w] EXCEPT !.at = point]
<1>2. batch' = [batch EXCEPT ![w] = b]
  BY DEF GoTo
<1>3. /\ b \in Batch /\ b.at = point /\ b.run = batch[w].run
      /\ b.eligible = batch[w].eligible /\ b.todo = batch[w].todo
      /\ b.current = batch[w].current
  BY <1>1 DEF Batch
<1> HIDE DEF b
<1> QED
  BY <1>1, <1>2, <1>3

LEMMA Finishes ==
  ASSUME TypeOK, NEW w \in Workers, Finish(w)
  PROVE  /\ batch' \in [Workers -> Batch]
         /\ \A v \in Workers \ {w} : batch'[v] = batch[v]
         /\ batch'[w].at = "idle"
<1>1. batch \in [Workers -> Batch]
  BY DEF TypeOK, Batch
<1> QED
  BY <1>1, IdleIsBatch DEF Finish

LEMMA IsDoneWithCurrent ==
  ASSUME TypeOK, NEW w \in Workers, DoneWithCurrent(w)
  PROVE  /\ batch' \in [Workers -> Batch]
         /\ \A v \in Workers \ {w} : batch'[v] = batch[v]
         /\ batch'[w].at = "next_employee" /\ batch'[w].run = batch[w].run
         /\ batch'[w].eligible = batch[w].eligible
         /\ batch'[w].todo = batch[w].todo \ {batch[w].current}
<1>1. batch \in [Workers -> Batch]
  BY DEF TypeOK, Batch
<1> DEFINE b == [batch[w] EXCEPT !.at = "next_employee", !.current = NoRow,
                                 !.todo = @ \ {batch[w].current}]
<1>2. batch' = [batch EXCEPT ![w] = b]
  BY <1>1 DEF DoneWithCurrent
<1>3. /\ b \in Batch /\ b.at = "next_employee" /\ b.run = batch[w].run
      /\ b.eligible = batch[w].eligible /\ b.todo = batch[w].todo \ {batch[w].current}
  BY <1>1 DEF Batch, Points
<1> HIDE DEF b
<1> QED
  BY <1>1, <1>2, <1>3

LEMMA Processes ==
  ASSUME TypeOK, NEW w \in Workers, NEW r \in RunIds, Process(w, r)
  PROVE  /\ batch' \in [Workers -> Batch]
         /\ \A v \in Workers \ {w} : batch'[v] = batch[v]
         /\ batch'[w].at = "read_run" /\ batch'[w].run = r
<1>1. batch \in [Workers -> Batch]
  BY DEF TypeOK, Batch
<1> DEFINE b == [IdleBatch EXCEPT !.at = "read_run", !.run = r]
<1>2. batch' = [batch EXCEPT ![w] = b]
  BY DEF Process
<1>3. b \in Batch /\ b.at = "read_run" /\ b.run = r
  BY IdleIsBatch DEF Batch, Points
<1> HIDE DEF b
<1> QED
  BY <1>1, <1>2, <1>3

LEMMA ListsEligible ==
  ASSUME TypeOK, NEW w \in Workers, ListEligible(w)
  PROVE  /\ batch' \in [Workers -> Batch]
         /\ \A v \in Workers \ {w} : batch'[v] = batch[v]
         /\ batch'[w].at = "next_employee" /\ batch'[w].run = batch[w].run
         /\ batch'[w].eligible = Eligible /\ batch'[w].todo = Eligible
<1>1. batch \in [Workers -> Batch] /\ Eligible \in SUBSET Employees
  BY DEF TypeOK, Batch, Eligible
<1> DEFINE b == [batch[w] EXCEPT !.at = "next_employee", !.eligible = Eligible,
                                 !.todo = Eligible]
<1>2. batch' = [batch EXCEPT ![w] = b]
  BY <1>1 DEF ListEligible
<1>3. /\ b \in Batch /\ b.at = "next_employee" /\ b.run = batch[w].run
      /\ b.eligible = Eligible /\ b.todo = Eligible
  BY <1>1 DEF Batch, Points
<1> HIDE DEF b
<1> QED
  BY <1>1, <1>2, <1>3

\* The batch of w takes up employee e.
TakesUp(w, e) ==
  batch' = [batch EXCEPT ![w].at = "find_payslip", ![w].current = e]

LEMMA NextIsTakenUp ==
  ASSUME TypeOK, NEW w \in Workers, NEW e \in batch[w].todo, TakesUp(w, e)
  PROVE  /\ batch' \in [Workers -> Batch]
         /\ \A v \in Workers \ {w} : batch'[v] = batch[v]
         /\ batch'[w].at = "find_payslip" /\ batch'[w].run = batch[w].run
         /\ batch'[w].eligible = batch[w].eligible /\ batch'[w].todo = batch[w].todo
         /\ batch'[w].current = e
<1>1. batch \in [Workers -> Batch]
  BY DEF TypeOK, Batch
<1>2. e \in Employees
  BY <1>1 DEF Batch
<1> DEFINE b == [batch[w] EXCEPT !.at = "find_payslip", !.current = e]
<1>3. batch' = [batch EXCEPT ![w] = b]
  BY <1>1 DEF TakesUp
<1>4. /\ b \in Batch /\ b.at = "find_payslip" /\ b.run = batch[w].run
      /\ b.eligible = batch[w].eligible /\ b.todo = batch[w].todo /\ b.current = e
  BY <1>1, <1>2 DEF Batch, Points
<1> HIDE DEF b
<1> QED
  BY <1>1, <1>3, <1>4

-----------------------------------------------------------------------------
(* Types and references, whoever runs batches at the same time *)

\* The batches of all workers after a step of one of them.
LEMMA BatchStep ==
  ASSUME TypeOK, UnderWay, NEW w \in Workers, Step(w) \/ Crash(w)
  PROVE  /\ batch' \in [Workers -> Batch]
         /\ \A v \in Workers :
              /\ batch'[v].at # "idle" => batch'[v].run \in RunIds
              /\ batch'[v].at \in {"find_payslip", "record_payslip"}
                   => batch'[v].current \in Employees
<1> DEFINE Fine(v) ==
             /\ batch'[v].at # "idle" => batch'[v].run \in RunIds
             /\ batch'[v].at \in {"find_payslip", "record_payslip"}
                  => batch'[v].current \in Employees
           Goal == batch' \in [Workers -> Batch] /\ \A v \in Workers : Fine(v)
<1> SUFFICES Goal
  OBVIOUS
<1> HIDE DEF Goal
<1>1. \A v \in Workers : batch'[v] = batch[v] => Fine(v)
  BY DEF UnderWay, At
<1>2. ASSUME NEW point \in Points \ {"idle", "find_payslip"}, GoTo(w, point),
             ~ At(w, "idle"), point = "record_payslip" => At(w, "find_payslip")
      PROVE  Goal
  BY <1>1, <1>2, GoesTo DEF UnderWay, At, Goal
<1>3. CASE Finish(w)
  BY <1>1, <1>3, Finishes DEF Goal
<1>4. CASE DoneWithCurrent(w) /\ ~ At(w, "idle")
  BY <1>1, <1>4, IsDoneWithCurrent DEF UnderWay, Goal
<1>5. CASE ListEligible(w)
  <2>1. batch[w].run \in RunIds
    BY <1>5 DEF ListEligible, UnderWay, At
  <2> QED
    BY <1>1, <1>5, <2>1, ListsEligible DEF Goal
<1>6. ASSUME NEW e \in batch[w].todo, TakesUp(w, e), ~ At(w, "idle")
      PROVE  Goal
  <2>1. e \in Employees
    BY DEF TypeOK
  <2> QED
    BY <1>1, <1>6, <2>1, NextIsTakenUp DEF UnderWay, Goal
<1>7. CASE NextEmployee(w)
  <2>1. \/ GoTo(w, "complete") \/ Finish(w)
        \/ \E e \in batch[w].todo : TakesUp(w, e)
    BY <1>7 DEF NextEmployee, TakesUp
  <2>2. ~ At(w, "idle")
    BY <1>7 DEF NextEmployee, At
  <2>3. CASE GoTo(w, "complete")
    BY <1>2, <2>2, <2>3 DEF Points
  <2> QED
    BY <1>3, <1>6, <2>1, <2>2, <2>3
<1>8. CASE ReadRun(w) \/ FlushStart(w) \/ CheckRun(w) \/ ClearPayslips(w)
  <2>1. \/ GoTo(w, "flush_start") \/ GoTo(w, "check_run") \/ GoTo(w, "clear_payslips")
        \/ GoTo(w, "list_eligible") \/ Finish(w)
    BY <1>8 DEF ReadRun, FlushStart, CheckRun, ClearPayslips
  <2>2. ~ At(w, "idle")
    BY <1>8 DEF ReadRun, FlushStart, CheckRun, ClearPayslips, At
  <2>3. ASSUME NEW point \in {"flush_start", "check_run", "clear_payslips", "list_eligible"},
               GoTo(w, point)
        PROVE  Goal
    <3>1. point \in Points \ {"idle", "find_payslip"} /\ point # "record_payslip"
      BY DEF Points
    <3> QED
      BY <1>2, <2>2, <2>3, <3>1
  <2> QED
    BY <1>3, <2>1, <2>3
<1>9. CASE FindPayslip(w) \/ RecordPayslip(w)
  <2>1. (At(w, "find_payslip") /\ GoTo(w, "record_payslip")) \/ DoneWithCurrent(w) \/ Finish(w)
    BY <1>9 DEF FindPayslip, RecordPayslip
  <2>2. ~ At(w, "idle")
    BY <1>9 DEF FindPayslip, RecordPayslip, At
  <2> QED
    BY <1>2, <1>3, <1>4, <2>1, <2>2 DEF Points
<1>10. CASE Complete(w) \/ Crash(w)
  BY <1>3, <1>10 DEF Complete, Crash
<1> QED
  BY <1>5, <1>7, <1>8, <1>9, <1>10 DEF Step

\* The row of payslip p is inserted.
Inserts(p, e, r, itemized) ==
  /\ payslips[p] = NoRow
  /\ payslips' = [payslips EXCEPT
                    ![p] = [employee |-> e, run |-> r, itemized |-> itemized]]

\* Payslips are inserted, for a run that is there, by a batch for the employee it
\* has taken up or by an employee; they are deleted by a batch, for its run.
LEMMA PayslipsStep ==
  ASSUME BatchIInv, [Next]_vars
  PROVE  \/ UNCHANGED payslips
         \/ \E w \in Workers : ClearPayslips(w)
         \/ \E p \in PayslipIds, e \in Employees, r \in RunIds, itemized \in BOOLEAN :
              /\ Inserts(p, e, r, itemized)
              /\ runs[r] # NoRow /\ UNCHANGED <<runs, deductions>>
              /\ itemized => \E w \in Workers :
                   RecordPayslip(w) /\ batch[w].run = r /\ batch[w].current = e
<1> DEFINE Inserted ==
      \E p \in PayslipIds, e \in Employees, r \in RunIds, itemized \in BOOLEAN :
        /\ Inserts(p, e, r, itemized)
        /\ runs[r] # NoRow /\ UNCHANGED <<runs, deductions>>
        /\ itemized => \E w \in Workers :
             RecordPayslip(w) /\ batch[w].run = r /\ batch[w].current = e
<1>1. ASSUME NEW w \in Workers, RecordPayslip(w)
      PROVE  UNCHANGED payslips \/ Inserted
  <2>1. batch[w].run \in RunIds /\ batch[w].current \in Employees
    BY <1>1 DEF BatchIInv, UnderWay, RecordPayslip, At
  <2>2. CASE runs[batch[w].run] = NoRow
    BY <1>1, <2>2 DEF RecordPayslip, OnlyBatch
  <2>3. CASE runs[batch[w].run] # NoRow
    <3>1. PICK p \in PayslipIds : Inserts(p, batch[w].current, batch[w].run, TRUE)
      BY <1>1, <2>3 DEF RecordPayslip, InsertPayslip, Inserts
    <3>2. UNCHANGED <<runs, deductions>>
      BY <1>1, <2>3 DEF RecordPayslip, OnlyPayslips
    <3> QED
      BY <1>1, <2>1, <2>3, <3>1, <3>2
  <2> QED
    BY <2>2, <2>3
<1>2. ASSUME NEW e \in Employees, NEW r \in RunIds, PostPayslip(e, r)
      PROVE  Inserted
  <2>1. PICK p \in PayslipIds : Inserts(p, e, r, FALSE)
    BY <1>2 DEF PostPayslip, InsertPayslip, Inserts
  <2> QED
    BY <1>2, <2>1 DEF PostPayslip, OnlyPayslips
<1> HIDE DEF Inserted
<1>3. ASSUME NEW w \in Workers,
             \/ ReadRun(w) \/ FlushStart(w) \/ CheckRun(w) \/ ListEligible(w)
             \/ NextEmployee(w) \/ FindPayslip(w) \/ Complete(w) \/ Crash(w)
             \/ \E r \in RunIds : Process(w, r)
      PROVE  UNCHANGED payslips
  BY <1>3 DEF ReadRun, FlushStart, CheckRun, ListEligible, NextEmployee, FindPayslip,
              Complete, Crash, Process, OnlyBatch, OnlyRun
<1>4. ASSUME \/ \E r \in RunIds : CreateRun(r) \/ DeleteRun(r)
             \/ \E call \in {"insert", "update", "delete"}, d \in DeductionIds,
                   row \in Deduction : CheckDeduction(call, d, row)
             \/ WriteDeduction
             \/ \E e \in Employees : ChangeCompensation(e)
             \/ UNCHANGED vars
      PROVE  UNCHANGED payslips
  BY <1>4 DEF CreateRun, DeleteRun, CheckDeduction, WriteDeduction, ChangeCompensation,
              OnlyRun, vars
<1> QED
  BY <1>1, <1>2, <1>3, <1>4 DEF Next, Step, Inserted

\* A run keeps its row unless it is deleted, and then nothing refers to it.
LEMMA RunsStep ==
  ASSUME BatchIInv, [Next]_vars
  PROVE  /\ runs' \in [RunIds -> Status \cup {NoRow}]
         /\ \A r \in RunIds : runs[r] # NoRow =>
              runs'[r] # NoRow \/ (DeleteRun(r) /\ Deletable(r))
<1> DEFINE Goal ==
      /\ runs' \in [RunIds -> Status \cup {NoRow}]
      /\ \A r \in RunIds : runs[r] # NoRow =>
           runs'[r] # NoRow \/ (DeleteRun(r) /\ Deletable(r))
<1> SUFFICES Goal
  OBVIOUS
<1>1. runs \in [RunIds -> Status \cup {NoRow}]
  BY DEF BatchIInv, BatchInv, TypeOK
<1>2. CASE UNCHANGED runs
  BY <1>1, <1>2
<1>3. ASSUME NEW w \in Workers, FlushStart(w)
      PROVE  Goal
  <2>1. batch[w].run \in RunIds
    BY <1>3 DEF FlushStart, BatchIInv, UnderWay, At
  <2> QED
    BY <1>1, <1>3, <2>1, NoRowAssumption DEF FlushStart, OnlyBatch, Status
<1>4. ASSUME NEW w \in Workers, Complete(w)
      PROVE  Goal
  <2>1. batch[w].run \in RunIds
    BY <1>4 DEF Complete, BatchIInv, UnderWay, At
  <2> QED
    BY <1>1, <1>4, <2>1, NoRowAssumption DEF Complete, Status
<1>5. ASSUME NEW r \in RunIds, CreateRun(r)
      PROVE  Goal
  BY <1>1, <1>5, NoRowAssumption DEF CreateRun, Status
<1>6. ASSUME NEW r \in RunIds, DeleteRun(r)
      PROVE  Goal
  BY <1>1, <1>6 DEF DeleteRun
<1> HIDE DEF Goal
<1>7. ASSUME NEW w \in Workers,
             \/ ReadRun(w) \/ CheckRun(w) \/ ClearPayslips(w) \/ ListEligible(w)
             \/ NextEmployee(w) \/ FindPayslip(w) \/ RecordPayslip(w) \/ Crash(w)
             \/ \E r \in RunIds : Process(w, r)
      PROVE  UNCHANGED runs
  BY <1>7 DEF ReadRun, CheckRun, ClearPayslips, ListEligible, NextEmployee, FindPayslip,
              RecordPayslip, Crash, Process, OnlyBatch, OnlyPayslips
<1>8. ASSUME \/ \E r \in RunIds, e \in Employees : PostPayslip(e, r)
             \/ \E call \in {"insert", "update", "delete"}, d \in DeductionIds,
                   row \in Deduction : CheckDeduction(call, d, row)
             \/ WriteDeduction
             \/ \E e \in Employees : ChangeCompensation(e)
             \/ UNCHANGED vars
      PROVE  UNCHANGED runs
  BY <1>8 DEF PostPayslip, CheckDeduction, WriteDeduction, ChangeCompensation,
              OnlyPayslips, vars
<1> QED
  BY <1>2, <1>3, <1>4, <1>5, <1>6, <1>7, <1>8 DEF Next, Step

\* Deductions and the clerk change together, in WriteDeduction.
LEMMA DeductionsStep ==
  ASSUME BatchIInv, [Next]_vars
  PROVE  /\ \/ UNCHANGED <<deductions, clerk>>
            \/ UNCHANGED deductions /\ clerk' # IdleClerk
                 /\ clerk'.call \in {"insert", "update", "delete"}
                 /\ clerk'.id \in DeductionIds /\ clerk'.row \in Deduction
            \/ WriteDeduction /\ clerk.id \in DeductionIds /\ clerk.row \in Deduction
         /\ clerk' \in [ call : {"idle", "insert", "update", "delete"},
                         id : DeductionIds \cup {NoRow}, row : Deduction \cup {NoRow} ]
<1>1. clerk \in [ call : {"idle", "insert", "update", "delete"},
                  id : DeductionIds \cup {NoRow}, row : Deduction \cup {NoRow} ]
  BY DEF BatchIInv, BatchInv, TypeOK
<1>2. ASSUME NEW call \in {"insert", "update", "delete"}, NEW d \in DeductionIds,
             NEW row \in Deduction, CheckDeduction(call, d, row)
      PROVE  /\ UNCHANGED deductions /\ clerk' # IdleClerk
             /\ clerk'.call \in {"insert", "update", "delete"}
             /\ clerk'.id \in DeductionIds /\ clerk'.row \in Deduction
             /\ clerk' \in [ call : {"idle", "insert", "update", "delete"},
                             id : DeductionIds \cup {NoRow}, row : Deduction \cup {NoRow} ]
  <2>1. clerk' = [call |-> call, id |-> d, row |-> row] /\ UNCHANGED deductions
    BY <1>2 DEF CheckDeduction
  <2> QED
    BY <2>1 DEF IdleClerk
<1>3. CASE WriteDeduction
  <2>1. /\ clerk.id \in DeductionIds /\ clerk.row \in Deduction
        /\ clerk' = IdleClerk
    BY <1>3 DEF WriteDeduction, BatchIInv, UnderWay
  <2> QED
    BY <1>3, <2>1 DEF IdleClerk
<1>4. ASSUME NEW w \in Workers, Step(w) \/ Crash(w) \/ \E r \in RunIds : Process(w, r)
      PROVE  UNCHANGED <<deductions, clerk>>
  BY <1>4 DEF Step, ReadRun, FlushStart, CheckRun, ClearPayslips, ListEligible,
              NextEmployee, FindPayslip, RecordPayslip, Complete, Crash, Process,
              OnlyBatch, OnlyRun, OnlyPayslips
<1>5. ASSUME \/ \E r \in RunIds : \/ CreateRun(r) \/ DeleteRun(r)
                                  \/ \E e \in Employees : PostPayslip(e, r)
             \/ \E e \in Employees : ChangeCompensation(e)
             \/ UNCHANGED vars
      PROVE  UNCHANGED <<deductions, clerk>>
  BY <1>5 DEF CreateRun, DeleteRun, PostPayslip, ChangeCompensation, OnlyRun,
              OnlyPayslips, vars
<1> QED
  BY <1>1, <1>2, <1>3, <1>4, <1>5 DEF Next

\* The batches, and the counters of the model.
LEMMA BatchesStep ==
  ASSUME BatchIInv, [Next]_vars
  PROVE  /\ batch' \in [Workers -> Batch]
         /\ \A v \in Workers :
              /\ batch'[v].at # "idle" => batch'[v].run \in RunIds
              /\ batch'[v].at \in {"find_payslip", "record_payslip"}
                   => batch'[v].current \in Employees
<1> DEFINE Fine(v) ==
             /\ batch'[v].at # "idle" => batch'[v].run \in RunIds
             /\ batch'[v].at \in {"find_payslip", "record_payslip"}
                  => batch'[v].current \in Employees
           Goal == batch' \in [Workers -> Batch] /\ \A v \in Workers : Fine(v)
<1> SUFFICES Goal
  OBVIOUS
<1>1. TypeOK /\ UnderWay
  BY DEF BatchIInv, BatchInv
<1>2. \A v \in Workers : batch'[v] = batch[v] => Fine(v)
  BY <1>1 DEF UnderWay, At
<1>3. CASE UNCHANGED batch
  BY <1>1, <1>2, <1>3 DEF TypeOK, Batch
<1>4. ASSUME NEW w \in Workers, NEW r \in RunIds, Process(w, r)
      PROVE  Goal
  BY <1>1, <1>2, <1>4, Processes
<1>5. ASSUME NEW w \in Workers, Step(w) \/ Crash(w)
      PROVE  Goal
  BY <1>1, <1>5, BatchStep
<1>6. ASSUME \/ \E r \in RunIds : \/ CreateRun(r) \/ DeleteRun(r)
                                  \/ \E e \in Employees : PostPayslip(e, r)
             \/ \E call \in {"insert", "update", "delete"}, d \in DeductionIds,
                   row \in Deduction : CheckDeduction(call, d, row)
             \/ WriteDeduction
             \/ \E e \in Employees : ChangeCompensation(e)
             \/ UNCHANGED vars
      PROVE  UNCHANGED batch
  BY <1>6 DEF CreateRun, DeleteRun, PostPayslip, CheckDeduction, WriteDeduction,
              ChangeCompensation, OnlyRun, OnlyPayslips, vars
<1> HIDE DEF Goal
<1> QED
  BY <1>3, <1>4, <1>5, <1>6 DEF Next

LEMMA CountersStep ==
  ASSUME BatchIInv, [Next]_vars
  PROVE  /\ standing' \in [Employees -> Standings]
         /\ crashes' \in 0 .. MaxCrashes /\ changes' \in 0 .. MaxChanges
<1> USE BoundsAssumption
<1>1. /\ standing \in [Employees -> Standings]
      /\ crashes \in 0 .. MaxCrashes /\ changes \in 0 .. MaxChanges
  BY DEF BatchIInv, BatchInv, TypeOK
<1>2. ASSUME NEW w \in Workers, Crash(w)
      PROVE  UNCHANGED <<standing, changes>> /\ crashes' \in 0 .. MaxCrashes
  BY <1>1, <1>2 DEF Crash
<1>3. ASSUME NEW e \in Employees, ChangeCompensation(e)
      PROVE  /\ UNCHANGED crashes /\ changes' \in 0 .. MaxChanges
             /\ standing' \in [Employees -> Standings]
  BY <1>1, <1>3 DEF ChangeCompensation
<1>4. ASSUME NEW w \in Workers, Step(w) \/ \E r \in RunIds : Process(w, r)
      PROVE  UNCHANGED <<standing, crashes, changes>>
  BY <1>4 DEF Step, ReadRun, FlushStart, CheckRun, ClearPayslips, ListEligible,
              NextEmployee, FindPayslip, RecordPayslip, Complete, Process,
              OnlyBatch, OnlyRun, OnlyPayslips
<1>5. ASSUME \/ \E r \in RunIds : \/ CreateRun(r) \/ DeleteRun(r)
                                  \/ \E e \in Employees : PostPayslip(e, r)
             \/ \E call \in {"insert", "update", "delete"}, d \in DeductionIds,
                   row \in Deduction : CheckDeduction(call, d, row)
             \/ WriteDeduction
             \/ UNCHANGED vars
      PROVE  UNCHANGED <<standing, crashes, changes>>
  BY <1>5 DEF CreateRun, DeleteRun, PostPayslip, CheckDeduction, WriteDeduction,
              OnlyRun, OnlyPayslips, vars
<1> QED
  BY <1>1, <1>2, <1>3, <1>4, <1>5 DEF Next

LEMMA BatchTypeStep == BatchIInv /\ [Next]_vars => TypeOK' /\ UnderWay'
<1> SUFFICES ASSUME BatchIInv, [Next]_vars
             PROVE  TypeOK' /\ UnderWay'
  OBVIOUS
<1>1. /\ payslips \in [PayslipIds -> Payslip \cup {NoRow}]
      /\ deductions \in [DeductionIds -> Deduction \cup {NoRow}]
  BY DEF BatchIInv, BatchInv, TypeOK
<1>2. payslips' \in [PayslipIds -> Payslip \cup {NoRow}]
  <2>1. ASSUME NEW w \in Workers, ClearPayslips(w)
        PROVE  payslips' \in [PayslipIds -> Payslip \cup {NoRow}]
    BY <1>1, <2>1 DEF ClearPayslips
  <2>2. ASSUME NEW p \in PayslipIds, NEW e \in Employees, NEW r \in RunIds,
               NEW itemized \in BOOLEAN, Inserts(p, e, r, itemized)
        PROVE  payslips' \in [PayslipIds -> Payslip \cup {NoRow}]
    <3>1. [employee |-> e, run |-> r, itemized |-> itemized] \in Payslip
      BY DEF Payslip
    <3> QED
      BY <1>1, <2>2, <3>1 DEF Inserts
  <2> QED
    BY <1>1, <2>1, <2>2, PayslipsStep
<1>3. deductions' \in [DeductionIds -> Deduction \cup {NoRow}]
  BY <1>1, DeductionsStep DEF WriteDeduction
<1>4. UnderWay'
  <2>1. clerk' # IdleClerk => clerk'.id \in DeductionIds /\ clerk'.row \in Deduction
    BY DeductionsStep DEF BatchIInv, UnderWay, WriteDeduction
  <2> QED
    BY <2>1, BatchesStep DEF UnderWay, At
<1> QED
  BY <1>2, <1>3, <1>4, RunsStep, DeductionsStep, BatchesStep, CountersStep DEF TypeOK, Batch

LEMMA OrphansStep == BatchIInv /\ [Next]_vars => NoOrphans'
<1> SUFFICES ASSUME BatchIInv, [Next]_vars
             PROVE  NoOrphans'
  OBVIOUS
<1>1. /\ payslips \in [PayslipIds -> Payslip \cup {NoRow}]
      /\ deductions \in [DeductionIds -> Deduction \cup {NoRow}]
      /\ payslips' \in [PayslipIds -> Payslip \cup {NoRow}]
      /\ deductions' \in [DeductionIds -> Deduction \cup {NoRow}]
  BY BatchTypeStep DEF BatchIInv, BatchInv, TypeOK
<1>2. \A p \in PayslipIds : payslips[p] # NoRow =>
        payslips[p].run \in RunIds /\ runs[payslips[p].run] # NoRow
  BY <1>1 DEF BatchIInv, BatchInv, NoOrphans, Rows, Payslip
<1>3. \A d \in DeductionIds : deductions[d] # NoRow =>
        deductions[d].run \in RunIds /\ runs[deductions[d].run] # NoRow
  BY <1>1 DEF BatchIInv, BatchInv, NoOrphans, Rows, Deduction
<1>4. ASSUME NEW r \in RunIds, DeleteRun(r), Deletable(r)
      PROVE  /\ UNCHANGED <<payslips, deductions>>
             /\ \A p \in PayslipIds : payslips[p] # NoRow => payslips[p].run # r
             /\ \A d \in DeductionIds : deductions[d] # NoRow => deductions[d].run # r
  BY <1>1, <1>4 DEF DeleteRun, Deletable, PayslipsOf, Rows, OnlyRun
<1>5. ASSUME NEW p \in Rows(payslips')
      PROVE  runs'[payslips'[p].run] # NoRow
  <2>1. p \in PayslipIds /\ payslips'[p] # NoRow
    BY <1>1, <1>5 DEF Rows
  <2>2. CASE payslips'[p] = payslips[p]
    BY <1>2, <1>4, <2>1, <2>2, RunsStep
  <2>3. ASSUME NEW w \in Workers, ClearPayslips(w)
        PROVE  payslips'[p] = payslips[p]
    BY <2>1, <2>3 DEF ClearPayslips
  <2>4. ASSUME NEW q \in PayslipIds, NEW e \in Employees, NEW r \in RunIds,
               NEW itemized \in BOOLEAN, Inserts(q, e, r, itemized),
               runs[r] # NoRow, UNCHANGED runs
        PROVE  payslips'[p] = payslips[p] \/ runs'[payslips'[p].run] # NoRow
    BY <1>1, <2>1, <2>4 DEF Inserts
  <2> QED
    BY <2>2, <2>3, <2>4, PayslipsStep
<1>6. ASSUME NEW d \in Rows(deductions')
      PROVE  runs'[deductions'[d].run] # NoRow
  <2>1. d \in DeductionIds /\ deductions'[d] # NoRow
    BY <1>1, <1>6 DEF Rows
  <2>2. CASE deductions'[d] = deductions[d]
    BY <1>3, <1>4, <2>1, <2>2, RunsStep
  <2>3. CASE WriteDeduction /\ deductions'[d] # deductions[d]
    BY <1>1, <2>1, <2>3 DEF WriteDeduction
  <2> QED
    BY <2>2, <2>3, DeductionsStep
<1> QED
  BY <1>5, <1>6 DEF NoOrphans

THEOREM BatchIInvariant == Spec => []BatchIInv
<1>1. Init => BatchIInv
  <2> SUFFICES ASSUME Init
               PROVE  BatchIInv
    OBVIOUS
  <2>1. batch \in [Workers -> Batch] /\ \A w \in Workers : batch[w].at = "idle"
    BY IdleIsBatch DEF Init
  <2>2. TypeOK
    BY <2>1, BoundsAssumption DEF Init, TypeOK, Batch, IdleClerk
  <2> QED
    BY <2>1, <2>2 DEF Init, BatchIInv, BatchInv, NoOrphans, UnderWay, At, Rows
<1>2. BatchIInv /\ [Next]_vars => BatchIInv'
  BY BatchTypeStep, OrphansStep DEF BatchIInv, BatchInv
<1> QED
  BY <1>1, <1>2, PTL DEF Spec

\* No payslip and no deduction outlives its run, however many workers process,
\* delete and write to runs at the same time.
THEOREM NothingIsOrphaned == Spec => []BatchInv
BY BatchIInvariant, PTL DEF BatchIInv

-----------------------------------------------------------------------------
(* One batch at a time *)

OneBatch == \A v, w \in Workers : v = w

\* No employee has two payslips that a batch computed for the run.
PaidOnce(r) ==
  \A p, q \in Itemized(r) : payslips[p].employee = payslips[q].employee => p = q

\* The batch is done with the employees who are eligible and not still to do: the
\* payslips it computed are theirs, and each of them has a payslip.
Accounts(r, eligible, todo) ==
  /\ PaidOnce(r)
  /\ PaidBy(Itemized(r)) \subseteq eligible \ todo
  /\ eligible \ todo \subseteq PaidBy(PayslipsOf(r))

Paying == {"next_employee", "find_payslip", "record_payslip", "complete"}

\* A batch works on an open run, and accounts for it once the old payslips are
\* gone and the eligible employees are known.
Progress(w) ==
  LET b == batch[w] IN
  /\ b.at # "idle" => runs[b.run] # "COMPLETED"
  /\ b.at = "list_eligible" => Itemized(b.run) = {}
  /\ b.at \in Paying => Accounts(b.run, b.eligible, b.todo) /\ b.todo \subseteq b.eligible
  /\ b.at \in {"find_payslip", "record_payslip"} => b.current \in b.todo
  /\ b.at = "complete" => b.todo = {}

SoloInv ==
  /\ \A r \in RunIds : runs[r] = "COMPLETED" => PaidOnce(r)
  /\ \A w \in Workers : Progress(w)

(* What a write to the payslips means for one run *)

LEMMA SamePayslips ==
  ASSUME NEW r, NEW eligible, NEW todo, UNCHANGED payslips
  PROVE  /\ Itemized(r)' = Itemized(r)
         /\ PaidOnce(r)' = PaidOnce(r)
         /\ Accounts(r, eligible, todo)' = Accounts(r, eligible, todo)
<1>1. /\ Itemized(r)' = Itemized(r)
      /\ PayslipsOf(r)' = PayslipsOf(r)
  BY DEF Itemized, PayslipsOf, Rows
<1>2. PaidOnce(r)' = PaidOnce(r)
  BY <1>1 DEF PaidOnce
<1>3. PaidBy(Itemized(r))' = PaidBy(Itemized(r))
  BY <1>1 DEF PaidBy
<1>4. PaidBy(PayslipsOf(r))' = PaidBy(PayslipsOf(r))
  BY <1>1 DEF PaidBy
<1> QED
  BY <1>1, <1>2, <1>3, <1>4 DEF Accounts

\* The payslips of a run after an insertion.
LEMMA InsertedPayslip ==
  ASSUME TypeOK, NEW p \in PayslipIds, NEW e \in Employees, NEW s \in RunIds,
         NEW itemized \in BOOLEAN, Inserts(p, e, s, itemized), NEW r
  PROVE  /\ p \notin PayslipsOf(r)
         /\ PayslipsOf(r)' = PayslipsOf(r) \cup (IF s = r THEN {p} ELSE {})
         /\ Itemized(r)' = Itemized(r) \cup (IF s = r /\ itemized THEN {p} ELSE {})
         /\ \A q \in PayslipsOf(r) : payslips'[q] = payslips[q]
         /\ payslips'[p].employee = e
<1> DEFINE row == [employee |-> e, run |-> s, itemized |-> itemized]
<1>1. row # NoRow /\ row.employee = e /\ row.run = s /\ row.itemized = itemized
  <2>1. row \in Payslip
    BY DEF Payslip
  <2> QED
    BY <2>1, NoRowAssumption
<1>2. /\ DOMAIN payslips = PayslipIds /\ DOMAIN payslips' = PayslipIds
      /\ payslips[p] = NoRow /\ payslips'[p] = row
      /\ \A q \in PayslipIds \ {p} : payslips'[q] = payslips[q]
  BY DEF TypeOK, Inserts
<1> HIDE DEF row
<1>3. p \notin PayslipsOf(r) /\ \A q \in PayslipsOf(r) : payslips'[q] = payslips[q]
  BY <1>2 DEF PayslipsOf, Rows
<1>4. PayslipsOf(r)' = PayslipsOf(r) \cup (IF s = r THEN {p} ELSE {})
  BY <1>1, <1>2 DEF PayslipsOf, Rows
<1>5. Itemized(r)' = Itemized(r) \cup (IF s = r /\ itemized THEN {p} ELSE {})
  BY <1>1, <1>2, <1>3, <1>4 DEF Itemized
<1> QED
  BY <1>1, <1>2, <1>3, <1>4, <1>5

\* A payslip that an employee posts, or that is for another run, changes nothing.
LEMMA ForeignPayslip ==
  ASSUME TypeOK, NEW p \in PayslipIds, NEW e \in Employees, NEW s \in RunIds,
         NEW itemized \in BOOLEAN, Inserts(p, e, s, itemized),
         NEW r, s = r => ~ itemized, NEW eligible, NEW todo
  PROVE  /\ Itemized(r)' = Itemized(r)
         /\ PaidOnce(r) => PaidOnce(r)'
         /\ Accounts(r, eligible, todo) => Accounts(r, eligible, todo)'
<1>1. /\ Itemized(r)' = Itemized(r)
      /\ PayslipsOf(r) \subseteq PayslipsOf(r)'
      /\ \A q \in PayslipsOf(r) : payslips'[q] = payslips[q]
  <2>1. /\ PayslipsOf(r)' = PayslipsOf(r) \cup (IF s = r THEN {p} ELSE {})
        /\ Itemized(r)' = Itemized(r) \cup (IF s = r /\ itemized THEN {p} ELSE {})
        /\ \A q \in PayslipsOf(r) : payslips'[q] = payslips[q]
    BY InsertedPayslip
  <2>2. ~ (s = r /\ itemized)
    OBVIOUS
  <2> QED
    BY <2>1, <2>2
<1>2. Itemized(r) \subseteq PayslipsOf(r)
  BY DEF Itemized
<1>3. PaidOnce(r) => PaidOnce(r)'
  BY <1>1, <1>2 DEF PaidOnce
<1>4. PaidBy(Itemized(r))' = PaidBy(Itemized(r))
  BY <1>1, <1>2 DEF PaidBy
<1>5. PaidBy(PayslipsOf(r)) \subseteq PaidBy(PayslipsOf(r))'
  BY <1>1 DEF PaidBy
<1>6. ASSUME Accounts(r, eligible, todo)
      PROVE  Accounts(r, eligible, todo)'
  <2>1. PaidOnce(r)' /\ PaidBy(Itemized(r))' \subseteq eligible \ todo
    BY <1>3, <1>4, <1>6 DEF Accounts
  <2>2. eligible \ todo \subseteq PaidBy(PayslipsOf(r))'
    BY <1>5, <1>6 DEF Accounts
  <2> QED
    BY <2>1, <2>2 DEF Accounts
<1> QED
  BY <1>1, <1>3, <1>6, Zenon

\* A payslip that the batch computes for an employee it had still to do.
LEMMA ComputedPayslip ==
  ASSUME TypeOK, NEW p \in PayslipIds, NEW e \in Employees, NEW r \in RunIds,
         Inserts(p, e, r, TRUE), NEW eligible, NEW todo, todo \subseteq eligible,
         e \in todo, Accounts(r, eligible, todo)
  PROVE  Accounts(r, eligible, todo \ {e})'
<1>1. /\ p \notin PayslipsOf(r)
      /\ PayslipsOf(r)' = PayslipsOf(r) \cup {p}
      /\ Itemized(r)' = Itemized(r) \cup {p}
      /\ \A q \in PayslipsOf(r) : payslips'[q] = payslips[q]
      /\ payslips'[p].employee = e
  <2>1. /\ p \notin PayslipsOf(r)
        /\ PayslipsOf(r)' = PayslipsOf(r) \cup (IF r = r THEN {p} ELSE {})
        /\ Itemized(r)' = Itemized(r) \cup (IF r = r /\ TRUE THEN {p} ELSE {})
        /\ \A q \in PayslipsOf(r) : payslips'[q] = payslips[q]
        /\ payslips'[p].employee = e
    BY InsertedPayslip, Zenon
  <2> QED
    BY <2>1
<1>2. Itemized(r) \subseteq PayslipsOf(r)
  BY DEF Itemized
<1>3. PaidBy(Itemized(r))' = PaidBy(Itemized(r)) \cup {e}
  BY <1>1, <1>2 DEF PaidBy
<1>4. PaidBy(PayslipsOf(r))' = PaidBy(PayslipsOf(r)) \cup {e}
  BY <1>1 DEF PaidBy
<1>5. \A q \in Itemized(r) : payslips[q].employee # e
  BY DEF Accounts, PaidBy
<1>6. PaidOnce(r)'
  BY <1>1, <1>2, <1>5 DEF PaidOnce, Accounts
<1> QED
  BY <1>3, <1>4, <1>6 DEF Accounts

\* An employee who has a payslip already is done with.
LEMMA SkippedEmployee ==
  ASSUME NEW r, NEW e, NEW eligible, NEW todo, e \in todo, todo \subseteq eligible,
         Accounts(r, eligible, todo), PayslipsFor(r, e) # {}
  PROVE  Accounts(r, eligible, todo \ {e})
<1>1. e \in PaidBy(PayslipsOf(r))
  BY DEF PayslipsFor, PaidBy
<1> QED
  BY <1>1 DEF Accounts

LEMMA NothingToAccountFor ==
  ASSUME NEW r, NEW eligible, Itemized(r) = {}
  PROVE  Accounts(r, eligible, eligible)
BY DEF Accounts, PaidOnce, PaidBy

LEMMA ClearedPayslips ==
  ASSUME TypeOK, NEW w \in Workers, ClearPayslips(w), NEW r
  PROVE  /\ r = batch[w].run => Itemized(r)' = {}
         /\ r # batch[w].run => PaidOnce(r)' = PaidOnce(r)
<1>1. /\ DOMAIN payslips = PayslipIds /\ DOMAIN payslips' = PayslipIds
      /\ \A p \in PayslipIds :
           payslips'[p] = IF p \in PayslipsOf(batch[w].run) THEN NoRow ELSE payslips[p]
  BY DEF TypeOK, ClearPayslips
<1>2. ASSUME r = batch[w].run
      PROVE  Itemized(r)' = {}
  BY <1>1, <1>2 DEF Itemized, PayslipsOf, Rows
<1>3. ASSUME r # batch[w].run
      PROVE  PaidOnce(r)' = PaidOnce(r)
  <2>1. \A p \in PayslipsOf(r) : payslips'[p] = payslips[p]
    BY <1>1, <1>3 DEF PayslipsOf, Rows
  <2>2. PayslipsOf(r)' = PayslipsOf(r)
    BY <1>1, <1>3 DEF PayslipsOf, Rows
  <2>3. Itemized(r)' = Itemized(r)
    BY <2>1, <2>2 DEF Itemized
  <2> QED
    BY <2>1, <2>3 DEF PaidOnce, Itemized
<1> QED
  BY <1>2, <1>3

LEMMA RunsChange ==
  ASSUME BatchIInv, [Next]_vars
  PROVE  \/ UNCHANGED runs
         \/ UNCHANGED payslips /\ \E w \in Workers :
              At(w, "flush_start") /\ runs' = [runs EXCEPT ![batch[w].run] = "PROCESSING"]
         \/ UNCHANGED payslips /\ \E w \in Workers :
              Completes(w) /\ runs' = [runs EXCEPT ![batch[w].run] = "COMPLETED"]
         \/ UNCHANGED payslips /\ \E r \in RunIds :
              runs[r] = NoRow /\ runs' = [runs EXCEPT ![r] = "DRAFT"]
         \/ UNCHANGED payslips /\ \E r \in RunIds :
              PayslipsOf(r) = {} /\ runs' = [runs EXCEPT ![r] = NoRow]
<1>1. ASSUME NEW w \in Workers, FlushStart(w)
      PROVE  \/ UNCHANGED runs
             \/ /\ UNCHANGED payslips /\ At(w, "flush_start")
                /\ runs' = [runs EXCEPT ![batch[w].run] = "PROCESSING"]
  BY <1>1 DEF FlushStart, OnlyBatch, OnlyRun
<1>2. ASSUME NEW w \in Workers, Complete(w)
      PROVE  \/ UNCHANGED runs
             \/ /\ UNCHANGED payslips /\ Completes(w)
                /\ runs' = [runs EXCEPT ![batch[w].run] = "COMPLETED"]
  BY <1>2 DEF Complete, Completes, OnlyRun
<1>3. ASSUME NEW r \in RunIds, CreateRun(r)
      PROVE  UNCHANGED payslips /\ runs[r] = NoRow /\ runs' = [runs EXCEPT ![r] = "DRAFT"]
  BY <1>3 DEF CreateRun, OnlyRun
<1>4. ASSUME NEW r \in RunIds, DeleteRun(r)
      PROVE  \/ UNCHANGED runs
             \/ /\ UNCHANGED payslips /\ PayslipsOf(r) = {}
                /\ runs' = [runs EXCEPT ![r] = NoRow]
  BY <1>4 DEF DeleteRun, Deletable, OnlyRun
<1>5. ASSUME NEW w \in Workers,
             \/ ReadRun(w) \/ CheckRun(w) \/ ClearPayslips(w) \/ ListEligible(w)
             \/ NextEmployee(w) \/ FindPayslip(w) \/ RecordPayslip(w) \/ Crash(w)
             \/ \E r \in RunIds : Process(w, r)
      PROVE  UNCHANGED runs
  BY <1>5 DEF ReadRun, CheckRun, ClearPayslips, ListEligible, NextEmployee, FindPayslip,
              RecordPayslip, Crash, Process, OnlyBatch, OnlyPayslips
<1>6. ASSUME \/ \E r \in RunIds, e \in Employees : PostPayslip(e, r)
             \/ \E call \in {"insert", "update", "delete"}, d \in DeductionIds,
                   row \in Deduction : CheckDeduction(call, d, row)
             \/ WriteDeduction
             \/ \E e \in Employees : ChangeCompensation(e)
             \/ UNCHANGED vars
      PROVE  UNCHANGED runs
  BY <1>6 DEF PostPayslip, CheckDeduction, WriteDeduction, ChangeCompensation,
              OnlyPayslips, vars
<1> QED
  BY <1>1, <1>2, <1>3, <1>4, <1>5, <1>6 DEF Next, Step

\* A batch only ever writes the payslips of an open run.
LEMMA BatchWritesOpenRuns ==
  ASSUME BatchIInv, SoloInv, NEW w \in Workers, RecordPayslip(w) \/ ClearPayslips(w)
  PROVE  runs[batch[w].run] # "COMPLETED"
BY DEF SoloInv, Progress, RecordPayslip, ClearPayslips, At

LEMMA CompletedStep ==
  ASSUME BatchIInv, SoloInv, [Next]_vars, NEW r \in RunIds, runs'[r] = "COMPLETED"
  PROVE  PaidOnce(r)'
<1>1. TypeOK /\ runs \in [RunIds -> Status \cup {NoRow}]
  BY DEF BatchIInv, BatchInv, TypeOK
<1>2. CASE UNCHANGED payslips
  <2>1. CASE runs[r] = "COMPLETED"
    BY <1>2, <2>1, SamePayslips DEF SoloInv
  <2>2. CASE runs[r] # "COMPLETED"
    <3>1. PICK w \in Workers : Completes(w) /\ batch[w].run = r
      BY <1>1, <2>2, RunsChange, NoRowAssumption DEF Status
    <3>2. Accounts(batch[w].run, batch[w].eligible, batch[w].todo)
      BY <3>1 DEF SoloInv, Progress, Completes, At, Paying
    <3> QED
      BY <1>2, <3>1, <3>2, SamePayslips DEF Accounts
  <2> QED
    BY <2>1, <2>2
<1>3. ASSUME NEW w \in Workers, ClearPayslips(w)
      PROVE  PaidOnce(r)'
  <2>1. runs[r] = "COMPLETED"
    BY <1>3 DEF ClearPayslips, OnlyPayslips
  <2> QED
    BY <1>1, <1>3, <2>1, BatchWritesOpenRuns, ClearedPayslips DEF SoloInv
<1>4. ASSUME NEW p \in PayslipIds, NEW e \in Employees, NEW s \in RunIds,
             NEW itemized \in BOOLEAN, Inserts(p, e, s, itemized), UNCHANGED runs,
             itemized => \E w \in Workers : RecordPayslip(w) /\ batch[w].run = s
      PROVE  PaidOnce(r)'
  <2>1. runs[r] = "COMPLETED"
    BY <1>4
  <2>2. s = r => ~ itemized
    BY <1>4, <2>1, BatchWritesOpenRuns
  <2> QED
    BY <1>1, <1>4, <2>1, <2>2, ForeignPayslip DEF SoloInv
<1> QED
  BY <1>2, <1>3, <1>4, PayslipsStep

\* The calls of others leave a batch where it is, with its account.
LEMMA OthersKeepProgress ==
  ASSUME BatchIInv, SoloInv, [Next]_vars, NEW w \in Workers,
         \/ \E r \in RunIds : \/ CreateRun(r) \/ DeleteRun(r)
                              \/ \E e \in Employees : PostPayslip(e, r)
         \/ \E call \in {"insert", "update", "delete"}, d \in DeductionIds,
               row \in Deduction : CheckDeduction(call, d, row)
         \/ WriteDeduction
         \/ \E e \in Employees : ChangeCompensation(e)
         \/ UNCHANGED vars
  PROVE  Progress(w)'
<1> DEFINE b == batch[w]
<1>1. UNCHANGED batch
  BY DEF CreateRun, DeleteRun, PostPayslip, CheckDeduction, WriteDeduction,
         ChangeCompensation, OnlyRun, OnlyPayslips, vars
<1>2. TypeOK /\ runs \in [RunIds -> Status \cup {NoRow}] /\ Progress(w)
  BY DEF BatchIInv, BatchInv, TypeOK, SoloInv
<1>3. b.at # "idle" => b.run \in RunIds
  BY DEF BatchIInv, UnderWay, At
<1>4. b.at # "idle" => runs'[b.run] # "COMPLETED"
  <2>1. ASSUME NEW r \in RunIds, CreateRun(r), b.at # "idle"
        PROVE  runs'[b.run] = runs[b.run]
    BY <1>2, <1>3, <2>1 DEF CreateRun
  <2>2. ASSUME NEW r \in RunIds, DeleteRun(r), b.at # "idle"
        PROVE  runs'[b.run] \in {runs[b.run], NoRow}
    BY <1>2, <1>3, <2>2 DEF DeleteRun
  <2>3. ASSUME \/ \E r \in RunIds, e \in Employees : PostPayslip(e, r)
               \/ \E call \in {"insert", "update", "delete"}, d \in DeductionIds,
                     row \in Deduction : CheckDeduction(call, d, row)
               \/ WriteDeduction
               \/ \E e \in Employees : ChangeCompensation(e)
               \/ UNCHANGED vars
        PROVE  UNCHANGED runs
    BY <2>3 DEF PostPayslip, CheckDeduction, WriteDeduction, ChangeCompensation,
                OnlyPayslips, vars
  <2>4. NoRow # "COMPLETED"
    BY NoRowAssumption DEF Status
  <2> QED
    BY <1>2, <2>1, <2>2, <2>3, <2>4 DEF Progress
<1>5. \A r : /\ Itemized(r)' = Itemized(r)
             /\ \A eligible, todo :
                  Accounts(r, eligible, todo) => Accounts(r, eligible, todo)'
  <2>1. ASSUME NEW s \in RunIds, NEW e \in Employees, PostPayslip(e, s), NEW r
        PROVE  /\ Itemized(r)' = Itemized(r)
               /\ \A eligible, todo :
                    Accounts(r, eligible, todo) => Accounts(r, eligible, todo)'
    <3>1. PICK p \in PayslipIds : Inserts(p, e, s, FALSE)
      BY <2>1 DEF PostPayslip, InsertPayslip, Inserts
    <3> QED
      BY <1>2, <3>1, ForeignPayslip
  <2>2. CASE UNCHANGED payslips
    BY <2>2, SamePayslips
  <2>3. ASSUME \/ \E r \in RunIds : CreateRun(r) \/ DeleteRun(r)
               \/ \E call \in {"insert", "update", "delete"}, d \in DeductionIds,
                     row \in Deduction : CheckDeduction(call, d, row)
               \/ WriteDeduction
               \/ \E e \in Employees : ChangeCompensation(e)
               \/ UNCHANGED vars
        PROVE  UNCHANGED payslips
    BY <2>3 DEF CreateRun, DeleteRun, CheckDeduction, WriteDeduction, ChangeCompensation,
                OnlyRun, vars
  <2> QED
    BY <2>1, <2>2, <2>3
<1> QED
  BY <1>1, <1>2, <1>4, <1>5 DEF Progress

\* A batch that moves on without writing keeps its account, if its next point
\* asks for nothing more.
LEMMA GoToKeepsProgress ==
  ASSUME TypeOK, NEW w \in Workers, Progress(w), NEW point \in Points, GoTo(w, point),
         ~ At(w, "idle"), UNCHANGED payslips,
         runs'[batch[w].run] # "COMPLETED",
         point # "list_eligible",
         point \in Paying => batch[w].at \in Paying,
         point \in {"find_payslip", "record_payslip"} => At(w, "find_payslip"),
         point = "complete" => batch[w].todo = {}
  PROVE  Progress(w)'
<1> DEFINE b == batch[w]
           c == batch'[w]
<1>1. /\ c.at = point /\ c.run = b.run /\ c.eligible = b.eligible
      /\ c.todo = b.todo /\ c.current = b.current
  BY GoesTo
<1>2. \A r, eligible, todo : Accounts(r, eligible, todo)' = Accounts(r, eligible, todo)
  BY SamePayslips
<1> QED
  BY <1>1, <1>2 DEF Progress, At

LEMMA FinishedProgress ==
  ASSUME TypeOK, NEW w \in Workers, Finish(w)
  PROVE  Progress(w)'
<1>1. batch'[w].at = "idle"
  BY Finishes
<1> QED
  BY <1>1 DEF Progress, Paying

LEMMA StepKeepsProgress ==
  ASSUME BatchIInv, SoloInv, NEW w \in Workers, Step(w) \/ Crash(w)
  PROVE  Progress(w)'
<1> DEFINE b == batch[w]
           c == batch'[w]
<1>1. TypeOK /\ Progress(w) /\ runs \in [RunIds -> Status \cup {NoRow}]
  BY DEF BatchIInv, BatchInv, TypeOK, SoloInv
<1>2. ~ At(w, "idle") => b.run \in RunIds /\ runs[b.run] # "COMPLETED"
  BY <1>1 DEF BatchIInv, UnderWay, Progress, At
<1>3. CASE Finish(w)
  BY <1>1, <1>3, FinishedProgress
<1>4. CASE ReadRun(w) \/ CheckRun(w)
  <2>1. ~ At(w, "idle") /\ UNCHANGED <<runs, payslips>>
    BY <1>4 DEF ReadRun, CheckRun, At, OnlyBatch
  <2>2. ASSUME NEW point \in {"flush_start", "check_run", "clear_payslips"}, GoTo(w, point)
        PROVE  Progress(w)'
    <3>1. point \in Points /\ point \notin Paying /\ point # "list_eligible"
      BY DEF Points, Paying
    <3>2. point \notin {"find_payslip", "record_payslip", "complete"}
      OBVIOUS
    <3> QED
      BY <1>1, <1>2, <2>1, <2>2, <3>1, <3>2, GoToKeepsProgress
  <2>3. \/ GoTo(w, "flush_start") \/ GoTo(w, "check_run") \/ GoTo(w, "clear_payslips")
        \/ Finish(w)
    BY <1>4 DEF ReadRun, CheckRun
  <2> QED
    BY <1>3, <2>2, <2>3
<1>5. CASE FlushStart(w) /\ ~ Finish(w)
  <2>1. /\ At(w, "flush_start") /\ GoTo(w, "check_run") /\ UNCHANGED payslips
        /\ runs' = [runs EXCEPT ![b.run] = "PROCESSING"]
    BY <1>5 DEF FlushStart, OnlyRun
  <2>2. runs'[b.run] # "COMPLETED" /\ ~ At(w, "idle")
    BY <1>1, <1>2, <2>1 DEF At
  <2>3. /\ "check_run" \in Points /\ "check_run" \notin Paying
        /\ "check_run" \notin {"find_payslip", "record_payslip", "complete", "list_eligible"}
    BY DEF Points, Paying
  <2> QED
    BY <1>1, <2>1, <2>2, <2>3, GoToKeepsProgress
<1>6. CASE ClearPayslips(w)
  <2>1. /\ ~ At(w, "idle") /\ GoTo(w, "list_eligible") /\ UNCHANGED runs
    BY <1>6 DEF ClearPayslips, At, OnlyPayslips
  <2>2. c.at = "list_eligible" /\ c.run = b.run
    BY <1>1, <2>1, GoesTo DEF Points
  <2>3. \A r : r = b.run => Itemized(r)' = {}
    BY <1>1, <1>6, ClearedPayslips
  <2> QED
    BY <1>2, <2>1, <2>2, <2>3 DEF Progress, Paying
<1>7. CASE ListEligible(w)
  <2>1. At(w, "list_eligible") /\ ~ At(w, "idle") /\ UNCHANGED <<runs, payslips>>
    BY <1>7 DEF ListEligible, At, OnlyBatch
  <2>2. /\ c.at = "next_employee" /\ c.run = b.run
        /\ c.eligible = Eligible /\ c.todo = Eligible
    BY <1>1, <1>7, ListsEligible
  <2>3. Accounts(b.run, Eligible, Eligible)
    BY <1>1, <2>1, NothingToAccountFor DEF Progress, At
  <2>4. \A r, eligible, todo : Accounts(r, eligible, todo)' = Accounts(r, eligible, todo)
    BY <2>1, SamePayslips
  <2> QED
    BY <1>2, <2>1, <2>2, <2>3, <2>4 DEF Progress
<1>8. CASE NextEmployee(w) /\ ~ Finish(w)
  <2>1. At(w, "next_employee") /\ ~ At(w, "idle") /\ UNCHANGED <<runs, payslips>>
    BY <1>8 DEF NextEmployee, At, OnlyBatch
  <2>2. CASE b.todo = {} /\ GoTo(w, "complete")
    <3>1. "complete" \in Points /\ b.at \in Paying
      BY <2>1 DEF Points, Paying, At
    <3> QED
      BY <1>1, <1>2, <2>1, <2>2, <3>1, GoToKeepsProgress
  <2>3. ASSUME NEW e \in b.todo, TakesUp(w, e)
        PROVE  Progress(w)'
    <3>1. /\ c.at = "find_payslip" /\ c.run = b.run /\ c.eligible = b.eligible
          /\ c.todo = b.todo /\ c.current = e
      BY <1>1, <2>3, NextIsTakenUp
    <3>2. Accounts(b.run, b.eligible, b.todo) /\ b.todo \subseteq b.eligible
      BY <1>1, <2>1 DEF Progress, At, Paying
    <3>3. \A r, eligible, todo : Accounts(r, eligible, todo)' = Accounts(r, eligible, todo)
      BY <2>1, SamePayslips
    <3> QED
      BY <1>2, <2>1, <3>1, <3>2, <3>3 DEF Progress
  <2> QED
    BY <1>8, <2>2, <2>3 DEF NextEmployee, TakesUp
<1>9. ASSUME NEW r, NEW eligible, NEW todo,
             r = b.run, eligible = b.eligible, todo = b.todo \ {b.current},
             Accounts(r, eligible, todo)', DoneWithCurrent(w), ~ At(w, "idle"),
             UNCHANGED runs, b.todo \subseteq b.eligible
      PROVE  Progress(w)'
  <2>1. /\ c.at = "next_employee" /\ c.run = r /\ c.eligible = eligible /\ c.todo = todo
    BY <1>1, <1>9, IsDoneWithCurrent
  <2> QED
    BY <1>2, <1>9, <2>1 DEF Progress
<1>10. CASE FindPayslip(w)
  <2>1. At(w, "find_payslip") /\ ~ At(w, "idle") /\ UNCHANGED <<runs, payslips>>
    BY <1>10 DEF FindPayslip, At, OnlyBatch
  <2>2. /\ Accounts(b.run, b.eligible, b.todo) /\ b.todo \subseteq b.eligible
        /\ b.current \in b.todo
    BY <1>1, <2>1 DEF Progress, At, Paying
  <2>3. CASE GoTo(w, "record_payslip")
    <3>1. "record_payslip" \in Points /\ b.at \in Paying
      BY <2>1 DEF Points, Paying, At
    <3> QED
      BY <1>1, <1>2, <2>1, <2>3, <3>1, GoToKeepsProgress
  <2>4. CASE DoneWithCurrent(w) /\ PayslipsFor(b.run, b.current) # {}
    <3>1. PICK r, eligible, todo :
            r = b.run /\ eligible = b.eligible /\ todo = b.todo \ {b.current}
      OBVIOUS
    <3>2. Accounts(r, eligible, todo)
      BY <2>2, <2>4, <3>1, SkippedEmployee
    <3>3. Accounts(r, eligible, todo)'
      BY <2>1, <3>2, SamePayslips
    <3> QED
      BY <1>9, <2>1, <2>2, <2>4, <3>1, <3>3
  <2> QED
    BY <1>10, <2>3, <2>4 DEF FindPayslip
<1>11. CASE RecordPayslip(w)
  <2>1. At(w, "record_payslip") /\ ~ At(w, "idle") /\ b.run \in RunIds
    BY <1>2, <1>11 DEF RecordPayslip, At
  <2>2. /\ Accounts(b.run, b.eligible, b.todo) /\ b.todo \subseteq b.eligible
        /\ b.current \in b.todo
    BY <1>1, <2>1 DEF Progress, At, Paying
  <2>3. CASE runs[b.run] # NoRow
    <3>1. PICK p \in PayslipIds : Inserts(p, b.current, b.run, TRUE)
      BY <1>11, <2>3 DEF RecordPayslip, InsertPayslip, Inserts
    <3>2. DoneWithCurrent(w) /\ UNCHANGED runs
      BY <1>11, <2>3 DEF RecordPayslip, OnlyPayslips
    <3>3. PICK r, e, eligible, before, todo :
            /\ r = b.run /\ e = b.current /\ eligible = b.eligible
            /\ before = b.todo /\ todo = before \ {e}
      OBVIOUS
    <3>4. e \in Employees /\ r \in RunIds
      BY <2>1, <3>3 DEF BatchIInv, UnderWay
    <3>5. Accounts(r, eligible, todo)'
      BY <1>1, <2>2, <3>1, <3>3, <3>4, ComputedPayslip
    <3> QED
      BY <1>9, <2>1, <2>2, <3>2, <3>3, <3>5
  <2> QED
    BY <1>3, <1>11, <2>3 DEF RecordPayslip
<1> QED
  BY <1>3, <1>4, <1>5, <1>6, <1>7, <1>8, <1>10, <1>11 DEF Step, Complete, Crash

LEMMA SoloStep ==
  ASSUME OneBatch
  PROVE  BatchIInv /\ SoloInv /\ [Next]_vars => SoloInv'
<1> SUFFICES ASSUME BatchIInv, SoloInv, [Next]_vars
             PROVE  SoloInv'
  OBVIOUS
<1>1. \A r \in RunIds : runs'[r] = "COMPLETED" => PaidOnce(r)'
  BY CompletedStep
<1>2. ASSUME NEW w \in Workers
      PROVE  Progress(w)'
  <2>1. ASSUME NEW r \in RunIds, Process(w, r)
        PROVE  Progress(w)'
    <3>1. batch'[w].at = "read_run" /\ batch'[w].run = r
      BY <2>1, Processes DEF BatchIInv, BatchInv
    <3>2. runs'[r] # "COMPLETED"
      BY <2>1 DEF Process, OnlyBatch
    <3> QED
      BY <3>1, <3>2 DEF Progress, Paying
  <2>2. CASE Step(w) \/ Crash(w)
    BY <2>2, StepKeepsProgress
  <2>3. \A v \in Workers : v = w
    BY DEF OneBatch
  <2>4. \/ Step(w) \/ Crash(w) \/ \E r \in RunIds : Process(w, r)
        \/ \E r \in RunIds : \/ CreateRun(r) \/ DeleteRun(r)
                             \/ \E e \in Employees : PostPayslip(e, r)
        \/ \E call \in {"insert", "update", "delete"}, d \in DeductionIds,
              row \in Deduction : CheckDeduction(call, d, row)
        \/ WriteDeduction
        \/ \E e \in Employees : ChangeCompensation(e)
        \/ UNCHANGED vars
    BY <2>3 DEF Next
  <2> QED
    BY <2>1, <2>2, <2>4, OthersKeepProgress
<1> QED
  BY <1>1, <1>2 DEF SoloInv

LEMMA SoloInvariant ==
  ASSUME \A v, w \in Workers : v = w
  PROVE  Spec => []SoloInv
<1>1. Init => SoloInv
  <2> SUFFICES ASSUME Init
               PROVE  SoloInv
    OBVIOUS
  <2>1. \A r \in RunIds : runs[r] # "COMPLETED"
    BY NoRowAssumption DEF Init, Status
  <2>2. \A w \in Workers : batch[w].at = "idle"
    BY IdleIsBatch DEF Init
  <2> QED
    BY <2>1, <2>2 DEF SoloInv, Progress, Paying
<1>2. BatchIInv /\ SoloInv /\ [Next]_vars => SoloInv'
  BY SoloStep DEF OneBatch
<1> QED
  BY <1>1, <1>2, BatchIInvariant, PTL DEF Spec

\* With one batch at a time, a batch that completes its run has computed payslips
\* for nobody but the employees it found eligible, and each of them has one,
\* whatever crashed batches left behind and whatever others wrote meanwhile.
THEOREM CompletedRunsAreWhole ==
  ASSUME \A v, w \in Workers : v = w
  PROVE  Spec => WholeResults
<1> DEFINE Whole ==
      \A w \in Workers : Completes(w) =>
        /\ PaidBy(Itemized(batch[w].run)) \subseteq batch[w].eligible
        /\ batch[w].eligible \subseteq PaidBy(PayslipsOf(batch[w].run))
<1>1. SoloInv => Whole
  <2> SUFFICES ASSUME SoloInv, NEW w \in Workers, Completes(w)
               PROVE  /\ PaidBy(Itemized(batch[w].run)) \subseteq batch[w].eligible
                      /\ batch[w].eligible \subseteq PaidBy(PayslipsOf(batch[w].run))
    OBVIOUS
  <2>1. /\ Accounts(batch[w].run, batch[w].eligible, batch[w].todo)
        /\ batch[w].todo = {}
    BY DEF SoloInv, Progress, Paying, Completes, At
  <2> QED
    BY <2>1 DEF Accounts
<1> HIDE DEF Whole
<1>2. SoloInv /\ [Next]_vars => [Whole]_vars
  BY <1>1
<1>3. Spec => [][Whole]_vars
  BY <1>2, SoloInvariant, PTL DEF Spec
<1> QED
  BY <1>3 DEF WholeResults, Whole

-----------------------------------------------------------------------------
(* The results of a run keep the promise of PayrollPromise *)

\* The payslips of a completed run that a batch computed stay as they are.
LEMMA ResultsStay ==
  ASSUME BatchIInv, SoloInv, [Next]_vars, NEW r \in RunIds, runs[r] = "COMPLETED"
  PROVE  /\ Itemized(r)' = Itemized(r)
         /\ \A p \in Itemized(r) : payslips'[p] = payslips[p]
<1>1. TypeOK /\ Itemized(r) \subseteq PayslipsOf(r)
  BY DEF BatchIInv, BatchInv, Itemized
<1>2. CASE UNCHANGED payslips
  BY <1>2, SamePayslips
<1>3. ASSUME NEW w \in Workers, ClearPayslips(w)
      PROVE  /\ Itemized(r)' = Itemized(r)
             /\ \A p \in Itemized(r) : payslips'[p] = payslips[p]
  <2>1. batch[w].run # r
    BY <1>3, BatchWritesOpenRuns
  <2>2. /\ DOMAIN payslips = PayslipIds /\ DOMAIN payslips' = PayslipIds
        /\ \A p \in PayslipIds :
             payslips'[p] = IF p \in PayslipsOf(batch[w].run) THEN NoRow ELSE payslips[p]
    BY <1>1, <1>3 DEF TypeOK, ClearPayslips
  <2>3. \A p \in PayslipsOf(r) : payslips'[p] = payslips[p]
    BY <2>1, <2>2 DEF PayslipsOf, Rows
  <2>4. PayslipsOf(r)' = PayslipsOf(r)
    BY <2>1, <2>2 DEF PayslipsOf, Rows
  <2> QED
    BY <1>1, <2>3, <2>4 DEF Itemized
<1>4. ASSUME NEW p \in PayslipIds, NEW e \in Employees, NEW s \in RunIds,
             NEW itemized \in BOOLEAN, Inserts(p, e, s, itemized),
             itemized => \E w \in Workers : RecordPayslip(w) /\ batch[w].run = s
      PROVE  /\ Itemized(r)' = Itemized(r)
             /\ \A q \in Itemized(r) : payslips'[q] = payslips[q]
  <2>1. s = r => ~ itemized
    BY <1>4, BatchWritesOpenRuns
  <2>2. Itemized(r)' = Itemized(r)
    BY <1>1, <1>4, <2>1, ForeignPayslip
  <2>3. \A q \in PayslipsOf(r) : payslips'[q] = payslips[q]
    BY <1>1, <1>4, InsertedPayslip
  <2> QED
    BY <1>1, <2>2, <2>3
<1> QED
  BY <1>2, <1>3, <1>4, PayslipsStep

\* What a run shows, and that it shows the same as long as it stays completed or
\* stays open.
LEMMA PublishedRow ==
  ASSUME NEW r \in RunIds
  PROVE  Published[r] = IF runs[r] = "COMPLETED"
                        THEN [e \in Employees |->
                                Cardinality({p \in Itemized(r) : payslips[p].employee = e})]
                        ELSE NoRow
<1>1. \A e : Itemized(r) \cap PayslipsFor(r, e)
               = {p \in Itemized(r) : payslips[p].employee = e}
  BY DEF Itemized, PayslipsFor
<1> QED
  BY <1>1 DEF Published

LEMMA SamePublished ==
  ASSUME BatchIInv, SoloInv, [Next]_vars, NEW r \in RunIds,
         runs'[r] = "COMPLETED" <=> runs[r] = "COMPLETED"
  PROVE  Published'[r] = Published[r]
<1>1. Published'[r] = IF runs'[r] = "COMPLETED"
                      THEN [e \in Employees |->
                              Cardinality({p \in Itemized(r)' : payslips'[p].employee = e})]
                      ELSE NoRow
  <2>1. \A e : Itemized(r)' \cap PayslipsFor(r, e)'
                 = {p \in Itemized(r)' : payslips'[p].employee = e}
    BY DEF Itemized, PayslipsFor
  <2> QED
    BY <2>1 DEF Published
<1>2. CASE runs[r] = "COMPLETED"
  <2>1. /\ Itemized(r)' = Itemized(r)
        /\ \A p \in Itemized(r) : payslips'[p] = payslips[p]
    BY <1>2, ResultsStay
  <2>2. \A e : {p \in Itemized(r)' : payslips'[p].employee = e}
                 = {p \in Itemized(r) : payslips[p].employee = e}
    BY <2>1
  <2> QED
    BY <1>1, <1>2, <2>2, PublishedRow
<1>3. CASE runs[r] # "COMPLETED"
  BY <1>1, <1>3, PublishedRow
<1> QED
  BY <1>2, <1>3

\* Nobody is counted twice among the computed payslips of a run that pays once.
LEMMA CountedOnce ==
  ASSUME NEW r, PaidOnce(r), NEW e
  PROVE  Cardinality({p \in Itemized(r) : payslips[p].employee = e})
           = IF e \in PaidBy(Itemized(r)) THEN 1 ELSE 0
<1> DEFINE S == {p \in Itemized(r) : payslips[p].employee = e}
<1>1. CASE e \in PaidBy(Itemized(r))
  <2>1. PICK p \in Itemized(r) : payslips[p].employee = e
    BY <1>1 DEF PaidBy
  <2>2. S = {p}
    BY <2>1 DEF PaidOnce
  <2> QED
    BY <1>1, <2>2, FS_Singleton
<1>2. CASE e \notin PaidBy(Itemized(r))
  <2>1. S = {}
    BY <1>2 DEF PaidBy
  <2> QED
    BY <1>2, <2>1, FS_EmptySet
<1> QED
  BY <1>1, <1>2

LEMMA PublishedStep ==
  BatchIInv /\ SoloInv /\ [Next]_vars => [Promise!Next]_Published
<1> SUFFICES ASSUME BatchIInv, SoloInv, [Next]_vars
             PROVE  Promise!Next \/ UNCHANGED Published
  OBVIOUS
<1>1. runs \in [RunIds -> Status \cup {NoRow}] /\ NoRow # "COMPLETED"
  BY NoRowAssumption DEF BatchIInv, BatchInv, TypeOK, Status
<1>2. /\ Published = [r \in RunIds |-> Published[r]]
      /\ Published' = [r \in RunIds |-> Published'[r]]
  BY DEF Published
<1>3. ASSUME \A r \in RunIds : runs'[r] = "COMPLETED" <=> runs[r] = "COMPLETED"
      PROVE  UNCHANGED Published
  <2>1. \A r \in RunIds : Published'[r] = Published[r]
    BY <1>3, SamePublished
  <2> QED
    BY <1>2, <2>1
<1>4. ASSUME NEW w \in Workers, At(w, "flush_start"),
             runs' = [runs EXCEPT ![batch[w].run] = "PROCESSING"]
      PROVE  UNCHANGED Published
  <2>1. runs[batch[w].run] # "COMPLETED"
    BY <1>4 DEF SoloInv, Progress, At
  <2> QED
    BY <1>1, <1>3, <1>4, <2>1
<1>5. ASSUME NEW w \in Workers, Completes(w), UNCHANGED payslips,
             runs' = [runs EXCEPT ![batch[w].run] = "COMPLETED"]
      PROVE  Promise!Next
  <2>1. PICK r \in RunIds : r = batch[w].run
    BY <1>5 DEF BatchIInv, UnderWay, Completes, At
  <2>2. runs[r] # "COMPLETED" /\ runs'[r] = "COMPLETED"
        /\ \A s \in RunIds \ {r} : runs'[s] = runs[s]
    BY <1>1, <1>5, <2>1 DEF Completes
  <2>3. Published[r] = NoRow
    BY <2>2, PublishedRow
  <2> DEFINE paid == PaidBy(Itemized(r)) \cap Employees
  <2>4. PaidOnce(r)
    BY <1>5, <2>1 DEF SoloInv, Progress, Paying, Completes, At, Accounts
  <2>5. Published'[r] = [e \in Employees |-> IF e \in paid THEN 1 ELSE 0]
    <3>1. \A e : Itemized(r)' \cap PayslipsFor(r, e)'
                   = {p \in Itemized(r) : payslips[p].employee = e}
      BY <1>5 DEF Itemized, PayslipsFor, PayslipsOf, Rows
    <3>2. Published'[r] = [e \in Employees |->
                             Cardinality({p \in Itemized(r) : payslips[p].employee = e})]
      <4>1. Published'[r] = [e \in Employees |->
                               Cardinality(Itemized(r)' \cap PayslipsFor(r, e)')]
        BY <2>2 DEF Published
      <4> QED
        BY <3>1, <4>1
    <3>3. \A e \in Employees :
            Cardinality({p \in Itemized(r) : payslips[p].employee = e})
              = IF e \in paid THEN 1 ELSE 0
      BY <2>4, CountedOnce
    <3> HIDE DEF paid
    <3> QED
      BY <3>2, <3>3
  <2>6. \A s \in RunIds \ {r} : Published'[s] = Published[s]
    BY <2>2, SamePublished
  <2> HIDE DEF paid
  <2>7. Published' = [Published EXCEPT
                        ![r] = [e \in Employees |-> IF e \in paid THEN 1 ELSE 0]]
    BY <1>2, <2>5, <2>6
  <2>8. paid \in SUBSET Employees
    BY DEF paid
  <2> QED
    BY <2>3, <2>7, <2>8 DEF Promise!Next, Promise!Publish
<1>6. ASSUME NEW r \in RunIds, runs[r] = NoRow, runs' = [runs EXCEPT ![r] = "DRAFT"]
      PROVE  UNCHANGED Published
  BY <1>1, <1>3, <1>6
<1>7. ASSUME NEW r \in RunIds, PayslipsOf(r) = {}, runs' = [runs EXCEPT ![r] = NoRow]
      PROVE  Promise!Next \/ UNCHANGED Published
  <2>1. CASE runs[r] # "COMPLETED"
    BY <1>1, <1>3, <1>7, <2>1
  <2>2. CASE runs[r] = "COMPLETED"
    <3>1. runs'[r] # "COMPLETED" /\ \A s \in RunIds \ {r} : runs'[s] = runs[s]
      BY <1>1, <1>7
    <3>2. Published[r] = [e \in Employees |-> 0]
      <4>1. \A e : {p \in Itemized(r) : payslips[p].employee = e} = {}
        BY <1>7 DEF Itemized
      <4> QED
        BY <2>2, <4>1, PublishedRow, FS_EmptySet
    <3>3. Published'[r] = NoRow
      BY <3>1 DEF Published
    <3>4. \A s \in RunIds \ {r} : Published'[s] = Published[s]
      BY <3>1, SamePublished
    <3>5. Published' = [Published EXCEPT ![r] = NoRow]
      BY <1>2, <3>3, <3>4
    <3> QED
      BY <3>2, <3>5 DEF Promise!Next, Promise!Withdraw
  <2> QED
    BY <2>1, <2>2
<1> QED
  BY <1>3, <1>4, <1>5, <1>6, <1>7, RunsChange

\* With one batch at a time, PayrollBatch implements PayrollPromise: the results
\* of a run appear at once, pay nobody twice and stay, for any number of
\* employees, runs, crashes, reruns and other calls.
THEOREM ResultsKeepPromise ==
  ASSUME \A v, w \in Workers : v = w
  PROVE  Spec => KeepsPromise
<1>1. Init => Promise!Init
  BY NoRowAssumption DEF Init, Promise!Init, Published, Status
<1>2. BatchIInv /\ SoloInv /\ [Next]_vars => [Promise!Next]_Published
  BY PublishedStep
<1> QED
  BY <1>1, <1>2, BatchIInvariant, SoloInvariant, PTL DEF Spec, KeepsPromise, Promise!Spec

-----------------------------------------------------------------------------
(* Effective-dated rows: those of compensations are behind standing.  The *)
(* theorems are about HistorySpec when one handler at a time creates rows *)

OneHandler == \A v, w \in Workers : v = w

\* The query finds every row that shares a date with the new one.
LEMMA SharedDatesOverlap ==
  ASSUME NEW old \in Row, NEW new \in Row, NEW d \in Days,
         IsEffective(old, d), IsEffective(new, d)
  PROVE  Overlaps(old, new)
<1>1. /\ old.effective_from \in Int /\ new.effective_from \in Int /\ d \in Int
      /\ old.effective_to = Open \/ old.effective_to \in Int
      /\ new.effective_to = Open \/ new.effective_to \in Int
  BY DaysAssumption DEF Row
<1> QED
  BY <1>1 DEF IsEffective, Overlaps

\* An INSERT adds the row its handler has checked and leaves the others alone.
LEMMA InsertStep ==
  ASSUME HistoryTypeOK, NEW w \in Workers, NEW id \in Ids, InsertRow(w, id)
  PROVE  /\ pending[w] \in Row
         /\ id \notin RowIds
         /\ RowIds' = RowIds \cup {id}
         /\ table' \in [Ids -> Row \cup {None}]
         /\ table'[id] = pending[w]
         /\ \A i \in RowIds : table'[i] = table[i]
<1>1. pending[w] \in Row /\ pending[w] # None /\ table[id] = None
  BY DEF InsertRow, HistoryTypeOK
<1>2. table' = [table EXCEPT ![id] = pending[w]]
  BY DEF InsertRow
<1> QED
  BY <1>1, <1>2 DEF RowIds, HistoryTypeOK

\* An update changes nothing but is_active.
LEMMA SetActiveStep ==
  ASSUME HistoryTypeOK, NEW id \in Ids, NEW active \in BOOLEAN, SetActive(id, active)
  PROVE  /\ RowIds' = RowIds
         /\ table' \in [Ids -> Row \cup {None}]
         /\ \A i \in RowIds :
              /\ table'[i].employee_id = table[i].employee_id
              /\ table'[i].type = table[i].type
              /\ table'[i].effective_from = table[i].effective_from
              /\ table'[i].effective_to = table[i].effective_to
              /\ table'[i].corrects_id = table[i].corrects_id
<1>1. table[id] \in Row /\ id \in RowIds
  BY DEF SetActive, RowIds, HistoryTypeOK
<1>2. table' = [table EXCEPT ![id] = [table[id] EXCEPT !.is_active = active]]
  BY DEF SetActive
<1>3. [table[id] EXCEPT !.is_active = active] \in Row
  BY <1>1 DEF Row
<1>4. \A i \in RowIds : table'[i] = IF i = id THEN [table[id] EXCEPT !.is_active = active]
                                            ELSE table[i]
  BY <1>2 DEF RowIds, HistoryTypeOK
<1>5. \A i \in Ids : table'[i] # None <=> table[i] # None
  BY <1>1, <1>2, <1>3, NoneAssumption DEF RowIds, HistoryTypeOK
<1>6. table' \in [Ids -> Row \cup {None}]
  BY <1>2, <1>3 DEF HistoryTypeOK
<1>7. \A i \in RowIds : /\ table'[i].employee_id = table[i].employee_id
                      /\ table'[i].type = table[i].type
                      /\ table'[i].effective_from = table[i].effective_from
                      /\ table'[i].effective_to = table[i].effective_to
                      /\ table'[i].corrects_id = table[i].corrects_id
  BY <1>1, <1>4 DEF Row
<1> QED
  BY <1>5, <1>6, <1>7 DEF RowIds

LEMMA HistoryTypeStep ==
  ASSUME HistoryTypeOK, [HistoryNext]_hvars
  PROVE  HistoryTypeOK'
<1>1. CASE UNCHANGED hvars
  BY <1>1 DEF HistoryTypeOK, hvars
<1>2. ASSUME NEW w \in Workers, NEW row \in Row, CheckRow(w, row)
      PROVE  HistoryTypeOK'
  BY <1>2 DEF CheckRow, HistoryTypeOK
<1>3. ASSUME NEW w \in Workers, NEW id \in Ids, InsertRow(w, id)
      PROVE  HistoryTypeOK'
  BY <1>3, InsertStep DEF InsertRow, HistoryTypeOK
<1>4. ASSUME NEW w \in Workers, Abort(w)
      PROVE  HistoryTypeOK'
  BY <1>4 DEF Abort, HistoryTypeOK
<1>5. ASSUME NEW id \in Ids, NEW active \in BOOLEAN, SetActive(id, active)
      PROVE  HistoryTypeOK'
  BY <1>5, SetActiveStep DEF SetActive, HistoryTypeOK
<1> QED
  BY <1>1, <1>2, <1>3, <1>4, <1>5 DEF HistoryNext

\* The strengthened invariant survives an INSERT: what the handler checked is
\* what the invariant asks of the new row, and no other handler is in between.
LEMMA InsertKeepsHistory ==
  ASSUME OneHandler, HistoryInv, NEW w \in Workers, NEW id \in Ids, InsertRow(w, id)
  PROVE  CorrectionsStayHome' /\ OverlapsAreCorrections' /\ PendingIsAdmissible'
<1>1. /\ pending[w] \in Row
      /\ id \notin RowIds
      /\ RowIds' = RowIds \cup {id}
      /\ table'[id] = pending[w]
      /\ \A i \in RowIds : table'[i] = table[i] /\ table[i] \in Row
  BY InsertStep DEF HistoryInv, HistoryTypeOK, RowIds
<1>2. ValidTarget(pending[w]) /\ Free(pending[w])
  BY <1>1, NoneAssumption DEF HistoryInv, PendingIsAdmissible
<1>3. CorrectionsStayHome'
  BY <1>1, <1>2 DEF HistoryInv, CorrectionsStayHome, ValidTarget
<1>4. OverlapsAreCorrections'
  <2>1. SUFFICES ASSUME NEW i \in RowIds', NEW j \in RowIds', NEW d \in Days, i # j,
                        SameHistory(table'[i], table'[j]),
                        IsEffective(table'[i], d), IsEffective(table'[j], d)
                 PROVE  table'[i].corrects_id = j \/ table'[j].corrects_id = i
    BY DEF OverlapsAreCorrections
  <2>2. CASE i \in RowIds /\ j \in RowIds
    BY <1>1, <2>1, <2>2 DEF HistoryInv, OverlapsAreCorrections
  <2>3. ASSUME NEW k \in RowIds, SameHistory(table[k], pending[w]),
               IsEffective(table[k], d), IsEffective(pending[w], d)
        PROVE  pending[w].corrects_id = k
    BY <1>1, <1>2, <2>3, SharedDatesOverlap DEF Free
  <2>4. CASE i = id
    BY <1>1, <2>1, <2>3, <2>4 DEF SameHistory
  <2>5. CASE j = id
    BY <1>1, <2>1, <2>3, <2>5 DEF SameHistory
  <2> QED
    BY <1>1, <2>2, <2>4, <2>5
<1>5. PendingIsAdmissible'
  BY DEF OneHandler, InsertRow, PendingIsAdmissible, HistoryInv, HistoryTypeOK
<1> QED
  BY <1>3, <1>4, <1>5

\* An update touches nothing the invariant speaks of.
LEMMA SetActiveKeepsHistory ==
  ASSUME HistoryInv, NEW id \in Ids, NEW active \in BOOLEAN, SetActive(id, active)
  PROVE  CorrectionsStayHome' /\ OverlapsAreCorrections' /\ PendingIsAdmissible'
<1>1. /\ RowIds' = RowIds
      /\ \A i \in RowIds :
           /\ table'[i].employee_id = table[i].employee_id
           /\ table'[i].type = table[i].type
           /\ table'[i].effective_from = table[i].effective_from
           /\ table'[i].effective_to = table[i].effective_to
           /\ table'[i].corrects_id = table[i].corrects_id
  BY SetActiveStep DEF HistoryInv
<1>2. pending' = pending
  BY DEF SetActive
<1>3. CorrectionsStayHome'
  BY <1>1 DEF HistoryInv, CorrectionsStayHome
<1>4. OverlapsAreCorrections'
  BY <1>1 DEF HistoryInv, OverlapsAreCorrections, SameHistory, IsEffective
<1>5. PendingIsAdmissible'
  BY <1>1, <1>2 DEF HistoryInv, PendingIsAdmissible, ValidTarget, Free, SameHistory, Overlaps
<1> QED
  BY <1>3, <1>4, <1>5

\* With one handler at a time, rows of one history share a date only by
\* correction, and what create checked still holds when it inserts.
THEOREM HistoryIsSound ==
  ASSUME OneHandler
  PROVE  HistorySpec => []HistoryInv
<1>1. HistoryInit => HistoryInv
  BY DEF HistoryInit, HistoryInv, HistoryTypeOK, RowIds, CorrectionsStayHome,
         OverlapsAreCorrections, PendingIsAdmissible
<1>2. HistoryInv /\ [HistoryNext]_hvars => HistoryInv'
  <2> SUFFICES ASSUME HistoryInv, [HistoryNext]_hvars
               PROVE  CorrectionsStayHome' /\ OverlapsAreCorrections' /\ PendingIsAdmissible'
    BY HistoryTypeStep DEF HistoryInv
  <2>1. CASE UNCHANGED hvars
    BY <2>1 DEF hvars, HistoryInv, RowIds, CorrectionsStayHome, OverlapsAreCorrections,
                PendingIsAdmissible, ValidTarget, Free
  <2>2. ASSUME NEW w \in Workers, NEW row \in Row, CheckRow(w, row)
        PROVE  CorrectionsStayHome' /\ OverlapsAreCorrections' /\ PendingIsAdmissible'
    <3>1. table' = table /\ RowIds' = RowIds
      BY <2>2 DEF CheckRow, RowIds
    <3>2. CorrectionsStayHome' /\ OverlapsAreCorrections'
      BY <3>1 DEF HistoryInv, CorrectionsStayHome, OverlapsAreCorrections
    <3>3. PendingIsAdmissible'
      BY <2>2, <3>1 DEF CheckRow, HistoryInv, HistoryTypeOK, PendingIsAdmissible, ValidTarget, Free
    <3> QED
      BY <3>2, <3>3
  <2>3. ASSUME NEW w \in Workers, NEW id \in Ids, InsertRow(w, id)
        PROVE  CorrectionsStayHome' /\ OverlapsAreCorrections' /\ PendingIsAdmissible'
    BY <2>3, InsertKeepsHistory
  <2>4. ASSUME NEW w \in Workers, Abort(w)
        PROVE  CorrectionsStayHome' /\ OverlapsAreCorrections' /\ PendingIsAdmissible'
    <3>1. table' = table /\ RowIds' = RowIds
      BY <2>4 DEF Abort, RowIds
    <3>2. CorrectionsStayHome' /\ OverlapsAreCorrections'
      BY <3>1 DEF HistoryInv, CorrectionsStayHome, OverlapsAreCorrections
    <3>3. PendingIsAdmissible'
      BY <2>4, <3>1 DEF Abort, HistoryInv, HistoryTypeOK, PendingIsAdmissible, ValidTarget, Free
    <3> QED
      BY <3>2, <3>3
  <2>5. ASSUME NEW id \in Ids, NEW active \in BOOLEAN, SetActive(id, active)
        PROVE  CorrectionsStayHome' /\ OverlapsAreCorrections' /\ PendingIsAdmissible'
    BY <2>5, SetActiveKeepsHistory
  <2> QED
    BY <2>1, <2>2, <2>3, <2>4, <2>5 DEF HistoryNext
<1> QED
  BY <1>1, <1>2, PTL DEF HistorySpec

\* Of two different rows effective on a date, one corrects the other.
LEMMA CandidatesCorrect ==
  ASSUME HistoryInv, NEW e \in Employees, NEW t \in Types, NEW d \in Days,
         NEW i \in Candidates(e, t, d), NEW j \in Candidates(e, t, d), i # j
  PROVE  table[i].corrects_id = j \/ table[j].corrects_id = i
BY DEF Candidates, SameHistory, HistoryInv, OverlapsAreCorrections

\* resolve never raises, for compensations, work schedules and allowances.
THEOREM NeverAmbiguous ==
  ASSUME OneHandler
  PROVE  HistorySpec => []Unambiguous
<1>1. ASSUME HistoryInv, NEW e \in Employees, NEW t \in Types, NEW d \in Days
      PROVE  /\ \A i, j \in InForce(e, t, d) : i = j
             /\ \A i, j \in ActiveInForce(e, t, d) : i = j
  <2>1. ASSUME NEW i \in InForce(e, t, d), NEW j \in InForce(e, t, d)
        PROVE  i = j
    <3>1. /\ i \in Candidates(e, t, d) /\ j \in Candidates(e, t, d)
          /\ table[i].corrects_id # j /\ table[j].corrects_id # i
      BY DEF InForce, ExcludeCorrectedTargets
    <3> QED
      BY <1>1, <3>1, CandidatesCorrect
  <2>2. ASSUME NEW i \in ActiveInForce(e, t, d), NEW j \in ActiveInForce(e, t, d)
        PROVE  i = j
    <3>1. /\ i \in Candidates(e, t, d) /\ j \in Candidates(e, t, d)
          /\ table[i].corrects_id # j /\ table[j].corrects_id # i
      BY DEF ActiveInForce, ExcludeCorrectedTargets
    <3> QED
      BY <1>1, <3>1, CandidatesCorrect
  <2> QED
    BY <2>1, <2>2
<1>2. HistoryInv => Unambiguous
  BY <1>1 DEF Unambiguous
<1> QED
  BY <1>2, HistoryIsSound, PTL

\* Where no effective row is a correction, the batch selects whom calculate accepts.
THEOREM ConflictsNeedCorrections ==
  ASSUME OneHandler
  PROVE  HistorySpec => []ConflictsComeFromCorrections
<1>1. HistoryInv => ConflictsComeFromCorrections
  <2>1. SUFFICES ASSUME HistoryInv, NEW t \in Types, NEW d \in Days, NEW c \in Currencies,
                        NEW e \in ListActiveAsOf(t, d, c),
                        \A id \in Candidates(e, t, d) : table[id].corrects_id = None
                 PROVE  e \in Payable(t, d, c)
    BY DEF ConflictsComeFromCorrections
  <2>2. PICK k \in Candidates(e, t, d) : table[k].is_active /\ table[k].currency = c
    BY DEF ListActiveAsOf, Candidates
  <2>3. InForce(e, t, d) = Candidates(e, t, d)
    BY <2>1, NoneAssumption DEF InForce, ExcludeCorrectedTargets, Candidates, RowIds
  <2>4. ASSUME NEW i \in Candidates(e, t, d)
        PROVE  i = k
    <3>1. /\ i \in RowIds /\ k \in RowIds /\ e \in Employees
          /\ table[i].corrects_id = None /\ table[k].corrects_id = None
      BY <2>1, <2>2 DEF Candidates, ListActiveAsOf
    <3> QED
      BY <2>1, <2>2, <3>1, CandidatesCorrect, NoneAssumption DEF RowIds
  <2>5. InForce(e, t, d) = {k}
    BY <2>2, <2>3, <2>4
  <2> QED
    BY <2>2, <2>5 DEF Payable, ListActiveAsOf, Candidates
<1> QED
  BY <1>1, HistoryIsSound, PTL

\* The answer for a date is replaced by nothing but a correction of it.
THEOREM HistoryIsAuditable ==
  ASSUME OneHandler
  PROVE  HistorySpec => OnlyCorrectionsReplace
<1>1. ASSUME HistoryInv, HistoryInv', Unambiguous', [HistoryNext]_hvars,
             NEW e \in Employees, NEW t \in Types, NEW d \in Days, NEW i \in Ids,
             Answers(e, t, d, i)
      PROVE  \E j \in Ids : Answers(e, t, d, j)' /\ (j = i \/ table'[j].corrects_id = i)
  <2>1. ASSUME table' = table
        PROVE  \E j \in Ids : Answers(e, t, d, j)' /\ (j = i \/ table'[j].corrects_id = i)
    BY <1>1, <2>1 DEF Answers, InForce, ExcludeCorrectedTargets, Candidates, RowIds
  <2>2. ASSUME NEW w \in Workers, NEW id \in Ids, InsertRow(w, id)
        PROVE  \E j \in Ids : Answers(e, t, d, j)' /\ (j = i \/ table'[j].corrects_id = i)
    <3>1. /\ id \notin RowIds
          /\ RowIds' = RowIds \cup {id}
          /\ \A k \in RowIds : table'[k] = table[k]
      BY <1>1, <2>2, InsertStep DEF HistoryInv
    <3>2. i \in Candidates(e, t, d) /\ i \in RowIds /\ i # id
      BY <1>1, <3>1 DEF Answers, InForce, ExcludeCorrectedTargets, Candidates
    <3>3. \A k \in RowIds : table[k].corrects_id # id
      BY <1>1, <3>1, NoneAssumption DEF HistoryInv, CorrectionsStayHome
    <3>4. CASE id \notin Candidates(e, t, d)'
      <4>1. Candidates(e, t, d)' = Candidates(e, t, d)
        BY <3>1, <3>4 DEF Candidates
      <4>2. InForce(e, t, d)' = InForce(e, t, d)
        BY <3>1, <4>1 DEF InForce, ExcludeCorrectedTargets, Candidates
      <4> QED
        BY <1>1, <4>2 DEF Answers
    <3>5. CASE id \in Candidates(e, t, d)'
      <4>1. Candidates(e, t, d)' = Candidates(e, t, d) \cup {id}
        BY <3>1, <3>5 DEF Candidates
      <4>2. i \in Candidates(e, t, d)'
        BY <3>2, <4>1
      <4>3. table'[id].corrects_id = i
        BY <1>1, <3>1, <3>2, <3>3, <3>5, <4>2
           DEF HistoryInv, OverlapsAreCorrections, Candidates, SameHistory
      <4>4. table'[id].corrects_id # id
        BY <3>2, <4>3
      <4>5. id \in InForce(e, t, d)'
        BY <3>1, <3>3, <3>5, <4>1, <4>4 DEF InForce, ExcludeCorrectedTargets, Candidates
      <4>6. \A k \in InForce(e, t, d)' : k = id
        BY <1>1, <4>5 DEF Unambiguous
      <4> QED
        BY <4>3, <4>5, <4>6 DEF Answers
    <3> QED
      BY <3>4, <3>5
  <2>3. ASSUME NEW id \in Ids, NEW active \in BOOLEAN, SetActive(id, active)
        PROVE  \E j \in Ids : Answers(e, t, d, j)' /\ (j = i \/ table'[j].corrects_id = i)
    <3>1. /\ RowIds' = RowIds
          /\ \A k \in RowIds :
               /\ table'[k].employee_id = table[k].employee_id
               /\ table'[k].type = table[k].type
               /\ table'[k].effective_from = table[k].effective_from
               /\ table'[k].effective_to = table[k].effective_to
               /\ table'[k].corrects_id = table[k].corrects_id
      BY <1>1, <2>3, SetActiveStep DEF HistoryInv
    <3>2. Candidates(e, t, d)' = Candidates(e, t, d)
      BY <3>1 DEF Candidates, IsEffective
    <3>3. InForce(e, t, d)' = InForce(e, t, d)
      BY <3>1, <3>2 DEF InForce, ExcludeCorrectedTargets, Candidates
    <3> QED
      BY <1>1, <3>3 DEF Answers
  <2> QED
    BY <1>1, <2>1, <2>2, <2>3 DEF HistoryNext, hvars, CheckRow, Abort
<1>2. HistoryInv /\ HistoryInv' /\ Unambiguous' /\ [HistoryNext]_hvars =>
        [\A e \in Employees, t \in Types, d \in Days, i \in Ids :
           Answers(e, t, d, i) =>
             \E j \in Ids : /\ Answers(e, t, d, j)'
                            /\ j = i \/ table'[j].corrects_id = i]_hvars
  BY <1>1
<1> QED
  BY <1>2, HistoryIsSound, NeverAmbiguous, PTL DEF HistorySpec, OnlyCorrectionsReplace
=============================================================================
