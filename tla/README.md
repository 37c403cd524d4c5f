# A verification development for EOP

EOP is an HR and field-operations platform: one FastAPI process (or several) in
front of a PostgreSQL database. Its logic lives in
`src/services/api/src/eop_api`; paths below are relative to that directory.

- [1. The system](#1-the-system)
- [2. The modules](#2-the-modules)
- [3. The runs](#3-the-runs)
- [4. What is proved](#4-what-is-proved)
- [5. What the runs found](#5-what-the-runs-found)
- [6. What is not modelled](#6-what-is-not-modelled)

## 1. The system

Every API call runs in a handler of its own. A service method opens a unit of
work (`uow/sqlalchemy.py`): one session, one transaction, rolled back unless
the method reaches `commit()`. Repositories never commit. Nothing in the code
locks a row when it reads it, versions a row, or raises the isolation level, so
PostgreSQL runs every transaction READ COMMITTED, and a check made on a row
says nothing about the row when it is written. That is the source of most of
the hard behaviours here.

| Component | State | Operations | Interacts with | What makes it correct |
|---|---|---|---|---|
| Leave requests (`services/leave_request.py`) | `leave_requests` | create, update, delete by the owner | read and written by approval | only pending requests change; dates in order |
| Leave balances (`services/leave_balance.py`) | `leave_balances` | create, update, delete by an administrator | charged by approval | `remaining = allocated - used`, nothing negative |
| Approval (`services/approval.py`) | none of its own | approve, reject a leave, overtime request, timesheet | all of the above, `hr_employees.manager_id` | decided once, by the manager, charged exactly |
| Overtime, timesheets | one table each | create, update, delete, decided by approval | payroll reads approved overtime | only pending rows change; decided by the manager |
| Payroll runs (`services/payroll_run.py`) | `payroll_runs` | create, update, delete, start, complete | attendance lock, deductions, batch | DRAFT, PROCESSING, COMPLETED, in that order |
| Payroll calculation (`services/payroll_calculation.py`) | none: a sequence of other services' transactions | `calculate_batch`, `calculate` | compensation, payslips, deductions, runs | whole, immutable results; rerun after a failure |
| Payslips, deductions | one table each | create; create, update, delete | gated by the run's status | frozen with their run |
| Payslip computation (`calculate`, `services/payroll/`) | `payroll_statutory_parameters` | rates, overtime, absences, tax; create and update of parameters | compensation, allowances, overtime, reconciliation, deductions | pays what the records amount to; a rerun reproduces it |
| Effective-dated records (compensation, allowance, work schedule) | rows with periods and corrections | create, update, delete, resolve as of a date | payroll | at most one effective row per date |
| Attendance, holidays, reconciliation | append-only events; holidays | create, update, correct; daily status | payroll runs lock dates | no change under a started run; no event lost |
| Login throttle (`core/login_throttle.py`) | in-memory counters under a lock | failure, success, check | `api/auth.py` | wrong passwords per window bounded, a refusal says when to come back |
| Organization (departments, teams, positions, locations, employees, their catalogues) | one table each, three of them trees | create, update, delete | each other | acyclic, and rows agree with what they refer to |
| Recruitment, performance | one table each | create, update, delete, transition, finalize | each other | only along the funnel; finalized is final; what an achievement measures is fixed |
| Field operations | visits, photos, surveys, audits, missions | create, update, delete, mostly by the owner | each other | ownership |
| Files (`services/file.py`) | object store and `file_objects` | upload, download, delete | field operations | no row without an object |
| Roles | roles and assignments | create, update, delete, assign, remove | every guarded route | one assignment per pair; admins come from admins |
| Jobs, events, notifications | in-memory lists | publish | nothing reads them back | - |

The hazards of this code - a row checked and then written, two checks that pass
each other, a batch that dies halfway, a call that arrives after the state it
was checked against is gone - are listed with their lines in `PROJECT.json`,
each with the properties that cover it.

## 2. The modules

    LeaveRules                      data and rules of leave, pure operators
      LeaveLedger                   the calls, each atomic: the abstract specification
        MCLeaveLedger
        LeaveConcurrent             the calls as database transactions of several workers
          LeaveProofs               theorems about both
          MCLeaveConcurrent
    Actors                          the employees and the workers payroll deals with
      EffectiveDating               compensations, allowances, work schedules
        MCEffectiveDating
      PayrollBatch                  calculate_batch, transaction by transaction
        MCPayrollBatch
        PayrollBatchProofs          theorems about it and about EffectiveDating
    PayrollPromise                  what completed payroll runs promise
    PayslipComputation              one payslip, read by read
      PayslipComputationProofs
      MCPayslipComputation
    LoginThrottle
      LoginThrottleProofs
      MCLoginThrottle

    Tables                          rows, constraints, statements
      Transactions                  a request: guard, checks, write
      Callers                       users, administrators, the employee of a user
        WorkTime                    attendance, runs, payslips, holidays, leaves,
                                    overtime, timesheets
          WorkTimeProofs
        Talent                      recruitment and performance
          TalentProofs
        FieldOperations             visits and their records, missions, stores, files
          FieldOperationsProofs
      Organization                  the organization, its catalogues, roles
        OrganizationProofs
                                    each with its MC module

**LeaveRules** has the rows of `leave_requests` and `leave_balances` as records
and one operator per rule: who owns and who manages a request (`Owns`,
`Manages`), when two requests overlap, which balances an approval finds, what a
PUT may turn a row into (`Edits`, `BalanceEdits`). Days are integers, so
`DayCount` is the code's inclusive calendar-day count; `YearOf` gives the year.
A user is identified with the employee linked to them. Reasons and timestamps
are left out. `Manager` is a constant: `hr_employees` does not change in the
model, so that decisions come from the manager (a part of `LedgerInv`) is about
the row moving under a decision, not about reorganizations.

**LeaveLedger** has the two tables as functions from ids to rows or `NoRow` and
one action per service method that changes them. A method that raises changes
nothing, so its checks are guards. `ApproveLeaveRequest` is the whole handler:
authorization, pending check, year, overlap, the choice of exactly one balance,
the non-negative deduction, both writes.

**LeaveConcurrent** gives each worker a transaction and splits each call at its
statements. A *first* step reads the row and makes the checks on it
(`ReadFor...`); `FlushRequest` is the UPDATE or DELETE that takes the row lock;
`FindOverlapping` and `ReadBalances` are the later SELECTs, each on what is
committed then; `FlushBalance` takes the second lock; `Commit` publishes both
writes. As in SQLAlchemy, an UPDATE writes only the columns that differ from
what the session loaded, and raises if its row is gone. `Abort` is any death of
the handler before the commit.

**EffectiveDating** is the policy that compensations, allowances and work
schedules share: rows with periods, of which only `is_active` changes, and
corrections, which may overlap the row they correct and no other. A *history*
is the rows of an employee (for allowances: and a type). A create is two steps,
the checks (`CheckRow`) and the INSERT (`InsertRow`), so that handlers may
interleave. The answer for a date is computed as the code does: the rows
effective then, without those another of them corrects (`InForce`); for
allowances in the payroll, of the active ones (`ActiveInForce`). Periods are
not required to be in order, as in the code; a row whose period is not is never
in force, yet may block others. `ListActiveAsOf` and `Payable` are what the
batch and `calculate` make of compensations.

**PayrollBatch** follows one `calculate_batch` per worker through the services
it calls: start (read, then UPDATE), the re-check and deletion of earlier
payslips, the eligibility query, and per employee the re-reading of run and
compensation, the lookup of a payslip and its creation, and finally completion.
Around it run the creation and deletion of runs, `POST /payslips`, deductions
(check and write apart), changes of compensation, and crashes. Of a
compensation the batch only tells three things apart (`Standings`): payable;
not returned by the eligibility query; returned by it and then refused by
`calculate`: in terms of EffectiveDating, in `Payable`, not in
`ListActiveAsOf`, and in `ListActiveAsOf` but not in `Payable`. Of a payslip it
keeps the employee, the run, and whether the batch computed it (`itemized`) or
an employee posted it. Every call is a transaction, and the reads of different
services inside one step of the model are ones between which no other call can
change the outcome differently than before or after them.

**PayrollPromise** is what the design decisions D9 and E5 say of the result: a
run publishes nothing until it completes, then at most one computed payslip for
each employee, all at once, and what is published stays. PayrollBatch
implements it (`KeepsPromise`) with `published` mapped to the numbers of
computed payslips in the completed runs.

**PayslipComputation** opens the step that PayrollBatch takes for one employee:
`calculate` with a step for each service it reads - run, compensation,
allowances, overtime, each statutory parameter each time one is needed,
absences and the schedule of each, deductions - while the other services change
the same records between them. Amounts are whole cents, parameters rationals,
and `Rounded` is the half-up quantization of `Money`, applied where the code
applies it: to the daily rate, to the hourly rate made from it, to the
overtime, to every absent day, to the tax. Which compensation is in force and
which days are absences are inputs here; the modules they belong to are
EffectiveDating and WorkTime.

**LoginThrottle** has the two kinds of counters as a count and an age, and a
login as two steps around the lookup of the credentials, which awaits the
database. `guesses` is a history variable: the wrong passwords looked at from
an address since its counter began. Time passes (`Tick`), the process may
restart and forget (`Restart`), a login may die unrecorded (`Abort`).

**Tables, Transactions, Callers.** The remaining services share one shape, and
so do their modules. A database is a function from table names to functions
from ids to rows; `Stored` and `Removed` are the statements, with ON DELETE
CASCADE and SET NULL, and foreign keys, unique keys and NOT NULL columns are
checked when a statement is flushed. The update schemas let an explicit null
through for every column, so `Compare` raises a `TypeError` where a service
orders two values of which one is None, and the rest is for the constraints to
refuse. A request is a record - operation, table, id, values, caller - that
goes through three steps, and other requests run between them: `Enter`, when
the dependencies of the route pass in a transaction of their own; `Check` or
`Refuse`, the service's checks on what it reads; and `Write` or `Fail`, the
flush of the columns that changed, with the constraints. A module built on it
gives, for each request, the guard (`Permitted`), the errors its service raises
(`Errors`), the columns it assigns (`Assigned`) and the errors its route
answers (`Routes`), one definition per service, so that a reader can lay each
beside its service's method. The errors of a request are all those whose
condition holds; the code raises the first of them. Five predicates serve the
properties: `Writes(h)`, the step is the write of h; `Current(h)`, what h
checked is still true; `Unanswered(h)`, the request ends in an exception that
no handler knows although nobody overtook it; and, of what may end so,
`SendsNull`, a null for a NOT NULL column, and `StillReferred`, the deletion of
a row that a row which stays refers to.

**Organization** has every create, update and delete of the organization with
its checks on the row as the update will leave it (the *effective* row), the
cycle check of departments, teams and locations, and the roles, from which the
guard of the catalogues is read at every request. `WouldCreateCycle` is stated
with the set of ancestors; the code walks up hop by hop, and an assumption of
MCOrganization (`WalkIsWouldCreateCycle`) compares the two on every table of
three rows.

**WorkTime** has attendance events with their lock by payroll runs, the
corrections, the creation and update of runs with the period check and their
deletion, which payslips and deductions stop, holidays, leave and overtime
requests and timesheets with the decisions of `ApprovalService`, and the daily
reconciliation as an operator over these tables. A leave is here because
reconciliation reads it: whether its approval then finds a balance to charge
comes with the request (`SyncLeaveBalance`), since balances are in LeaveLedger.
Payslips are those that employees post, which is what stands in the way of a
deletion; those of a batch are in PayrollBatch. Deductions are in the database
that the model starts from. Two payslips make the lookup of the deletion itself
raise (`MultipleResultsFound`); a deduction is not looked for, and its key
refuses the DELETE (`HeldUnanswered`). A time is its UTC day and the day it
reads in the client's offset, which is all that the lock and the reconciliation
tell apart. Its invariant `TypeOK` says of the tables that
their constraints hold, and of each handler between check and write that what
it will write is still what its request asks for (`Prepared`). It is there for
the proofs; the run checks what follows from it.

**Talent** has recruitment - candidates, requisitions, applications with
`ValidTransitions`, interviews, offers - and performance - reviews, KPIs,
targets, achievements. **FieldOperations** adds to its tables the bucket
(`objects`): an upload stores the object before the row is inserted and a
delete removes it before the row is deleted, and either may die in between
(`Crash`).

The map gives, for a table of errors (`...Routes`), the routes from the first
to the last; the reads between them change nothing.

Definitions whose comment begins with *Mutant of* are faulty variants of the
definition that follows; no specification uses them. Each property of a passing
run is violated when the mutant of `PROJECT.json` takes the place of its
original.

## 3. The runs

`tlc -config X.cfg M` with the module in the second column.

| cfg | module | question |
|---|---|---|
| LeaveLedger | MCLeaveLedger | Do atomic calls keep the books? Two employees, two requests, two balances, three days of which the last is in the next year. |
| LeaveSerial | MCLeaveConcurrent | Do transactions, one at a time, implement LeaveLedger (`LedgerSpec`)? |
| LeaveTwoWorkers | MCLeaveConcurrent | Whatever two interleaved calls overwrite, what is never overdrawn, what alone puts the dates of a request out of order, and can two calls wait for each other? |
| LeaveClientStatus | MCLeaveLedger | The one run that ends in a violation: section 5. |
| EffectiveDating | MCEffectiveDating | Does every date have one answer, replaced only by corrections, and where may the batch and `calculate` disagree? |
| PayrollOneBatch | MCPayrollBatch | One batch at a time, every other call around it: is the promise kept through crashes, reruns, deletions, posted payslips, deductions and changing compensations, does any row outlive its run, and is a stuck run recovered? |
| PayslipComputation | MCPayslipComputation | Does a payslip pay what the records amount to, and a rerun the same again, however the parameters were extended meanwhile? Has each parameter one value a day? |
| WorkTime | MCWorkTime | What changes what reconciliation says of a locked day, is recorded time ever lost, do decisions stand, can two runs share a day? |
| Organization | MCOrganization | Do the trees stay trees and the rows in agreement, when checks and writes of two requests interleave? Can a system without an administrator get one back? |
| Talent | MCTalent | Does a candidacy leave the funnel, a finalized review change, an achievement come to measure something else? |
| FieldOperations | MCFieldOperations | Does anyone change the records of another employee, and how may rows and stored objects part when handlers die? |
| LoginThrottle | MCLoginThrottle | How many wrong passwords do concurrent logins get looked at, and does a refusal always say when to come back? |

WorkTime, Organization, Talent and FieldOperations also ask whether a request
that nobody overtook can end without an answer (`AnsweredUnlessOvertaken`):
with an error of the service that its route does not know, or against a
constraint that the service does not check. The property names the kinds of
requests that do, and the run shows that there are no others: an update, or a
correction, that sends null for a NOT NULL column; a deletion of a row that
others still refer to (in WorkTime: of a run with a deduction or with more than
one payslip); and the code of a location type. Every such kind is among the
requests of the run.

Distinct states: LeaveTwoWorkers 436591, WorkTime 292534, Talent 145553,
FieldOperations 93322, Organization 80918; none takes more than three minutes
with two workers.

**Bounds.** Two requests and two balances are what the rules of leave compare:
an overlap needs two requests, an ambiguous balance two balances. Two workers
suffice for every lost update and for a cycle of two locks. `MaxAllocation` (1
or 2) bounds allocations only: it lets a balance cover one of two leaves and
not both. The amount -1 stands for every amount the services refuse. `YearOf`
puts two days into one year and, where years matter, the next day into another.
`ClientStatuses` is what clients send as `status` in a PUT: `"cancelled"` in
LeaveLedger and LeaveSerial, nothing new in LeaveTwoWorkers, `"approved"` in
LeaveClientStatus. LeaveTwoWorkers has one request, one balance and an
allocation of at most one day, so that two decisions, edits or deletions of the
request meet, with each other and with reallocations of its balance; over two
days, so that an edit of the start and one of the end may cross. A leave of fewer than no
days needs a third day: there the theorem speaks (`OnlyMovedDatesDoHarm`).
EffectiveDating has one handler, three rows - a row and two corrections, or a
chain - over two days with every period they allow, open and disordered ones
included, of two employees and one type; the theorems cover any number of each.
For payroll, two employees show a batch between two employees; `MaxPosted`,
`MaxCrashes` and `MaxChanges` bound the payslips posted by employees, the
crashes and the changes of compensation. The third payslip id of
PayrollOneBatch is for the posted payslip, so that a batch always finds a free
id: a batch that waited for one would be an artefact of the bound.

PayslipComputation has a period of two days and the day before it, salaries and
rates that do not divide evenly - every rounding happens - and a change of the
working days on the second day; one change by another service (`MaxChanges`)
falls between any two reads, and two payslips (`MaxSlips`) are a payslip and
its rerun.

In WorkTime, Organization, Talent and FieldOperations, `Requests` and
`Database` are chosen in the MC module: a database in which every table has the
rows the checks compare - a parent and a child, the caller's row and a
colleague's, an open and a closed status, a locked and an open month - and
requests of every operation, those that a check refuses included. Two handlers
show every overtaking of a check by a write; `MaxRequests` = 3 lets two
requests overlap after a first has changed what they find, or one follow on
both. WorkTime has two months of two days, and a leave that lies in both; FieldOperations an upload at the
limit (`MaxSize`) and one past it. LoginThrottle has three concurrent logins,
thresholds 2 and 3, a window of one tick, delays up to 4 and `MaxFailures` = 6,
so that the counters pass their thresholds by more than the delay grows.

**Symmetry** is used where no liveness is checked: in LeaveLedger over the ids
of requests and of balances, in EffectiveDating over ids and employees, in the
request runs over handlers, in LoginThrottle over handlers and accounts.

**Deadlock** is checked in LeaveClientStatus, LeaveTwoWorkers and
PayrollOneBatch. Elsewhere the tables may fill up, the requests be used up or
all calls be refused, so that the system may really stop.

**Fairness.** `FairSpec` of LeaveConcurrent is strong fairness on the next
statement of a started transaction: a ready coroutine is scheduled, and
PostgreSQL hands a released row lock to the waiters in turn, so a statement
that keeps becoming possible is executed. Nothing forces a client to call, and
`Abort` is not fair. `FairSpec` of PayrollBatch is weak fairness on the next
step of a started batch, and on processing a run that stays open: the second is
an assumption about the administrator (D9: a failed run is processed again),
and *RerunRecovers* says that this is enough, once no compensation conflicts.
The other modules state safety only: a request there holds no lock that another
one waits for between its steps, so that each ends by itself.

## 4. What is proved

All theorems hold for every value of the constants that satisfies the named
assumptions of the modules. Those that speak of one worker, handler or batch at
a time say so in a hypothesis, because the code does not keep what they state
otherwise (section 5).

`LeaveProofs` (nobody is their own manager, days are integers, `NoRow` is no
row) proves of the atomic calls:

| Theorem | States |
|---|---|
| `TypeCorrect` | `Spec => []TypeOK` |
| `LedgerInvariant` | `Spec => []LedgerInv` |
| `BalancesConsistent` | the identity and non-negativity of every balance |
| `ManagersDecide` | an approver manages the employee the row names |
| `DecisionsStand` | `Spec => DecisionsAreFinal` |
| `ApprovedLeavesAreSound` | if no client sends `"approved"`: the two below, with the invariant |
| `NeverDoubleBooked` | if no client sends `"approved"`: `Spec => []NoDoubleBooking` |
| `ApprovalsAreSigned` | if no client sends `"approved"`: `Spec => []OnlyApprovalServiceApproves` |
| `LeavesAreCharged` | if no client sends `"approved"`: `Spec => ApprovalsAreCharged` |

The balance invariants are not inductive without types, and the manager
invariant is not inductive alone: an owner may hand a *pending* request to a
colleague, so the induction needs to know that a pending row is unsigned. That
is the second part of `LedgerInv`, which also orders the dates (a leave has at
least one day, so a deduction never adds to a balance). `ApprovedLeavesAreSound`
strengthens it further: an edit can produce `"approved"` only if a client may
send it, so an approved row comes from `ApproveLeaveRequest`, whose checks are
then exactly what is needed. One lemma per action says what it does to the
tables; the step of each invariant cites them.

`LeavesAreCharged` is about sums over tables of any size. Whether the ids are
finitely many does not matter: the tables start empty and a step writes one row
(`FinitelyMany`). What is needed of sums is `SumMoves`: a sum over a finite set
moves by what changes at one place. It rests on a sum not depending on the
order of its terms (`SumWithout`), and such facts are proved by looking at a
smallest finite set that would be an exception (`SmallestSet`, from the
well-foundedness of the numbers). Then each call is accounted for: an approval
adds the same days to both totals, no other call changes an approved row, and
an administrator's edit keeps the days used.

and of the transactions, for any number of workers except where it says one:

| Theorem | States |
|---|---|
| `ConcurrentIInvariant` | the inductive invariant `ConcurrentIInv` |
| `NothingIsOverdrawn` | `ConcurrentSpec => []ConcurrentInv`: no allocation and no remaining amount is ever negative |
| `OnlyMovedDatesDoHarm` | `ConcurrentSpec => OnlyMovedDatesHarm` |
| `OneWorkerIsAtomic` | with one worker: `ConcurrentSpec => LedgerSpec` |

What is committed says nothing about what a transaction is about to write, so
`ConcurrentIInv` describes each transaction at each of its statements: which
rows it has chosen, and that the amounts it will write were checked by the
handler that computed them, whatever has happened to the row since. That is why
nothing is overdrawn although every balance may be overwritten.

`OnlyMovedDatesDoHarm` says what it takes to put the dates of a request out of
order: an edit that writes one of them over a row whose other date is no longer
the one that the edit read (`WritesOverMovedDate`). For every other edit the row
it leaves has the two dates it checked: those it writes, and of the row it
loaded those it does not (`Wanted`, a part of the inductive invariant). And as
long as the committed requests are in order, so is every row an approval has
loaded, so that each deduction is of at least one day (`OrderedInv`). Its second
part is a formula
`[]P => []Q` about whole behaviours, proved from an invariant of the steps
between states where `P` holds.

`OneWorkerIsAtomic` is the refinement. Its invariant (`SerialInv`) says of each
point of the only transaction that the rows it read are still the committed
ones, and that the checks passed so far hold of them. Then each commit is
exactly one call of LeaveLedger (`CommitIsTheCall`, one case per call), and
every other step leaves the two tables alone. A second worker breaks the first
conjunct, which is what section 5 is about.

`PayrollBatchProofs` (`NoRow` is no row):

| Theorem | States |
|---|---|
| `BatchIInvariant` | the inductive invariant `BatchIInv` |
| `NothingIsOrphaned` | `Spec => []BatchInv`: no payslip and no deduction outlives its run |
| `CompletedRunsAreWhole` | with one worker: `Spec => WholeResults` |
| `ResultsKeepPromise` | with one worker: `Spec => KeepsPromise`, the refinement of PayrollPromise |

The first two hold for any number of batches at once: an insert checks the
foreign key and a delete finds no reference, and a batch needs no more than its
run and its employee (`UnderWay`). For the other two, `SoloInv` says where the
one batch stands (`Progress`): its run is not completed, the run is empty of
computed payslips when the employees are listed, and from then on an employee
has a computed payslip only if he is done, has some payslip if he is done, and
never has two computed ones (`Accounts`, `PaidOnce`). At the completion nobody
is left to do, and the payslips of the run become the promise's publication in
one step; all other steps change nothing that belongs to a completed run, or
add to it what the promise leaves out. With two workers `Progress` fails: one
batch clears what the other has written, or completes its run.

Its last part is about EffectiveDating, whose rows are behind the batch's
`standing`; the proof module extends both. The theorems hold for every set of
employees, types, ids and days (integers), when one handler at a time creates
rows (`OneHandler`; two handlers pass each other's overlap check):

| Theorem | States |
|---|---|
| `HistoryIsSound` | `HistorySpec => []HistoryInv` |
| `NeverAmbiguous` | `HistorySpec => []Unambiguous` |
| `ConflictsNeedCorrections` | `HistorySpec => []ConflictsComeFromCorrections` |
| `HistoryIsAuditable` | `HistorySpec => OnlyCorrectionsReplace` |

The argument: of two rows of a history that share a date, one corrects the
other (`OverlapsAreCorrections`). An INSERT keeps this because what its handler
checked still holds (`PendingIsAdmissible`, where `OneHandler` is needed) and
because the query finds every row that shares a date with the new one
(`SharedDatesOverlap`). Then at most one candidate is left uncorrected; and a
new candidate must correct the old answer, while no row can name the new one as
its target yet (`CorrectionsStayHome`).

`OrganizationProofs` proves, for every set of handlers and requests and every
sound database to start from (`DatabaseAssumption`: numbered rows that have the
columns the constraints and checks name, every key holds, no NOT NULL column is
null; `RequestAssumption`: the three operations on these tables, a creation with
those columns and no null in the NOT NULL ones, and no update of a role
assignment, for which there is no route; an update may send any null):

| Theorem | States |
|---|---|
| `OrganizationTypeCorrect` | `Spec => []TypeOK`: ids are unique, every key and NOT NULL column holds, however requests interleave |
| `CurrentWritesAlwaysKeepForest` | `Spec => CurrentWritesKeepForest`: in trees of any size and depth |
| `OrganizationAnswers` | `Spec => []AnsweredUnlessOvertaken`, with its three exceptions |
| `OnlyMovesMakeRowsDrift` | `Spec => DriftOnlyByMoves`: of writes whose checks still hold |
| `LockoutsLast` | `Spec => LockoutLasts` |

A cycle is a set of rows each of which has its parent in the set. If a write
made one, it would contain the row written and the row's new parent; then the
row is among the new parent's ancestors, which is what the check looked for.
The theorem needs no induction along the path because *ancestor* is stated with
closed sets; that the code's walk computes the same is the assumption
`WalkIsWouldCreateCycle`, which TLC evaluates on small tables.

`OrganizationAnswers` compares, table by table, what a service checks with what
the constraints of its table ask (`Fits`): a creation without errors names rows
that are there and keys that are free; an update need only check the columns it
sends, because the effective row has the others from a row that fitted
(`UpdateFits`); and the columns an UPDATE writes, which are those that changed,
make that effective row (`FitsByColumns`). Three kinds of requests are excepted,
because the services do not check them: a null for a NOT NULL column
(`SendsNull`), the deletion of a row that others refer to (`StillReferred`; any
other deletion is accepted, `DeleteIsAccepted`), and the code of a location
type. `RoutesKnowErrors` is the other half: no service raises what its route
does not answer, a `TypeError` needing one of the excepted nulls.
`OnlyMovesMakeRowsDrift` uses the same facts, of a write whose checks hold when
it is flushed: the row has been seen to agree with the rows it refers to, and
never refers to itself; so a disagreement is between two rows of which the write
changed the one referred to, in the shared column. For the same reason a shift
ends at another time than it starts; two edits of a shift that overtake each
other are not covered, and do store an equal pair (section 5). The rows a DELETE
leaves keep all their columns but an employee's user. `LockoutsLast`:
without an administrator the guards of roles and assignments let nobody pass,
no other write changes an assignment or a role's name, and a new user has no
assignment, because ids are not used again.

`WorkTimeProofs` proves, for every set of handlers and every database and
request set that the assumptions allow: months are pairs of days
(`MonthsAssumption`); the rows are numbered, have the columns that are read,
keep every key and NOT NULL column, and every run has a month as its period
(`DatabaseAssumption`: no run is left from before periods were stored, whose
period is NULL); a request sends what its schema lets through
(`RequestAssumption`: a creation has no null in a NOT NULL column, an update of
an event names neither employee nor time, one of a run only code and name, a
correction only what is corrected, and nobody sends an approver).

| Theorem | States |
|---|---|
| `WorkTimeTypeCorrect` | `Spec => []TypeOK` |
| `LockedDaysAlwaysStand` | `Spec => LockedDaysStand`, with its four exceptions |
| `HistoryAlwaysStands` | `Spec => HistoryStands` |
| `DecisionsAlwaysStand` | `Spec => DecisionsStand` |
| `RunsAlwaysPartitionTime` | `Spec => RunsPartitionTime` |
| `WorkTimeAnswers` | `Spec => []AnsweredUnlessOvertaken`, with its two exceptions |

All references of these tables restrict, so a request writes one row and the
others stay (`OthersStay`, `WrittenRows`); the rest of each proof is about that
row. The constraints alone are not inductive: a handler writes what it has
computed from rows it read, so the invariant must say what that is. For all
requests but one it is a function of the request and of the user who sent it,
who is never deleted here. A correction copies employee and shift from the
event it read, and these stay valid because an event never goes and never
changes its employee: which is the first half of `HistoryStands`, and is proved
along with the invariant.

The second half compares two cardinalities: a new correction takes at most the
event it corrects out of the authoritative ones and is itself authoritative,
since no correction can name an id that is not given out yet. For
`LockedDaysStand`: holidays are an exception of the property. Of the leaves,
reconciliation reads the approved ones, and a request whose check still holds
changes none of them (`OnlyUnapprovedLeavesChange`: edits, decisions and deletions
refuse an approved row), so that a leave can only come to cover a day: by the approval of
the manager, or by an update that sends a status, the fourth exception. That
leaves the events, of which only a new one could change a day
(`PresenceStands`). Its service found no started run on the day it checked, so
that is not the locked day; and the day it checked is that of the event it
writes, and of the one it corrects, but for the other two exceptions. A handler for which `T!Current` holds passed its
checks in the state in which it writes (`CurrentChecks`), from which the
theorems on decisions and on runs follow. `WorkTimeAnswers` goes table by table
as `OrganizationAnswers` does. Its exceptions are the nulls, of updates and of
corrections, and the deletion of a run that is held by a deduction or by more
than one payslip: with one payslip the service answers `PayrollRunHasPayslips`,
with none of either the DELETE goes through.

`TalentProofs` proves the same way, for every set of handlers and every database
and request set that its assumptions allow: numbered rows with the columns that
are read, every key kept, every application somewhere in the funnel
(`DatabaseAssumption`); and requests as the schemas let them through
(`RequestAssumption`: a creation sends every column but the status, and an
achievement's target is not null; a transition sends a stage of the funnel and
nothing else).

| Theorem | States |
|---|---|
| `TalentTypeCorrect` | `Spec => []TypeOK` |
| `MeasuredAlwaysStands` | `Spec => MeasuredStands` |
| `ReviewsAlwaysStand` | `Spec => ReviewsStand` |
| `FunnelAlwaysKept` | `Spec => FunnelKept` |
| `TalentAnswers` | `Spec => []AnsweredUnlessOvertaken`, with its two exceptions |

What a handler writes depends on its request alone, so here the constraints are
inductive with that and the types. `MeasuredStands` needs no condition on
overtaking: a target cannot go while an achievement refers to it, an update
sends none of the columns that identify it, and an achievement goes only with a
deletion of its own (`RowsGo`, `ColumnsKept`, `TargetKept`). `FunnelKept` speaks
of the *set* of stages in which a candidate stands for a requisition. The unique
key on the pair leaves at most one application in it (`OneApplication`), before
and after the step; then each kind of write is followed on its own: a creation
fills an empty pair (`CreatedStanding`), a deletion empties one
(`DeletedStanding`), an update or a transition of the row that was checked
either leaves its pair, or moves its stage along an edge, or moves the
application as it is to another pair that was empty (`ChangedStanding`). A
review that is written by an unovertaken request was a draft when it was
checked and still is; the period that was checked is that of the row as it will
be, with the columns the request does not send (`CurrentReviewWrite`).

`FieldOperationsProofs` does so for its tables and the bucket: numbered rows
with the columns that are read, every key kept, and a visit in every record,
whose column is not null (`DatabaseAssumption`); and requests as the schemas let
them through (`RequestAssumption`: a creation sends every column, a file is not
edited, and an edit of a record does not send another visit).

| Theorem | States |
|---|---|
| `FieldTypeCorrect` | `Spec => []TypeOK` |
| `BucketCorrect` | `Spec => []BucketOK`, the invariant of uploads and deletions under way |
| `OthersAlwaysStand` | `Spec => OthersRecordsStand` |
| `FilesAlwaysReadable` | `Spec => FilesReadable` |
| `NoRowForgets` | `Spec => NoRowForgetsItsObject` |
| `FieldAnswers` | `Spec => []AnsweredUnlessOvertaken`, with its two exceptions |

No transaction covers the bucket and `file_objects` together, and neither of
the two properties of files is inductive: what makes them true is where the
handlers are. `BucketOK` says it: an upload's key is no row's and no other
upload's, and once it is checked its object is there; a deletion that is checked
has taken the object away, and the id it names was given out, so that no later
upload can get it and have its row deleted with its object left. Every step of
every other handler keeps this because no key is drawn twice, by the new uuid
(`FreshKey`) while an upload is under way and by the unique key from then on
(`KeysDiffer`); a crash takes its handler out of what the invariant speaks of.
Then a row goes only with its deletion, whose object is gone (`RowsGo`); and
that the database refuses the deletion of a file whose object is gone can only
be a picture's reference (`ShownFilesStay`).

`OthersAlwaysStand` is about two tables at a time, since a record belongs to the
employee of its visit (`EmployeeOf`). An unovertaken write was found to be by
the owner of the row, or of the visit it is recorded on (`CurrentOwner`), and an
owner is one employee: so a row that is somebody else's, and the visit it hangs
on, are not the row written (`RowStands`, `TheirRowStays`). In the other
direction, a row that becomes somebody else's is a visit or an attendance event
whose update sent that employee (`RowComes`), or a record on such a visit, for a
record never changes its visit (`RecordsKeepVisits`, `TheirRowComes`).
`FieldAnswers` compares checks and constraints as `OrganizationAnswers` does,
with nulls and the deletion of rows that others refer to excepted; it needs `BucketOK` for the key of an upload, which no service checks, and that a
record's visit is there, whose absence no route answers on an update.

`LoginThrottleProofs` proves, for all thresholds, windows and numbers of logins
at once:

| Theorem | States |
|---|---|
| `ThrottleTypeCorrect` | `Spec => []TypeOK` |
| `ThrottleInvariant` | `Spec => []ThrottleInv` |
| `GuessesStayBounded` | `Spec => []GuessesBounded` |
| `RefusalsAlwaysSayWhen` | `Spec => RefusalsSayWhen` |

*GuessesBounded* is not inductive: nothing in it limits the logins that are
still looking. `ThrottleInv` counts a login under way as a guess already made:
a login goes on only below the threshold, where the guesses are no more than
the counter, and a guess that is made turns one into the other. That a refusal
names a time needs the delay of a counter to be positive and bounded: the
exponent is capped before the power is taken, and of powers of two the proof
takes what `PowersAssumption` says up to that cap, which TLC evaluates.

`PayslipComputationProofs` proves:

| Theorem | States |
|---|---|
| `RoundedIsNearest` | a quantized amount is at most half a cent from the exact one |
| `TaxWithinGross` | a rate of at most one never takes more than the gross |
| `ParametersStayUnambiguous` | `Spec => []OneValueADay`, for every set of parameters and days |
| `RerunsReproduce` | `Spec => Reproducible`, for every record and every history of the parameters |
| `PayslipsPayWhatIsOwed` | `Spec => PaysWhatIsOwed`, for every record, amount and history of the parameters |

The invariant of the third adds that the row that was checked and not yet
inserted overlaps nothing in the table. One creation is under way at a time
(`posted`), and an update takes nothing but a new description.

`RerunsReproduce` compares two calculations that may lie far apart, so its
invariant says of one what it must have computed: until another call comes
between, a calculation has at each of its points exactly the lines that the
records and the parameters amount to (`Progress`). The day after day of the
absences is followed along a *trail*, a function from the days that are left to
what was counted before them; two calculations on the same trail have counted
the same (`SameTrail`), and every calculation is on the trail of the one
recorded. The recorded payslip stays what the parameters amount to when rows
are added (`ReproducedForGood`): a key that had one value on a day cannot get
another, since no two rows overlap (`ValuesStay`), and a rerun can only find a
value where none was, which is the tax that may appear.

`PayslipsPayWhatIsOwed` starts from the same invariant: an undisturbed payslip
has the lines that `Progress` says, and what is left is to add them up.

- *Sums.* The lines are told apart by type (`PayslipAmounts`), and a line
  amounts to what the record it was written from does (`AmountOfLines`).
  Allowances and deductions may be any finite number. Facts about sums and
  products over finite sets come, as in LeaveProofs, from a smallest set that
  would be an exception; `IsFold` stands for the recursive functions behind
  `MapThenSumSet` and `ProductSet`, which exist for every finite set
  (`FoldsExist`).
- *Absences.* The trail is counted backwards, from the last day that is left
  (`TrailCounts`): at its end it has counted each missed working day once, with
  its cost.
- *Roundings.* Each is within half a unit of the exact quotient; scaled to a
  common denominator (`WithinScaled`), three of them add up to the slack of
  `OvertimeOwed`, and one a day to that of `AbsencesOwed` (`SumWithin`). The
  denominators are not zero because `Divides` was checked where a parameter
  divides.

It rests on `AmountsAssumption`: no amount, parameter or number of minutes is
negative. `models/payslip_line_item.py` documents the lines as unsigned, no
service checks it, and below zero `ROUND_HALF_UP` rounds away from zero, which
`Rounded` does not.

Only model-checked: all liveness, which is out of the prover's reach
(`EveryCallEnds`, `RerunRecovers`); and the walk along parents, which is
recursive. Every other property of a run that passes has its theorem. The type invariants of
WorkTime, Talent and FieldOperations and `BucketOK`, which the proofs rest on,
are proved without being a property of a run; TLC checked them before they were
proved.

## 5. What the runs found

*LeaveClientStatus* checks a statement of `services/leave_request.py` and ends
in a violation: `PUT` with status `"approved"` is accepted while the request is
pending. No approver, no deduction, no overlap check. Overtime requests and
timesheets take a status in the same way; *DecisionsStand* names it as the
other way to `approved`.

The other properties hold, and where the code leaves something open they say
so, as a condition or as a named exception. What a reader should know of:

- Balances are read, computed in memory and written back: a reallocation, or a
  second approval, overwrites a deduction committed in between. The same window
  lets two decisions that both read `pending` be committed, an edit hand over a
  decided request, and two overlapping approvals not see each other; the code
  puts locking out of scope for its first version (`services/approval.py:345`).
  Hence the atomic LeaveLedger, and of interleaved calls only that nothing is
  overdrawn.
- After a correction into another currency, or of which `is_active` was
  cleared, the batch still selects the employee for the row that was corrected,
  and `calculate` then ends the whole batch. *ConflictsComeFromCorrections*
  says that nothing but a correction does this.
- `end_date` must not be earlier than `start_date`
  (`docs/architecture/LEAVE_DESIGN.md:229`), but `PUT` checks the range on the
  row it has read and writes only the columns that changed: an edit of the
  start and an edit of the end, under way together, are both in order and leave
  a request that ends before it starts. Its approval counts no days, or fewer
  than none, and then *lowers* `used_days`, which no writer checks.
  *OnlyMovedDatesHarm* says that it takes such an edit, of one date, over a row
  whose other date has moved since it was read: one of both dates does no harm,
  nor one that finds the other date as it was. The attempt to prove the order of
  dates for interleaved calls found this.
- The same of a shift: a `PUT` of `start_time` and one of `end_time` under way
  together, each different from the other end as it was, store a shift that
  ends when it starts, although a partial update "can never leave a shift with
  an equal start/end pair" (`services/shift.py:35-41`). *DriftOnlyByMoves* says
  that an update which is not overtaken leaves none.
- Two calls of `process` on one run clear what the other wrote and write
  PROCESSING over COMPLETED. PayrollOneBatch assumes one batch at a time.
- `POST /payslips` ignores the run's status, and the status is checked before,
  not at, the write of a deduction: the promise of PayrollOneBatch is about
  computed payslips only.
- Deleting a run with two or more payslips ends in an error of the lookup
  itself (`MultipleResultsFound`, `services/payroll_run.py:181`), and deleting
  one with a deduction, for which nobody looks, in an IntegrityError: status 500
  both times (*AnsweredUnlessOvertaken* of WorkTime).
- The update schemas take an explicit null for every column (`None` is the
  default), and `exclude_unset` hands it on. In a NOT NULL column it ends in an
  IntegrityError at the flush, or before it in a `TypeError` where the service
  compares it (`services/shift.py:131`, `services/performance_review.py:82`, the
  dates and times of leaves, timesheets and overtime): status 500, though
  nobody was overtaken. All four *AnsweredUnlessOvertaken* name it.
- Gross and net add amounts whatever their currency (*PaysWhatIsOwed* computes
  the same sum), and a working-days parameter of zero ends the batch.
- A locked day still changes by a correction to another time, by an event in
  another offset than UTC, by a holiday, by the approval of a leave that covers
  it - approving looks at no run - and by an event whose run started between its
  check and its write (*LockedDaysStand*). Two runs of a currency
  created at the same time may share days (*RunsPartitionTime*).
- Two moves, each acyclic on the tree it read, may close a cycle together; a
  department, team or position that moves leaves the rows below it behind, as
  the docstrings say (*DriftOnlyByMoves*).
- Once nobody is an administrator, no request makes anyone one
  (*LockoutLasts*).
- Deleting a row that others refer to, and a duplicate code of a location type,
  are answered with status 500: the exceptions of *AnsweredUnlessOvertaken*.
- Two transitions at once reopen a closed application, and an edit may point a
  hired one at another pair (*FunnelKept*).
- The stored object goes before its row: a delete that dies, or that a
  picture's reference refuses, leaves a row nobody can download
  (*FilesReadable*).
- The owner of a visit may hand it to a colleague, with all that is recorded on
  it (*OthersRecordsStand*).

What holds all the same, and is worth knowing: no interleaving makes an
allocation or what remains of it negative (each writer checks what it writes),
no two transactions wait for each other (every approval locks its request
before its balance), no row outlives its run, a payroll run stuck by a crash is
always recovered by processing it again, recorded time is never lost, an
achievement always measures what it measured, and concurrent logins get no more
guesses than the threshold and one for each other login under way.

## 6. What is not modelled

`PROJECT.json` lists every component with its status. Not modelled:

- *Authentication*: hashing and signing are pure computations; what a login
  records of their outcome is in LoginThrottle.
- *The catalogue of deduction types*; deductions themselves are in PayrollBatch
  and PayslipComputation. WorkTime has them as initial data only: their writes,
  which the status of the run gates, are in PayrollBatch.
- *Jobs, events, notifications*: in-memory providers whose contents nothing
  reads back. *Reporting and dashboards*: reads only. *The application shell*:
  routing, configuration, logging, no state.
- Pagination, search and the other reads of the record services.

Abstracted within the modelled services: columns that neither a check nor a
constraint reads; values that a column's type cannot hold (a number too wide, a
NUL in a text), whose refusal by the driver *AnsweredUnlessOvertaken* says
nothing about; times of day with an offset, of which the schemas let some
through and which Python does not compare with those without; the amounts of a
posted payslip, which the service refuses with an answer when they are no money;
the throttle's fallback when its own bookkeeping raises; and, in the request
modules, the reads of one service method are one step, so that what is
interleaved is guard, checks and write but not the checks among themselves.
Which of several errors a request gets is left open, and whether an approved
leave finds its balance comes with the request in WorkTime. LeaveConcurrent and PayslipComputation, where
the order of the reads matters most, split them.
