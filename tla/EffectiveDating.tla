-------------------------- MODULE EffectiveDating --------------------------
(***************************************************************************)
(* The effective-dated records of an employee: compensations, allowances   *)
(* and work schedules.  The three services apply one policy: a row is      *)
(* never changed but in is_active, never deleted, and may share a date     *)
(* with another row of the same history only if it corrects that row.      *)
(* Which row is in force on a date is computed at each read.               *)
(*                                                                         *)
(* A history is all the rows of an employee, and for allowances of an      *)
(* employee and a type.  The policy is enforced by a query before the      *)
(* INSERT, in a transaction that locks nothing: a call is two steps, and   *)
(* the calls of several workers interleave.  Callers act on their own      *)
(* rows only (Owner Only), so that the employee of a row is the caller.    *)
(***************************************************************************)
EXTENDS Actors, Integers

CONSTANTS
  Types,        \* allowance_type; a single one for the other two tables
  Currencies,   \* of the amount of a row
  Ids,          \* primary keys a row may be created with
  Days,         \* calendar days
  Open,         \* an effective_to that is NULL
  None          \* no row, and a corrects_id that is NULL

ASSUME DaysAssumption == Days \subseteq Int /\ Open \notin Int

Row ==
  [ employee_id : Employees, type : Types, currency : Currencies,
    effective_from : Days, effective_to : Days \cup {Open},
    corrects_id : Ids \cup {None}, is_active : BOOLEAN ]

ASSUME NoneAssumption == None \notin Row \cup Ids

VARIABLES
  table,        \* id -> row, or None
  pending       \* the row each worker has checked and not yet inserted, or None

hvars == <<table, pending>>

HistoryTypeOK ==
  /\ table \in [Ids -> Row \cup {None}]
  /\ pending \in [Workers -> Row \cup {None}]

HistoryInit ==
  /\ table = [id \in Ids |-> None]
  /\ pending = [w \in Workers |-> None]

-----------------------------------------------------------------------------
(* Queries *)

RowIds == {id \in Ids : table[id] # None}

SameHistory(a, b) == a.employee_id = b.employee_id /\ a.type = b.type

IsEffective(row, day) ==
  /\ row.effective_from <= day
  /\ row.effective_to = Open \/ row.effective_to >= day

\* Mutant of Overlaps: the end of a period taken as exclusive.
OverlapsExclusive(old, new) ==
  /\ old.effective_to = Open \/ old.effective_to > new.effective_from
  /\ new.effective_to = Open \/ old.effective_from < new.effective_to

\* find_overlapping_periods, for one row.
Overlaps(old, new) ==
  /\ old.effective_to = Open \/ old.effective_to >= new.effective_from
  /\ new.effective_to = Open \/ old.effective_from <= new.effective_to

\* Mutant of Candidates: not effective on the last day of the period.
CandidatesExclusive(employee, type, day) ==
  {id \in RowIds : /\ table[id].employee_id = employee /\ table[id].type = type
                    /\ IsEffective(table[id], day) /\ table[id].effective_to # day}

\* list_effective_as_of
Candidates(employee, type, day) ==
  {id \in RowIds : /\ table[id].employee_id = employee /\ table[id].type = type
                    /\ IsEffective(table[id], day)}

\* A correction wins over the row it corrects where both are candidates.
ExcludeCorrectedTargets(ids) ==
  {id \in ids : \A other \in ids : table[other].corrects_id # id}

\* What EffectiveDatingEvaluator.resolve is left to choose from: it answers
\* None when there is no row and raises when there are several.  For the
\* payroll, inactive allowances are set aside before corrections are.
InForce(employee, type, day) == ExcludeCorrectedTargets(Candidates(employee, type, day))
ActiveInForce(employee, type, day) ==
  ExcludeCorrectedTargets({id \in Candidates(employee, type, day) : table[id].is_active})

-----------------------------------------------------------------------------
(* Calls *)

\* Mutant of ValidTarget: the employee of the target is not compared.
ValidTargetOfAnyone(row) == row.corrects_id \in RowIds \cup {None}

ValidTarget(row) ==
  row.corrects_id # None =>
    /\ row.corrects_id \in RowIds
    /\ table[row.corrects_id].employee_id = row.employee_id

\* Mutant of Free: a correction may overlap any row.
FreeIfCorrection(row) ==
  row.corrects_id = None =>
    \A id \in RowIds : SameHistory(table[id], row) => ~ Overlaps(table[id], row)

\* No other row but the one being corrected overlaps the period.
Free(row) ==
  \A id \in RowIds \ {row.corrects_id} :
    SameHistory(table[id], row) => ~ Overlaps(table[id], row)

\* create, up to its INSERT.  Nothing requires the period to be in order.
CheckRow(w, row) ==
  /\ pending[w] = None
  /\ row.is_active
  /\ ValidTarget(row)
  /\ Free(row)
  /\ pending' = [pending EXCEPT ![w] = row]
  /\ UNCHANGED table

\* The INSERT and its commit.
InsertRow(w, id) ==
  /\ pending[w] # None
  /\ table[id] = None
  /\ table' = [table EXCEPT ![id] = pending[w]]
  /\ pending' = [pending EXCEPT ![w] = None]

\* The handler dies before its commit.
Abort(w) ==
  /\ pending[w] # None
  /\ pending' = [pending EXCEPT ![w] = None]
  /\ UNCHANGED table

\* update: nothing but is_active.  delete always refuses.
SetActive(id, active) ==
  /\ id \in RowIds
  /\ table' = [table EXCEPT ![id].is_active = active]
  /\ UNCHANGED pending

HistoryNext ==
  \/ \E w \in Workers :
       \/ \E row \in Row : CheckRow(w, row)
       \/ \E id \in Ids : InsertRow(w, id)
       \/ Abort(w)
  \/ \E id \in Ids, active \in BOOLEAN : SetActive(id, active)

HistorySpec == HistoryInit /\ [][HistoryNext]_hvars

-----------------------------------------------------------------------------
(* The batch's view of compensations *)

\* list_active_as_of, narrowed to a currency by calculate_batch.
ListActiveAsOf(type, day, currency) ==
  {e \in Employees : \E id \in RowIds :
     /\ table[id].employee_id = e /\ table[id].type = type
     /\ table[id].is_active /\ IsEffective(table[id], day)
     /\ table[id].currency = currency}

\* The employees calculate does not refuse.
Payable(type, day, currency) ==
  {e \in Employees : \E id \in RowIds :
     /\ InForce(e, type, day) = {id}
     /\ table[id].is_active /\ table[id].currency = currency}

-----------------------------------------------------------------------------
(* Properties *)

\* A correction names an existing row of the same employee: no chain of
\* corrections leaves the employee's own records.
CorrectionsStayHome ==
  \A id \in RowIds : table[id].corrects_id # None =>
    /\ table[id].corrects_id \in RowIds
    /\ table[table[id].corrects_id].employee_id = table[id].employee_id

\* Two rows of one history share a date only if one of them corrects the other.
OverlapsAreCorrections ==
  \A i, j \in RowIds : \A d \in Days :
    /\ i # j /\ SameHistory(table[i], table[j])
    /\ IsEffective(table[i], d) /\ IsEffective(table[j], d)
    => table[i].corrects_id = j \/ table[j].corrects_id = i

\* What a handler has checked still holds when it inserts.
PendingIsAdmissible ==
  \A w \in Workers : pending[w] # None => ValidTarget(pending[w]) /\ Free(pending[w])

\* The inductive invariant, as long as handlers do not overlap.
HistoryInv ==
  HistoryTypeOK /\ CorrectionsStayHome /\ OverlapsAreCorrections /\ PendingIsAdmissible

\* resolve never raises: on no date is more than one row left to choose from,
\* whatever was corrected, by whom and for which part of a period, and whatever
\* was deactivated.
Unambiguous ==
  \A e \in Employees, t \in Types, d \in Days :
    /\ \A i, j \in InForce(e, t, d) : i = j
    /\ \A i, j \in ActiveInForce(e, t, d) : i = j

\* History is auditable: the answer of resolve for a date gives way to nothing
\* but a row that names it as the one it corrects, and never to no row or to an
\* error.
Answers(e, t, d, id) == InForce(e, t, d) = {id}
OnlyCorrectionsReplace ==
  [][\A e \in Employees, t \in Types, d \in Days, i \in Ids :
       Answers(e, t, d, i) =>
         \E j \in Ids : /\ Answers(e, t, d, j)'
                        /\ j = i \/ table'[j].corrects_id = i]_hvars

\* The batch's eligibility query and calculate, which look at the same rows in
\* different ways, disagree only where a correction is effective.
ConflictsComeFromCorrections ==
  \A t \in Types, d \in Days, c \in Currencies :
    \A e \in ListActiveAsOf(t, d, c) \ Payable(t, d, c) :
      \E id \in Candidates(e, t, d) : table[id].corrects_id # None
=============================================================================
