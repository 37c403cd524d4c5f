--------------------------- MODULE WorkTimeProofs ---------------------------
(***************************************************************************)
(* Whatever the database starts with, the number of handlers and what they *)
(* are asked: attendance is corrected and never lost, runs are whole       *)
(* months, and no write that was not overtaken reopens a locked day, a     *)
(* decided request or a day that another run has, or is met by a           *)
(* constraint that its service did not check.                              *)
(***************************************************************************)
EXTENDS WorkTime, FiniteSetTheorems, TLAPS

-----------------------------------------------------------------------------
(* Statements *)

\* Transactions has the same tables: its definitions are those of Tables.
LEMMA SameTables ==
  ASSUME NEW d, NEW t, NEW id, NEW row, NEW values, NEW references, NEW keys, NEW required
  PROVE  /\ T!Stored(d, t, id, row) = Stored(d, t, id, row)
         /\ T!Removed(d, references, t, id) = Removed(d, references, t, id)
         /\ T!Patched(row, values) = Patched(row, values)
         /\ T!Dirty(row, values) = Dirty(row, values)
         /\ T!Exists(d, t, id) <=> Exists(d, t, id)
         /\ T!ReferencesHold(d, references) <=> ReferencesHold(d, references)
         /\ T!KeysHold(d, keys) <=> KeysHold(d, keys)
         /\ T!RowsComplete(d, required) <=> RowsComplete(d, required)
         /\ T!Complete(row, required) <=> Complete(row, required)
<1>1. T!Stored(d, t, id, row) = Stored(d, t, id, row)
  BY DEF T!Stored, Stored
<1>2. T!Removed(d, references, t, id) = Removed(d, references, t, id)
  BY DEF T!Removed, T!Dependents, Removed, Dependents
<1>3. T!Patched(row, values) = Patched(row, values) /\ T!Dirty(row, values) = Dirty(row, values)
  BY DEF T!Patched, Patched, T!Dirty, Dirty
<1>4. T!Exists(d, t, id) <=> Exists(d, t, id)
  BY DEF T!Exists, Exists
<1>5. T!ReferencesHold(d, references) <=> ReferencesHold(d, references)
  BY DEF T!ReferencesHold, ReferencesHold
<1>6. T!KeysHold(d, keys) <=> KeysHold(d, keys)
  BY DEF T!KeysHold, KeysHold, T!Taken, Taken
<1>7. T!Complete(row, required) <=> Complete(row, required)
  BY DEF T!Complete, Complete
<1>8. T!RowsComplete(d, required) <=> RowsComplete(d, required)
  BY DEF T!RowsComplete, RowsComplete, T!Complete, Complete
<1> QED
  BY <1>1, <1>2, <1>3, <1>4, <1>5, <1>6, <1>7, <1>8

\* The foreign keys, table by table.
LEMMA ForeignKeysByTable ==
  ASSUME NEW f \in WorkTimeForeignKeys
  PROVE  /\ f.onDelete = "restrict"
         /\ \/ f.from = "attendance_events" /\ f.column = "employee_id" /\ f.to = "hr_employees"
            \/ f.from = "attendance_events" /\ f.column = "shift_id" /\ f.to = "shifts"
            \/ f.from = "attendance_events" /\ f.column = "corrects_id" /\ f.to = "attendance_events"
            \/ f.from \in Decided /\ f.column = "employee_id" /\ f.to = "hr_employees"
            \/ f.from \in Decided /\ f.column = "approved_by" /\ f.to = "users"
            \/ /\ f.from \in {"payslips", "deductions"}
               /\ f.column = "employee_id" /\ f.to = "hr_employees"
            \/ /\ f.from \in {"payslips", "deductions"}
               /\ f.column = "payroll_run_id" /\ f.to = "payroll_runs"
<1>1. \A from, columns, to, onDelete : \A g \in References(from, columns, to, onDelete) :
        g.from = from /\ g.column \in columns /\ g.to = to /\ g.onDelete = onDelete
  BY DEF References, Reference
<1> QED
  BY <1>1 DEF WorkTimeForeignKeys, AttendanceKeys, OvertimeKeys, TimesheetKeys, LeaveKeys,
       RequestKeys, PayslipKeys, DeductionKeys, PaidKeys, Decided

\* What an event corrects is an event.
LEMMA CorrectedExists ==
  ASSUME NEW d, ReferencesHold(d, WorkTimeForeignKeys), NEW e \in DOMAIN d["attendance_events"]
  PROVE  d["attendance_events"][e].corrects_id \in DOMAIN d["attendance_events"] \cup {Null}
<1>1. Reference("attendance_events", "corrects_id", "attendance_events", "restrict")
        \in WorkTimeForeignKeys
  BY DEF WorkTimeForeignKeys, AttendanceKeys, References
<1> QED
  BY <1>1 DEF ReferencesHold, Reference

\* The unique keys, table by table.
LEMMA UniqueKeysByTable ==
  ASSUME NEW k \in WorkTimeUniqueKeys
  PROVE  \/ k.table = "payroll_runs" /\ k.columns = {"code"}
         \/ k.table = "holidays" /\ k.columns = {"code"}
         \/ k.table = "holidays" /\ k.columns = {"holiday_date"}
BY DEF WorkTimeUniqueKeys, PayrollRunKeys, HolidayKeys, Unique

\* Every key is of a table, and names columns that the table's rows have.
LEMMA KeysOfTables ==
  /\ \A f \in WorkTimeForeignKeys :
       f.from \in WorkTimeTables /\ f.to \in WorkTimeTables /\ f.column \in Columns[f.from]
  /\ \A k \in WorkTimeUniqueKeys : k.table \in WorkTimeTables /\ k.columns \subseteq Columns[k.table]
<1>1. \A f \in WorkTimeForeignKeys : f.from \in WorkTimeTables /\ f.to \in WorkTimeTables
  BY ForeignKeysByTable DEF WorkTimeTables, Decided
<1>2. \A f \in WorkTimeForeignKeys : f.column \in Columns[f.from]
  BY ForeignKeysByTable DEF Columns, Decided
<1>3. \A k \in WorkTimeUniqueKeys : k.table \in WorkTimeTables
  BY UniqueKeysByTable DEF WorkTimeTables
<1>4. \A k \in WorkTimeUniqueKeys : k.columns \subseteq Columns[k.table]
  BY UniqueKeysByTable DEF Columns
<1> QED
  BY <1>1, <1>2, <1>3, <1>4

\* Every row but one is as it was.
OthersStay(d, after, t, id) ==
  /\ after = [u \in WorkTimeTables |-> after[u]]
  /\ \A u \in WorkTimeTables \ {t} : DOMAIN after[u] = DOMAIN d[u]
  /\ DOMAIN after[t] \ {id} = DOMAIN d[t] \ {id}
  /\ \A u \in WorkTimeTables : \A i \in DOMAIN d[u] :
       u # t \/ i # id => after[u][i] = d[u][i]

LEMMA StoredStays ==
  ASSUME NEW d, DOMAIN d = WorkTimeTables, NEW t \in WorkTimeTables, NEW id, NEW row
  PROVE  /\ OthersStay(d, Stored(d, t, id, row), t, id)
         /\ DOMAIN Stored(d, t, id, row)[t] = DOMAIN d[t] \cup {id}
         /\ Stored(d, t, id, row)[t][id] = row
BY DEF Stored, OthersStay

\* No row goes with another: all references restrict.
LEMMA RemovedStays ==
  ASSUME NEW d, DOMAIN d = WorkTimeTables, NEW t \in WorkTimeTables, NEW id,
         \A u \in WorkTimeTables : \A i \in DOMAIN d[u] : IsRow(d[u][i])
  PROVE  /\ OthersStay(d, Removed(d, WorkTimeForeignKeys, t, id), t, id)
         /\ DOMAIN Removed(d, WorkTimeForeignKeys, t, id)[t] = DOMAIN d[t] \ {id}
<1> DEFINE after == Removed(d, WorkTimeForeignKeys, t, id)
<1>1. \A f \in WorkTimeForeignKeys : f.onDelete # "cascade" /\ f.onDelete # "set null"
  BY ForeignKeysByTable
<1>2. \A u : Dependents(d, WorkTimeForeignKeys, t, id, u, "cascade") = {}
  BY <1>1 DEF Dependents
<1>3. after = [u \in WorkTimeTables |-> after[u]]
  BY DEF Removed
<1>4. \A u \in WorkTimeTables : DOMAIN after[u] = DOMAIN d[u] \ (IF u = t THEN {id} ELSE {})
  BY <1>2 DEF Removed
<1>5. \A u \in WorkTimeTables : \A i \in DOMAIN after[u] :
        after[u][i] = [c \in DOMAIN d[u][i] |-> d[u][i][c]]
  BY <1>1, <1>4 DEF Removed
<1>6. \A u \in WorkTimeTables : \A i \in DOMAIN after[u] : after[u][i] = d[u][i]
  BY <1>4, <1>5 DEF IsRow
<1> QED
  BY <1>3, <1>4, <1>6 DEF OthersStay

\* The write of a request: one row of its table, and no constraint broken.
LEMMA WrittenRows ==
  ASSUME TypeOK, NEW h \in Handlers, T!Write(h),
         NEW r, r = handler[h].request, NEW c, c = handler[h],
         NEW t, t = r.table, NEW new, new = lastId[t] + 1
  PROVE  /\ T!Inserts(r) =>
              /\ OthersStay(db, db', t, new) /\ new \notin DOMAIN db[t]
              /\ DOMAIN db'[t] = DOMAIN db[t] \cup {new} /\ db'[t][new] = c.values
              /\ lastId' = [lastId EXCEPT ![t] = new]
         /\ ~T!Inserts(r) => r.id \in DOMAIN db[t] /\ lastId' = lastId
         /\ T!Deletes(r) =>
              OthersStay(db, db', t, r.id) /\ DOMAIN db'[t] = DOMAIN db[t] \ {r.id}
         /\ ~T!Inserts(r) /\ ~T!Deletes(r) =>
              /\ OthersStay(db, db', t, r.id) /\ DOMAIN db'[t] = DOMAIN db[t]
              /\ db'[t][r.id] = Patched(db[t][r.id], Dirty(c.loaded, c.values))
         /\ ReferencesHold(db', WorkTimeForeignKeys)
         /\ KeysHold(db', WorkTimeUniqueKeys)
         /\ RowsComplete(db', WorkTimeRequired)
<1>1. /\ T!Accepted(db, c, new) /\ db' = T!Flushed(db, c, new)
      /\ lastId' = IF T!Inserts(r) THEN [lastId EXCEPT ![t] = @ + 1] ELSE lastId
      /\ c.request = r
  BY DEF T!Write, T!NextId
<1>2. /\ t \in WorkTimeTables /\ DOMAIN db = WorkTimeTables
      /\ lastId[t] \in Nat /\ DOMAIN db[t] \subseteq 1 .. lastId[t]
      /\ \A u \in WorkTimeTables : \A i \in DOMAIN db[u] : IsRow(db[u][i])
  BY RequestAssumption DEF T!Write, TypeOK, Operations, WorkTimeTables
<1>3. ~(T!Inserts(r) /\ T!Deletes(r))
  BY DEF T!Inserts, T!Deletes
<1>4. ASSUME T!Inserts(r)
      PROVE  /\ OthersStay(db, db', t, new) /\ new \notin DOMAIN db[t]
             /\ DOMAIN db'[t] = DOMAIN db[t] \cup {new} /\ db'[t][new] = c.values
             /\ lastId' = [lastId EXCEPT ![t] = new]
  <2> DEFINE row == c.values
             id == new
  <2>1. db' = Stored(db, t, id, row)
    BY <1>1, <1>4, SameTables DEF T!Flushed
  <2>2. id \notin DOMAIN db[t]
    BY <1>2
  <2>3. lastId' = [lastId EXCEPT ![t] = id]
    BY <1>1, <1>4
  <2> HIDE DEF row, id
  <2>4. OthersStay(db, db', t, id) /\ DOMAIN db'[t] = DOMAIN db[t] \cup {id} /\ db'[t][id] = row
    BY <1>2, <2>1, StoredStays
  <2> QED
    BY <2>2, <2>3, <2>4 DEF row, id
<1>5. ASSUME ~T!Inserts(r) PROVE r.id \in DOMAIN db[t] /\ lastId' = lastId
  BY <1>1, <1>5, SameTables DEF T!Accepted, Exists
<1>6. ASSUME T!Deletes(r)
      PROVE  OthersStay(db, db', t, r.id) /\ DOMAIN db'[t] = DOMAIN db[t] \ {r.id}
  <2>1. db' = Removed(db, WorkTimeForeignKeys, t, r.id)
    BY <1>1, <1>3, <1>6, SameTables DEF T!Flushed
  <2> QED
    BY <1>2, <2>1, RemovedStays
<1>7. ASSUME ~T!Inserts(r), ~T!Deletes(r)
      PROVE  /\ OthersStay(db, db', t, r.id) /\ DOMAIN db'[t] = DOMAIN db[t]
             /\ db'[t][r.id] = Patched(db[t][r.id], Dirty(c.loaded, c.values))
  <2> DEFINE row == Patched(db[t][r.id], Dirty(c.loaded, c.values))
             id == r.id
  <2>1. db' = T!Stored(db, t, id, T!Patched(db[t][id], T!Dirty(c.loaded, c.values)))
    BY <1>1, <1>7 DEF T!Flushed
  <2>2. db' = Stored(db, t, id, row)
    BY <2>1, SameTables
  <2>3. id \in DOMAIN db[t]
    BY <1>5, <1>7
  <2> HIDE DEF row, id
  <2>4. OthersStay(db, db', t, id) /\ DOMAIN db'[t] = DOMAIN db[t] \cup {id} /\ db'[t][id] = row
    BY <1>2, <2>2, StoredStays
  <2>5. DOMAIN db'[t] = DOMAIN db[t]
    BY <2>3, <2>4
  <2> QED
    BY <2>4, <2>5 DEF row, id
<1>8. /\ ReferencesHold(db', WorkTimeForeignKeys) /\ KeysHold(db', WorkTimeUniqueKeys)
      /\ RowsComplete(db', WorkTimeRequired)
  BY <1>1, SameTables DEF T!Accepted
<1> QED
  BY <1>4, <1>5, <1>6, <1>7, <1>8

-----------------------------------------------------------------------------
(* What a checked request writes *)

\* But for a correction, what a service assigns depends on the request alone.
LEMMA AssignedAlone ==
  ASSUME NEW r \in Requests, r.op # "correct", NEW d, NEW e
  PROVE  WorkTimeAssigned(d, r) = WorkTimeAssigned(e, r)
BY DEF WorkTimeAssigned, AttendanceAssigned, Decided

\* The rows that are inserted.
LEMMA InsertedRows ==
  ASSUME NEW d, NEW c, Prepared(d, c), NEW r, r = c.request, r \in Requests, T!Inserts(r),
         NEW row, row = c.values
  PROVE  /\ IsRow(row) /\ Columns[r.table] \subseteq DOMAIN row
         /\ r.op = "correct" \/ r.op = "create"
         /\ r.op = "correct" => r.table = "attendance_events"
         /\ r.table = "attendance_events" /\ r.op = "create" =>
              /\ row.employee_id = r.values.employee_id /\ row.shift_id = r.values.shift_id
              /\ row.event_time = r.values.event_time.utc /\ row.corrects_id = Null
         /\ r.op = "correct" =>
              /\ row.employee_id = c.loaded.employee_id /\ row.shift_id = c.loaded.shift_id
              /\ row.corrects_id = r.id
              /\ "event_time" \notin DOMAIN r.values => row.event_time = c.loaded.event_time
         /\ r.table = "payroll_runs" =>
              /\ row.status = "DRAFT"
              /\ \A k \in {"code", "currency", "period_start", "period_end"} : row[k] = r.values[k]
         /\ r.table \in {"holidays", "payslips"} => row = r.values
         /\ r.table \in Decided =>
              row.status = "pending" /\ row.approved_by = Null
                /\ row.employee_id = r.values.employee_id
<1>1. /\ r.table \in DOMAIN Operations /\ r.op \in Operations[r.table] /\ IsRow(r.values)
      /\ r.op = "create" => Columns[r.table] \ SetByService \subseteq DOMAIN r.values
      /\ r.op = "correct" => {"employee_id", "shift_id", "corrects_id"} \cap DOMAIN r.values = {}
  BY RequestAssumption
<1>2. r.op = "create" \/ r.op = "correct"
  BY DEF T!Inserts
<1>3. r.op = "correct" => r.table = "attendance_events"
  BY <1>1 DEF Operations
<1>4. CASE r.op = "correct"
  <2> DEFINE v == InUtc(r.values)
             original == c.loaded
  <2>1. /\ row = [Patched(original, v) EXCEPT !.corrects_id = r.id]
        /\ Columns["attendance_events"] \subseteq DOMAIN original
    BY <1>4 DEF Prepared, Correction
  <2>2. DOMAIN v = DOMAIN r.values
    BY <1>1 DEF InUtc, IsRow
  <2>3. {"employee_id", "shift_id", "event_time", "corrects_id"} \subseteq DOMAIN original
    BY <2>1 DEF Columns
  <2> HIDE DEF v, original
  <2>4. /\ row = [k \in DOMAIN original \cup DOMAIN v |->
                    IF k = "corrects_id" THEN r.id
                    ELSE IF k \in DOMAIN v THEN v[k] ELSE original[k]]
    BY <2>1, <2>3 DEF Patched
  <2>5. IsRow(row) /\ Columns["attendance_events"] \subseteq DOMAIN row
    BY <2>1, <2>4 DEF IsRow
  <2>6. /\ row.employee_id = original.employee_id /\ row.shift_id = original.shift_id
        /\ row.corrects_id = r.id
        /\ "event_time" \notin DOMAIN r.values => row.event_time = original.event_time
    BY <1>1, <1>4, <2>2, <2>3, <2>4
  <2> QED
    BY <1>3, <1>4, <2>5, <2>6 DEF original, Decided
<1>5. CASE r.op = "create"
  <2>1. row = WorkTimeAssigned(d, r)
    BY <1>5 DEF Prepared
  <2>2. CASE r.table = "attendance_events"
    <3> DEFINE v == InUtc(r.values)
    <3>1. row = Patched(v, [corrects_id |-> Null])
      BY <1>5, <2>1, <2>2 DEF WorkTimeAssigned, AttendanceAssigned, Decided
    <3>2. {"employee_id", "shift_id", "event_time"} \subseteq DOMAIN r.values
      BY <1>1, <1>5, <2>2 DEF Columns, SetByService
    <3>3. r.values.event_time # Null
      <4>1. Complete(r.values, WorkTimeRequired["attendance_events"])
        BY <1>5, <2>2, RequestAssumption
      <4>2. "event_time" \in WorkTimeRequired["attendance_events"]
        BY DEF WorkTimeRequired
      <4> QED
        BY <3>2, <4>1, <4>2 DEF Complete
    <3>4. /\ DOMAIN v = DOMAIN r.values /\ v.employee_id = r.values.employee_id
          /\ v.shift_id = r.values.shift_id /\ v.event_time = r.values.event_time.utc
      BY <1>1, <3>2, <3>3 DEF InUtc, IsRow
    <3> HIDE DEF v
    <3> QED
      BY <1>5, <2>2, <3>1, <3>2, <3>4 DEF Patched, IsRow, Columns, Decided
  <2>3. CASE r.table = "payroll_runs"
    <3>1. row = Patched(r.values, [status |-> "DRAFT"])
      BY <1>5, <2>1, <2>3 DEF WorkTimeAssigned, PayrollRunAssigned, Decided
    <3>2. {"code", "currency", "period_start", "period_end"} \subseteq DOMAIN r.values
      BY <1>1, <1>5, <2>3 DEF Columns, SetByService
    <3> QED
      BY <1>5, <2>3, <3>1, <3>2 DEF Patched, IsRow, Columns, Decided
  <2>4. CASE r.table \in {"holidays", "payslips"}
    <3>1. row = r.values
      BY <2>1, <2>4 DEF WorkTimeAssigned, Decided
    <3>2. Columns[r.table] \subseteq DOMAIN r.values
      BY <1>1, <1>5, <2>4 DEF Columns, SetByService
    <3> QED
      BY <1>1, <1>5, <2>4, <3>1, <3>2 DEF Decided
  <2>5. CASE r.table \in Decided
    <3>1. row = Patched(r.values, [status |-> "pending", approved_by |-> Null])
      BY <1>5, <2>1, <2>5 DEF WorkTimeAssigned, RequestAssigned, Decided
    <3>2. /\ Columns[r.table] \subseteq DOMAIN r.values \cup {"status", "approved_by"}
          /\ "employee_id" \in DOMAIN r.values
      BY <1>1, <1>5, <2>5 DEF Columns, SetByService, Decided
    <3> QED
      BY <1>5, <2>5, <3>1, <3>2 DEF Patched, IsRow, Decided
  <2> QED
    BY <1>1, <2>2, <2>3, <2>4, <2>5 DEF Operations, Decided
<1> QED
  BY <1>2, <1>4, <1>5

\* The columns that an update, a decision or a new status of a run assigns.
LEMMA UpdatedColumns ==
  ASSUME NEW d, NEW c, Prepared(d, c), NEW r, r = c.request, r \in Requests,
         ~T!Inserts(r), ~T!Deletes(r), NEW v, v = c.values
  PROVE  /\ r.table = "attendance_events" =>
              /\ r.op = "update" /\ v = r.values
              /\ {"employee_id", "event_time", "corrects_id"} \cap DOMAIN v = {}
         /\ r.table = "payroll_runs" =>
              /\ {"currency", "period_start", "period_end"} \cap DOMAIN v = {}
              /\ (r.op = "update" /\ v = r.values) \/ DOMAIN v = {"status"}
         /\ r.table = "holidays" => r.op = "update" /\ v = r.values
         /\ r.table # "payslips"
         /\ r.table \in Decided =>
              \/ r.op = "update" /\ v = r.values /\ "approved_by" \notin DOMAIN v
              \/ r.op = "approve" /\ v = [status |-> "approved", approved_by |-> r.by]
              \/ r.op = "reject" /\ v = [status |-> "rejected", approved_by |-> r.by]
<1>1. /\ r.table \in DOMAIN Operations /\ r.op \in Operations[r.table]
      /\ r.op # "create" /\ r.op # "correct" /\ r.op # "delete"
  BY RequestAssumption DEF T!Inserts, T!Deletes
<1>2. v = WorkTimeAssigned(d, r)
  BY <1>1 DEF Prepared
<1>3. CASE r.table = "attendance_events"
  <2>1. r.op = "update"
    BY <1>1, <1>3 DEF Operations
  <2>2. v = r.values
    BY <1>2, <1>3, <2>1 DEF WorkTimeAssigned, AttendanceAssigned, Decided
  <2> QED
    BY <1>3, <2>1, <2>2, RequestAssumption DEF Decided
<1>4. CASE r.table = "payroll_runs"
  <2>1. r.op \in {"update", "start_processing", "complete"}
    BY <1>1, <1>4 DEF Operations
  <2>2. v = PayrollRunAssigned(r)
    BY <1>2, <1>4 DEF WorkTimeAssigned, Decided
  <2>3. CASE r.op = "update"
    BY <1>4, <2>2, <2>3, RequestAssumption DEF PayrollRunAssigned, Decided
  <2>4. CASE r.op \in {"start_processing", "complete"}
    BY <1>4, <2>2, <2>4 DEF PayrollRunAssigned, Decided
  <2> QED
    BY <1>4, <2>1, <2>3, <2>4
<1>5. CASE r.table = "holidays"
  BY <1>1, <1>2, <1>5 DEF Operations, WorkTimeAssigned, Decided
<1>6. CASE r.table \in Decided
  <2>1. r.op \in {"update", "approve", "reject"}
    BY <1>1, <1>6 DEF Operations, Decided
  <2>2. v = RequestAssigned(r)
    BY <1>2, <1>6 DEF WorkTimeAssigned, Decided
  <2> QED
    BY <1>6, <2>1, <2>2, RequestAssumption DEF RequestAssigned, Decided
<1> QED
  BY <1>1, <1>3, <1>4, <1>5, <1>6 DEF Operations, Decided

-----------------------------------------------------------------------------
(* The types *)

\* The users and employees, the shifts and the deductions are not written.
LEMMA UnwrittenTables ==
  ASSUME TypeOK, NEW h \in Handlers, T!Write(h),
         NEW u \in {"users", "hr_employees", "shifts", "deductions"}
  PROVE  DOMAIN db'[u] = DOMAIN db[u] /\ \A i \in DOMAIN db[u] : db'[u][i] = db[u][i]
<1> DEFINE r == handler[h].request
           t == r.table
<1>1. u \in WorkTimeTables /\ u # t
  BY RequestAssumption DEF T!Write, TypeOK, Operations, WorkTimeTables
<1>2. \E id : OthersStay(db, db', t, id)
  BY WrittenRows
<1> QED
  BY <1>1, <1>2 DEF OthersStay

\* Every row has the columns of its table, and an id that was given out.
LEMMA WrittenTables ==
  ASSUME TypeOK, NEW h \in Handlers, T!Write(h)
  PROVE  /\ db' = [t \in WorkTimeTables |-> db'[t]]
         /\ lastId' \in [WorkTimeTables -> Nat]
         /\ \A t \in WorkTimeTables : DOMAIN db'[t] \subseteq 1 .. lastId'[t]
         /\ \A t \in WorkTimeTables : \A id \in DOMAIN db'[t] :
              IsRow(db'[t][id]) /\ Columns[t] \subseteq DOMAIN db'[t][id]
<1> DEFINE r == handler[h].request
           c == handler[h]
           t == r.table
           new == lastId[t] + 1
<1>1. /\ r \in Requests /\ Prepared(db, c) /\ t \in WorkTimeTables
      /\ lastId \in [WorkTimeTables -> Nat] /\ lastId[t] \in Nat
      /\ \A u \in WorkTimeTables : DOMAIN db[u] \subseteq 1 .. lastId[u]
      /\ \A u \in WorkTimeTables : \A i \in DOMAIN db[u] :
           IsRow(db[u][i]) /\ Columns[u] \subseteq DOMAIN db[u][i]
  BY RequestAssumption DEF T!Write, TypeOK, Operations, WorkTimeTables
<1>2. CASE T!Inserts(r)
  <2>1. /\ OthersStay(db, db', t, new)
        /\ DOMAIN db'[t] = DOMAIN db[t] \cup {new} /\ db'[t][new] = c.values
        /\ lastId' = [lastId EXCEPT ![t] = new]
    BY <1>2, WrittenRows
  <2>2. IsRow(c.values) /\ Columns[t] \subseteq DOMAIN c.values
    BY <1>1, <1>2, InsertedRows
  <2>3. \A u \in WorkTimeTables : DOMAIN db'[u] \subseteq 1 .. lastId'[u]
    BY <1>1, <2>1 DEF OthersStay
  <2>4. lastId' \in [WorkTimeTables -> Nat]
    BY <1>1, <2>1
  <2> HIDE DEF new
  <2>5. ASSUME NEW u \in WorkTimeTables, NEW i \in DOMAIN db'[u]
        PROVE  IsRow(db'[u][i]) /\ Columns[u] \subseteq DOMAIN db'[u][i]
    <3>1. CASE u = t /\ i = new
      BY <2>1, <2>2, <3>1
    <3>2. CASE ~(u = t /\ i = new)
      BY <1>1, <2>1, <3>2 DEF OthersStay
    <3> QED
      BY <3>1, <3>2
  <2> QED
    BY <2>1, <2>3, <2>4, <2>5 DEF OthersStay
<1>3. CASE T!Deletes(r)
  <2>1. OthersStay(db, db', t, r.id) /\ DOMAIN db'[t] = DOMAIN db[t] \ {r.id} /\ lastId' = lastId
    <3>1. ~T!Inserts(r)
      BY <1>3 DEF T!Inserts, T!Deletes
    <3> QED
      BY <1>3, <3>1, WrittenRows
  <2> QED
    BY <1>1, <2>1 DEF OthersStay
<1>4. CASE ~T!Inserts(r) /\ ~T!Deletes(r)
  <2> DEFINE row == Patched(db[t][r.id], Dirty(c.loaded, c.values))
             id == r.id
  <2>1. /\ OthersStay(db, db', t, id) /\ DOMAIN db'[t] = DOMAIN db[t] /\ lastId' = lastId
        /\ db'[t][id] = row /\ id \in DOMAIN db[t]
    BY <1>4, WrittenRows
  <2>2. IsRow(row) /\ DOMAIN db[t][id] \subseteq DOMAIN row
    BY DEF Patched, IsRow
  <2> HIDE DEF row, id
  <2>3. ASSUME NEW u \in WorkTimeTables, NEW i \in DOMAIN db'[u]
        PROVE  IsRow(db'[u][i]) /\ Columns[u] \subseteq DOMAIN db'[u][i]
    <3>1. CASE u = t /\ i = id
      BY <1>1, <2>1, <2>2, <3>1
    <3>2. CASE ~(u = t /\ i = id)
      BY <1>1, <2>1, <3>2 DEF OthersStay
    <3> QED
      BY <3>1, <3>2
  <2> QED
    BY <1>1, <2>1, <2>3 DEF OthersStay
<1> QED
  BY <1>2, <1>3, <1>4

\* An event stays, with its employee, its time and what it corrects.
LEMMA EventsStay ==
  ASSUME TypeOK, NEW h \in Handlers, T!Write(h), NEW e \in DOMAIN db["attendance_events"]
  PROVE  /\ e \in DOMAIN db'["attendance_events"]
         /\ \A k \in {"employee_id", "event_time", "corrects_id"} :
              db'["attendance_events"][e][k] = db["attendance_events"][e][k]
<1> DEFINE r == handler[h].request
           c == handler[h]
           t == r.table
           events == "attendance_events"
           new == lastId[t] + 1
<1>1. /\ r \in Requests /\ Prepared(db, c) /\ events \in WorkTimeTables
      /\ {"employee_id", "event_time", "corrects_id"} \subseteq DOMAIN db[events][e]
  BY DEF T!Write, TypeOK, WorkTimeTables, Columns
<1>2. CASE t # events
  <2>1. \E id : OthersStay(db, db', t, id)
    BY WrittenRows
  <2> QED
    BY <1>1, <1>2, <2>1 DEF OthersStay
<1>3. CASE t = events /\ T!Inserts(r)
  <2>1. OthersStay(db, db', events, new) /\ new \notin DOMAIN db[events]
        /\ DOMAIN db'[events] = DOMAIN db[events] \cup {new}
    BY <1>3, WrittenRows
  <2> QED
    BY <1>1, <2>1 DEF OthersStay
<1>4. CASE t = events /\ ~T!Inserts(r)
  <2>1. ~T!Deletes(r)
    BY <1>1, <1>4 DEF Prepared, T!Deletes
  <2>2. {"employee_id", "event_time", "corrects_id"} \cap DOMAIN c.values = {}
    BY <1>1, <1>4, <2>1, UpdatedColumns
  <2>3. /\ OthersStay(db, db', events, r.id) /\ DOMAIN db'[events] = DOMAIN db[events]
        /\ db'[events][r.id] = Patched(db[events][r.id], Dirty(c.loaded, c.values))
    BY <1>4, <2>1, WrittenRows
  <2>4. CASE e = r.id
    BY <1>1, <2>2, <2>3, <2>4 DEF Patched, Dirty
  <2>5. CASE e # r.id
    BY <1>1, <2>3, <2>5 DEF OthersStay
  <2> QED
    BY <2>4, <2>5
<1> QED
  BY <1>2, <1>3, <1>4

\* Every run stays a month: only the service, with a month, sets the period.
LEMMA RunsStayMonths ==
  ASSUME TypeOK, NEW h \in Handlers, T!Write(h)
  PROVE  RunsAreMonths(db')
<1> DEFINE r == handler[h].request
           c == handler[h]
           t == r.table
           runs == "payroll_runs"
           new == lastId[t] + 1
<1>1. /\ r \in Requests /\ Prepared(db, c) /\ runs \in WorkTimeTables /\ RunsAreMonths(db)
      /\ \A i \in DOMAIN db[runs] : {"period_start", "period_end"} \subseteq DOMAIN db[runs][i]
  BY DEF T!Write, TypeOK, WorkTimeTables, Columns
<1>2. SUFFICES ASSUME NEW i \in DOMAIN db'[runs]
               PROVE  <<db'[runs][i].period_start, db'[runs][i].period_end>> \in Months
  BY DEF RunsAreMonths
<1>3. CASE i \in DOMAIN db[runs] /\ db'[runs][i] = db[runs][i]
  BY <1>1, <1>3 DEF RunsAreMonths
<1>4. CASE t # runs
  <2>1. \E id : OthersStay(db, db', t, id)
    BY WrittenRows
  <2> QED
    BY <1>1, <1>3, <1>4, <2>1 DEF OthersStay
<1>5. CASE t = runs /\ T!Inserts(r)
  <2>1. /\ OthersStay(db, db', runs, new) /\ DOMAIN db'[runs] = DOMAIN db[runs] \cup {new}
        /\ db'[runs][new] = c.values
    BY <1>5, WrittenRows
  <2>2. /\ r.op = "create" /\ c.values.period_start = r.values.period_start
        /\ c.values.period_end = r.values.period_end
    BY <1>1, <1>5, InsertedRows
  <2>3. <<c.values.period_start, c.values.period_end>> \in Months
    BY <1>1, <1>5, <2>2 DEF Prepared, ValidPeriod
  <2> HIDE DEF new
  <2> QED
    BY <1>1, <1>3, <2>1, <2>3 DEF OthersStay
<1>6. CASE t = runs /\ T!Deletes(r)
  <2>1. OthersStay(db, db', runs, r.id) /\ DOMAIN db'[runs] = DOMAIN db[runs] \ {r.id}
    BY <1>6, WrittenRows
  <2> QED
    BY <1>1, <1>3, <2>1 DEF OthersStay
<1>7. CASE t = runs /\ ~T!Inserts(r) /\ ~T!Deletes(r)
  <2>1. {"period_start", "period_end"} \cap DOMAIN c.values = {}
    BY <1>1, <1>7, UpdatedColumns
  <2>2. /\ OthersStay(db, db', runs, r.id) /\ DOMAIN db'[runs] = DOMAIN db[runs]
        /\ db'[runs][r.id] = Patched(db[runs][r.id], Dirty(c.loaded, c.values))
    BY <1>7, WrittenRows
  <2>3. CASE i = r.id
    BY <1>1, <2>1, <2>2, <2>3 DEF Patched, Dirty, RunsAreMonths
  <2> QED
    BY <1>1, <1>3, <2>2, <2>3 DEF OthersStay
<1> QED
  BY <1>4, <1>5, <1>6, <1>7

\* What was checked stays prepared while events stay.
LEMMA PreparedStays ==
  ASSUME NEW d, NEW after, NEW c, c.request \in Requests, Prepared(d, c),
         \A e \in DOMAIN d["attendance_events"] :
           /\ e \in DOMAIN after["attendance_events"]
           /\ after["attendance_events"][e].employee_id = d["attendance_events"][e].employee_id
  PROVE  Prepared(after, c)
<1>1. c.request.op # "correct" => WorkTimeAssigned(d, c.request) = WorkTimeAssigned(after, c.request)
  BY AssignedAlone
<1> QED
  BY <1>1 DEF Prepared, Exists

\* What the checks let through is prepared.
LEMMA CheckPrepares ==
  ASSUME TypeOK, NEW h \in Handlers, T!Check(h)
  PROVE  /\ handler' = [handler EXCEPT ![h] = handler'[h]] /\ handler[h].at = "entered"
         /\ handler'[h].request = handler[h].request
         /\ Prepared(db, handler'[h])
<1> DEFINE r == handler[h].request
           original == IF r.op = "create" THEN T!NoRow ELSE db[r.table][r.id]
           c == [at |-> "checked", request |-> r, values |-> WorkTimeAssigned(db, r),
                 loaded |-> original]
<1>1. /\ handler[h].at = "entered" /\ r \in Requests /\ DOMAIN handler = Handlers
      /\ ~T!Refused(db, r)
  BY DEF T!Check, TypeOK
<1>2. handler' = [handler EXCEPT ![h] = c]
  BY DEF T!Check
<1>3. r.op = "create" \/ r.id \in DOMAIN db[r.table]
  BY <1>1, SameTables DEF T!Refused, T!Found, Exists
<1>4. WorkTimeErrors(db, r) = {}
  BY <1>1 DEF T!Refused
<1>5. /\ r.table \in DOMAIN Operations /\ r.op \in Operations[r.table]
      /\ r.op = "correct" => r.table = "attendance_events"
  BY <1>1, RequestAssumption DEF Operations
<1>6. r.table = "attendance_events" => r.op # "delete"
  <2> SUFFICES ASSUME r.table = "attendance_events", r.op = "delete" PROVE FALSE
    OBVIOUS
  <2>1. AttendanceErrors(db, r) = {}
    BY <1>4 DEF WorkTimeErrors
  <2> QED
    BY <2>1 DEF AttendanceErrors, AttendanceDelete
<1>7. ASSUME r.table = "payroll_runs", r.op = "create"
      PROVE  ValidPeriod(r.values.period_start, r.values.period_end)
  <2>1. PayrollRunCreate(db, r.values) = {}
    BY <1>4, <1>7 DEF WorkTimeErrors, PayrollRunErrors
  <2> QED
    BY <2>1 DEF PayrollRunCreate, Raise
<1>8. ASSUME r.op = "correct"
      PROVE  /\ WorkTimeAssigned(db, r) = Correction(db["attendance_events"][r.id], r.id, r.values)
             /\ original = db["attendance_events"][r.id] /\ r.id \in DOMAIN db["attendance_events"]
  BY <1>3, <1>5, <1>8 DEF WorkTimeAssigned, AttendanceAssigned, Decided
<1>9. /\ c.request = r /\ c.values = WorkTimeAssigned(db, r) /\ c.loaded = original
  OBVIOUS
<1>10. \A e \in DOMAIN db["attendance_events"] :
         /\ IsRow(db["attendance_events"][e])
         /\ Columns["attendance_events"] \subseteq DOMAIN db["attendance_events"][e]
  BY DEF TypeOK, WorkTimeTables
<1> HIDE DEF c, original
<1>11. Prepared(db, c)
  BY <1>6, <1>7, <1>8, <1>9, <1>10 DEF Prepared, Exists
<1>12. handler'[h] = c
  BY <1>1, <1>2
<1> QED
  BY <1>1, <1>2, <1>9, <1>11, <1>12

LEMMA WorkTimeTypeStep == TypeOK /\ [Next]_vars => TypeOK'
<1> SUFFICES ASSUME TypeOK, [Next]_vars PROVE TypeOK'
  OBVIOUS
<1> DEFINE Asked(g, k, d) == k[g].at # "idle" => k[g].request \in Requests /\ IsUser(d, k[g].request.by)
           Ready(g, k, d) == k[g].at = "checked" => Prepared(d, k[g])
<1>1. ASSUME NEW h \in Handlers, NEW r \in Requests, T!Enter(h, r) PROVE TypeOK'
  <2>1. /\ handler' = [handler EXCEPT ![h] = [at |-> "entered", request |-> r]]
        /\ db' = db /\ lastId' = lastId /\ WorkTimePermitted(db, r)
    BY <1>1 DEF T!Enter
  <2>2. IsUser(db, r.by)
    BY <2>1 DEF WorkTimePermitted
  <2>3. \A g \in Handlers : Asked(g, handler', db') /\ Ready(g, handler', db')
    BY <2>1, <2>2 DEF TypeOK
  <2> QED
    BY <2>1, <2>3 DEF TypeOK
<1>2. ASSUME NEW h \in Handlers, T!Check(h) PROVE TypeOK'
  <2>1. /\ handler' = [handler EXCEPT ![h] = handler'[h]] /\ handler[h].at = "entered"
        /\ handler'[h].request = handler[h].request /\ Prepared(db, handler'[h])
    BY <1>2, CheckPrepares
  <2>2. db' = db /\ lastId' = lastId
    BY <1>2 DEF T!Check
  <2>3. DOMAIN handler' = Handlers /\ \A g \in Handlers \ {h} : handler'[g] = handler[g]
    BY <2>1 DEF TypeOK
  <2>4. \A g \in Handlers : Asked(g, handler', db) /\ Ready(g, handler', db)
    BY <2>1, <2>3 DEF TypeOK
  <2> QED
    BY <2>2, <2>3, <2>4 DEF TypeOK
<1>3. ASSUME NEW h \in Handlers, T!Refuse(h) \/ T!Fail(h) PROVE TypeOK'
  <2>1. handler' = [handler EXCEPT ![h] = T!Idle] /\ db' = db /\ lastId' = lastId
    BY <1>3 DEF T!Refuse, T!Fail
  <2>2. /\ DOMAIN handler' = Handlers /\ handler'[h].at = "idle"
        /\ \A g \in Handlers \ {h} : handler'[g] = handler[g]
    BY <2>1 DEF TypeOK, T!Idle
  <2>3. \A g \in Handlers : Asked(g, handler', db) /\ Ready(g, handler', db)
    BY <2>2 DEF TypeOK
  <2> QED
    BY <2>1, <2>2, <2>3 DEF TypeOK
<1>4. ASSUME NEW h \in Handlers, T!Write(h) PROVE TypeOK'
  <2>1. /\ ReferencesHold(db', WorkTimeForeignKeys) /\ KeysHold(db', WorkTimeUniqueKeys)
        /\ RowsComplete(db', WorkTimeRequired)
    BY <1>4, WrittenRows
  <2>2. /\ DOMAIN handler' = Handlers /\ handler'[h].at = "idle"
        /\ \A g \in Handlers \ {h} : handler'[g] = handler[g]
    BY <1>4 DEF T!Write, TypeOK, T!Idle
  <2>3. \A user : IsUser(db, user) => IsUser(db', user)
    BY <1>4, UnwrittenTables DEF IsUser
  <2>4. \A g \in Handlers : Asked(g, handler', db')
    BY <2>2, <2>3 DEF TypeOK
  <2>5. ASSUME NEW g \in Handlers PROVE Ready(g, handler', db')
    <3>1. CASE g = h
      BY <2>2, <3>1
    <3>2. CASE g # h
      <4> SUFFICES ASSUME handler'[g].at = "checked" PROVE Prepared(db', handler'[g])
        OBVIOUS
      <4> DEFINE c == handler[g]
                 before == db
                 after == db'
      <4>1. c = handler'[g] /\ c.request \in Requests /\ Prepared(before, c)
        BY <2>2, <3>2 DEF TypeOK
      <4>2. \A e \in DOMAIN before["attendance_events"] :
              /\ e \in DOMAIN after["attendance_events"]
              /\ after["attendance_events"][e].employee_id = before["attendance_events"][e].employee_id
        BY <1>4, EventsStay
      <4> HIDE DEF c, before, after
      <4>3. Prepared(after, c)
        BY <4>1, <4>2, PreparedStays
      <4> QED
        BY <4>1, <4>3 DEF after
    <3> QED
      BY <3>1, <3>2
  <2>6. RunsAreMonths(db')
    BY <1>4, RunsStayMonths
  <2> QED
    BY <1>4, <2>1, <2>2, <2>4, <2>5, <2>6, WrittenTables DEF TypeOK
<1>5. CASE UNCHANGED vars
  BY <1>5 DEF vars, TypeOK
<1> QED
  BY <1>1, <1>2, <1>3, <1>4, <1>5 DEF Next, T!Next, T!Step

\* The tables stay sound and every handler prepared, whatever the database
\* starts with, the number of handlers and what they are asked.
THEOREM WorkTimeTypeCorrect == Spec => []TypeOK
<1>1. Init => TypeOK
  <2> SUFFICES ASSUME Init PROVE TypeOK
    OBVIOUS
  <2>1. /\ db = Database /\ lastId = [t \in WorkTimeTables |-> Cardinality(DOMAIN Database[t])]
        /\ handler = [h \in Handlers |-> T!Idle]
    <3>1. DOMAIN Database = WorkTimeTables
      BY DatabaseAssumption
    <3>2. \A S : T!Cardinality(S) = Cardinality(S)
      BY DEF T!Cardinality, Cardinality
    <3>3. /\ db = Database /\ lastId = [t \in DOMAIN Database |-> Cardinality(DOMAIN Database[t])]
          /\ handler = [h \in Handlers |-> T!Idle]
      BY <3>2 DEF Init, T!StartWith
    <3> QED
      BY <3>1, <3>3, Zenon
  <2>2. ASSUME NEW t \in WorkTimeTables
        PROVE  lastId[t] \in Nat /\ DOMAIN db[t] = 1 .. lastId[t]
    BY <2>1, FS_CardinalityType, DatabaseAssumption
  <2> QED
    BY <2>1, <2>2, DatabaseAssumption DEF TypeOK, T!Idle
<1> QED
  BY <1>1, WorkTimeTypeStep, PTL DEF Spec

-----------------------------------------------------------------------------
(* Recorded time *)

\* What a write does to the events: nothing that matters, or one new event,
\* which corrects none or one of the same employee.
LEMMA EventWrite ==
  ASSUME TypeOK, NEW h \in Handlers, T!Write(h), NEW r, r = handler[h].request,
         NEW events, events = "attendance_events"
  PROVE  \/ DOMAIN db'[events] = DOMAIN db[events]
         \/ \E new \in Int \ DOMAIN db[events] :
              LET row == db'[events][new] IN
              /\ r.table = events /\ DOMAIN db'[events] = DOMAIN db[events] \cup {new}
              /\ \/ /\ r.op = "create" /\ row.corrects_id = Null
                    /\ row.event_time = r.values.event_time.utc
                 \/ /\ r.op = "correct" /\ r.id \in DOMAIN db[events]
                    /\ row.corrects_id = r.id
                    /\ row.employee_id = db[events][r.id].employee_id
                    /\ "event_time" \notin DOMAIN r.values =>
                         row.event_time = handler[h].loaded.event_time
<1> DEFINE c == handler[h]
           new == lastId[r.table] + 1
<1>1. /\ r \in Requests /\ Prepared(db, c) /\ events \in WorkTimeTables /\ c.request = r
      /\ lastId[events] \in Int
  BY DEF T!Write, TypeOK, WorkTimeTables
<1>2. CASE r.table # events
  <2>1. \E id : OthersStay(db, db', r.table, id)
    BY WrittenRows
  <2> QED
    BY <1>1, <1>2, <2>1 DEF OthersStay
<1>3. CASE r.table = events /\ ~T!Inserts(r)
  <2>1. ~T!Deletes(r)
    BY <1>1, <1>3 DEF Prepared, T!Deletes
  <2> QED
    BY <1>3, <2>1, WrittenRows
<1>4. CASE r.table = events /\ T!Inserts(r)
  <2>1. /\ DOMAIN db'[events] = DOMAIN db[events] \cup {new} /\ db'[events][new] = c.values
        /\ new \in Int \ DOMAIN db[events]
    BY <1>1, <1>4, WrittenRows
  <2>2. /\ r.op = "create" \/ r.op = "correct"
        /\ r.op = "create" =>
             c.values.corrects_id = Null /\ c.values.event_time = r.values.event_time.utc
        /\ r.op = "correct" =>
             /\ c.values.corrects_id = r.id /\ c.values.employee_id = c.loaded.employee_id
             /\ "event_time" \notin DOMAIN r.values => c.values.event_time = c.loaded.event_time
    BY <1>1, <1>4, InsertedRows
  <2>3. r.op = "correct" =>
          r.id \in DOMAIN db[events] /\ c.loaded.employee_id = db[events][r.id].employee_id
    BY <1>1 DEF Prepared, Exists
  <2> HIDE DEF new
  <2> QED
    BY <1>4, <2>1, <2>2, <2>3
<1> QED
  BY <1>2, <1>3, <1>4

\* Ids that were given out are finitely many.
LEMMA FiniteIds ==
  ASSUME NEW n \in Nat, NEW S, S \subseteq 1 .. n
  PROVE  IsFiniteSet(S)
<1> DEFINE given == 1 .. n
<1>1. IsFiniteSet(given) /\ S \in SUBSET given
  BY FS_Interval
<1> HIDE DEF given
<1> QED
  BY <1>1, FS_Subset

\* A correction replaces at most one authoritative event by another.
LEMMA AuthoritativeGrows ==
  ASSUME TypeOK, NEW h \in Handlers, T!Write(h), NEW employee
  PROVE  Cardinality(Authoritative(db', employee)) >= Cardinality(Authoritative(db, employee))
<1> DEFINE events == "attendance_events"
           r == handler[h].request
           before == db[events]
           after == db'[events]
           S == {e \in DOMAIN before : /\ before[e].employee_id = employee
                                       /\ \A c \in DOMAIN before : before[c].corrects_id # e}
           R == {e \in DOMAIN after : /\ after[e].employee_id = employee
                                      /\ \A c \in DOMAIN after : after[c].corrects_id # e}
<1>1. S = Authoritative(db, employee) /\ R = Authoritative(db', employee)
  BY DEF Authoritative
<1>2. \A e \in DOMAIN before :
        /\ e \in DOMAIN after /\ after[e].employee_id = before[e].employee_id
        /\ after[e].corrects_id = before[e].corrects_id
  BY EventsStay
<1>3. /\ \A e \in DOMAIN before : before[e].corrects_id \in DOMAIN before \cup {Null}
      /\ Null \notin DOMAIN before
  <2>1. ReferencesHold(db, WorkTimeForeignKeys) /\ DOMAIN before \subseteq 1 .. lastId[events]
    BY DEF TypeOK, WorkTimeTables
  <2> QED
    BY <2>1, CorrectedExists, NullIsNoId
<1>4. IsFiniteSet(S) /\ IsFiniteSet(R)
  <2>1. \E m, n \in Nat : DOMAIN before \subseteq 1 .. m /\ DOMAIN after \subseteq 1 .. n
    BY WrittenTables DEF TypeOK, WorkTimeTables
  <2>2. IsFiniteSet(DOMAIN before) /\ IsFiniteSet(DOMAIN after)
    BY <2>1, FiniteIds
  <2> QED
    BY <2>2, FS_Subset
<1>5. \/ DOMAIN after = DOMAIN before
      \/ \E new \in Int \ DOMAIN before :
           /\ DOMAIN after = DOMAIN before \cup {new}
           /\ \/ after[new].corrects_id = Null
              \/ /\ r.id \in DOMAIN before /\ after[new].corrects_id = r.id
                 /\ after[new].employee_id = before[r.id].employee_id
  BY EventWrite
<1> HIDE DEF before, after
<1>6. CASE S \subseteq R
  BY <1>1, <1>4, <1>6, FS_Subset, FS_CardinalityType
<1>7. CASE DOMAIN after = DOMAIN before
  BY <1>2, <1>6, <1>7
<1>8. ASSUME NEW new \in Int \ DOMAIN before, DOMAIN after = DOMAIN before \cup {new},
             after[new].corrects_id = Null
      PROVE  S \subseteq R
  BY <1>2, <1>3, <1>8
<1>9. ASSUME NEW new \in Int \ DOMAIN before, DOMAIN after = DOMAIN before \cup {new},
             NEW old \in DOMAIN before, after[new].corrects_id = old,
             after[new].employee_id = before[old].employee_id
      PROVE  Cardinality(R) >= Cardinality(S)
  <2>1. S \ {old} \subseteq R
    BY <1>2, <1>9
  <2>2. CASE old \notin S
    BY <1>1, <1>6, <2>1, <2>2
  <2>3. CASE old \in S
    <3> DEFINE U == S \ {old}
    <3>1. new \in R
      <4>1. after[new].employee_id = employee
        BY <1>9, <2>3
      <4>2. \A c \in DOMAIN after : after[c].corrects_id # new
        BY <1>2, <1>3, <1>9, NullIsNoId
      <4> QED
        BY <1>9, <4>1, <4>2
    <3>2. U \cup {new} \subseteq R /\ new \notin U
      BY <1>9, <2>1, <3>1
    <3>3. IsFiniteSet(U) /\ Cardinality(U) = Cardinality(S) - 1
      BY <1>4, <2>3, FS_RemoveElement
    <3> HIDE DEF U
    <3>4. IsFiniteSet(U \cup {new}) /\ Cardinality(U \cup {new}) = Cardinality(U) + 1
      BY <3>2, <3>3, FS_AddElement
    <3>5. Cardinality(U \cup {new}) <= Cardinality(R)
      BY <1>4, <3>2, FS_Subset
    <3>6. Cardinality(S) \in Nat /\ Cardinality(R) \in Nat /\ Cardinality(U) \in Nat
      BY <1>4, <3>3, FS_CardinalityType
    <3> QED
      BY <3>3, <3>4, <3>5, <3>6
  <2> QED
    BY <2>2, <2>3
<1> QED
  BY <1>1, <1>5, <1>6, <1>7, <1>8, <1>9

\* Recorded time is never lost, whoever writes what at the same time.
THEOREM HistoryAlwaysStands == Spec => HistoryStands
<1> DEFINE Kept ==
      LET events == db["attendance_events"]  later == db'["attendance_events"] IN
      /\ \A e \in DOMAIN events :
           /\ e \in DOMAIN later
           /\ later[e].employee_id = events[e].employee_id
           /\ later[e].event_time = events[e].event_time
           /\ later[e].corrects_id = events[e].corrects_id
      /\ \A employee \in DOMAIN db["hr_employees"] :
           Cardinality(Authoritative(db', employee))
             >= Cardinality(Authoritative(db, employee))
<1>1. TypeOK /\ [Next]_vars => [Kept]_vars
  <2> SUFFICES ASSUME TypeOK, Next PROVE Kept
    OBVIOUS
  <2>1. CASE \E h \in Handlers : T!Write(h)
    BY <2>1, EventsStay, AuthoritativeGrows
  <2>2. CASE db' = db
    <3>1. \A employee : Cardinality(Authoritative(db, employee)) \in Nat
      <4>1. DOMAIN db["attendance_events"] \subseteq 1 .. lastId["attendance_events"]
            /\ lastId["attendance_events"] \in Nat
        BY DEF TypeOK, WorkTimeTables
      <4>2. IsFiniteSet(DOMAIN db["attendance_events"])
        BY <4>1, FiniteIds
      <4> QED
        BY <4>2, FS_Subset, FS_CardinalityType DEF Authoritative
    <3> QED
      BY <2>2, <3>1
  <2> QED
    BY <2>1, <2>2 DEF Next, T!Next, T!Step, T!Enter, T!Check, T!Refuse, T!Fail
<1> QED
  BY <1>1, WorkTimeTypeCorrect, PTL DEF Spec, HistoryStands

-----------------------------------------------------------------------------
(* Writes that nobody overtook *)

\* Only a write moves a handler from its checks to idle with a changed database.
LEMMA OnlyWrites ==
  ASSUME NEW h \in Handlers, T!Writes(h), Next, DOMAIN handler = Handlers
  PROVE  T!Write(h)
<1>1. PICK g \in Handlers : T!Step(g) \/ \E r \in Requests : T!Enter(g, r)
  BY DEF Next, T!Next
<1>2. g = h
  BY <1>1 DEF T!Writes, T!Step, T!Enter, T!Check, T!Refuse, T!Write, T!Fail, T!Idle
<1> QED
  BY <1>1, <1>2 DEF T!Writes, T!Step, T!Enter, T!Check, T!Refuse, T!Write, T!Fail, T!Idle

\* The service finds no error, and the row as it loaded it.
LEMMA CurrentChecks ==
  ASSUME NEW h \in Handlers, T!Current(h), NEW r, r = handler[h].request
  PROVE  /\ WorkTimeErrors(db, r) = {}
         /\ r.op # "create" =>
              r.id \in DOMAIN db[r.table] /\ handler[h].loaded = db[r.table][r.id]
BY SameTables DEF T!Current, T!Refused, T!Found, Exists

\* The day of an event that is written is not locked: a new event's is read in
\* the client's offset, a correction's is that of the original.
LEMMA UnlockedEvents ==
  ASSUME NEW d, NEW r, WorkTimeErrors(d, r) = {}, r.table = "attendance_events"
  PROVE  /\ r.op = "create" => ~Locked(d, r.values.event_time.local)
         /\ r.op = "correct" => ~Locked(d, d["attendance_events"][r.id].event_time)
<1>1. r.op \in {"create", "correct"} => AttendanceErrors(d, r) = {}
  BY DEF WorkTimeErrors
<1>2. ASSUME r.op = "create" PROVE ~Locked(d, r.values.event_time.local)
  <2>1. AttendanceCreate(d, r) = {}
    BY <1>1, <1>2 DEF AttendanceErrors
  <2> QED
    BY <2>1 DEF AttendanceCreate, Raise
<1>3. ASSUME r.op = "correct" PROVE ~Locked(d, d["attendance_events"][r.id].event_time)
  <2>1. AttendanceCorrect(d, r) = {}
    BY <1>1, <1>3 DEF AttendanceErrors
  <2> QED
    BY <2>1 DEF AttendanceCorrect, Raise
<1> QED
  BY <1>2, <1>3

\* The employee has an event on the day that nobody corrected.
Present(events, employee, day) ==
  \E e \in DOMAIN events :
    /\ events[e].employee_id = employee /\ events[e].event_time = day
    /\ \A c \in DOMAIN events : events[c].corrects_id # e

\* At most one event is new, on another day, and corrects none of this day.
LittleNew(before, after, day) ==
  /\ \A e \in DOMAIN before :
       /\ e \in DOMAIN after
       /\ \A k \in {"employee_id", "event_time", "corrects_id"} : after[e][k] = before[e][k]
  /\ \/ DOMAIN after = DOMAIN before
     \/ \E new : /\ new \notin DOMAIN before /\ DOMAIN after = DOMAIN before \cup {new}
                 /\ after[new].event_time # day
                 /\ \A e \in DOMAIN before :
                      after[new].corrects_id = e => before[e].event_time # day

LEMMA PresenceStands ==
  ASSUME NEW before, NEW after, NEW employee, NEW day, LittleNew(before, after, day)
  PROVE  Present(after, employee, day) <=> Present(before, employee, day)
<1>1. ASSUME NEW e \in DOMAIN after, after[e].employee_id = employee, after[e].event_time = day,
             \A c \in DOMAIN after : after[c].corrects_id # e
      PROVE  /\ e \in DOMAIN before /\ before[e].employee_id = employee /\ before[e].event_time = day
             /\ \A c \in DOMAIN before : before[c].corrects_id # e
  BY <1>1 DEF LittleNew
<1>2. ASSUME NEW e \in DOMAIN before, before[e].employee_id = employee, before[e].event_time = day,
             \A c \in DOMAIN before : before[c].corrects_id # e
      PROVE  /\ e \in DOMAIN after /\ after[e].employee_id = employee /\ after[e].event_time = day
             /\ \A c \in DOMAIN after : after[c].corrects_id # e
  BY <1>2 DEF LittleNew
<1> QED
  BY <1>1, <1>2 DEF Present

\* The days of a run that is being processed, or was, are locked.
LEMMA ProcessedIsLocked ==
  ASSUME NEW d, RunsAreMonths(d), NEW day \in Processed(d)
  PROVE  Locked(d, day)
<1>1. PICK run \in DOMAIN d["payroll_runs"] :
        /\ d["payroll_runs"][run].status \in {"PROCESSING", "COMPLETED"}
        /\ day \in d["payroll_runs"][run].period_start .. d["payroll_runs"][run].period_end
  BY DEF Processed
<1>2. d["payroll_runs"][run].period_start \in Int /\ d["payroll_runs"][run].period_end \in Int
  BY MonthsAssumption DEF RunsAreMonths
<1>3. d["payroll_runs"][run].period_start <= day /\ day <= d["payroll_runs"][run].period_end
  BY <1>1, <1>2
<1> QED
  BY <1>1, <1>3 DEF Locked

\* A leave is edited or decided only while it is pending, and deleted only if it
\* is not approved.
LEMMA OnlyUnapprovedLeavesChange ==
  ASSUME NEW d, NEW r \in Requests, WorkTimeErrors(d, r) = {},
         r.table = "leave_requests", r.op # "create"
  PROVE  /\ d["leave_requests"][r.id].status # "approved"
         /\ r.op # "delete" => d["leave_requests"][r.id].status = "pending"
<1>1. r.op \in {"update", "delete", "approve", "reject"}
  BY RequestAssumption DEF Operations
<1>2. CASE r.op \in {"approve", "reject"}
  <2>1. DecisionErrors(d, r) = {}
    BY <1>2 DEF WorkTimeErrors
  <2> QED
    BY <1>2, <2>1 DEF DecisionErrors, Raise
<1>3. CASE r.op = "update"
  <2>1. LeaveRequestUpdate(d, r) = {}
    BY <1>3 DEF WorkTimeErrors, LeaveRequestErrors
  <2> QED
    BY <1>3, <2>1 DEF LeaveRequestUpdate, Raise
<1>4. CASE r.op = "delete"
  <2>1. LeaveRequestDelete(d, r) = {}
    BY <1>4 DEF WorkTimeErrors, LeaveRequestErrors
  <2> QED
    BY <1>4, <2>1 DEF LeaveRequestDelete, Raise
<1> QED
  BY <1>1, <1>2, <1>3, <1>4

\* What a write that nobody overtook does to a leave that is approved before it:
\* nothing; and what it must be for a leave to be approved after it.
LEMMA LeaveWrite ==
  ASSUME TypeOK, NEW h \in Handlers, T!Write(h), T!Current(h), NEW r, r = handler[h].request,
         NEW t, t = "leave_requests"
  PROVE  /\ \A l \in DOMAIN db[t] :
              db[t][l].status = "approved" => l \in DOMAIN db'[t] /\ db'[t][l] = db[t][l]
         /\ \A l \in DOMAIN db'[t] :
              db'[t][l].status = "approved" =>
                \/ l \in DOMAIN db[t] /\ db'[t][l] = db[t][l]
                \/ /\ r.table = t
                   /\ r.op = "approve" \/ (r.op = "update" /\ "status" \in DOMAIN r.values)
<1> DEFINE c == handler[h]
           new == lastId[r.table] + 1
<1>1. /\ r \in Requests /\ Prepared(db, c) /\ c.request = r
      /\ t \in WorkTimeTables /\ t \in Decided
      /\ \A i \in DOMAIN db[t] : "status" \in DOMAIN db[t][i]
  BY DEF T!Write, TypeOK, WorkTimeTables, Columns, Decided
<1>2. /\ r.table = t /\ r.op # "create" =>
           /\ db[t][r.id].status # "approved"
           /\ r.op # "delete" => db[t][r.id].status = "pending"
      /\ r.op # "create" => c.loaded = db[r.table][r.id]
  <2>1. WorkTimeErrors(db, r) = {} /\ (r.op # "create" => c.loaded = db[r.table][r.id])
    BY CurrentChecks
  <2> QED
    BY <1>1, <2>1, OnlyUnapprovedLeavesChange
<1>3. CASE r.table # t
  <2>1. \E id : OthersStay(db, db', r.table, id)
    BY WrittenRows
  <2> QED
    BY <1>1, <1>3, <2>1 DEF OthersStay
<1>4. CASE r.table = t /\ T!Inserts(r)
  <2>1. /\ OthersStay(db, db', t, new) /\ new \notin DOMAIN db[t]
        /\ DOMAIN db'[t] = DOMAIN db[t] \cup {new} /\ db'[t][new] = c.values
    BY <1>4, WrittenRows
  <2>2. c.values.status = "pending"
    BY <1>1, <1>4, InsertedRows
  <2> HIDE DEF new
  <2> QED
    BY <1>1, <2>1, <2>2 DEF OthersStay
<1>5. CASE r.table = t /\ T!Deletes(r)
  <2>1. ~T!Inserts(r) /\ r.op # "create"
    BY <1>5 DEF T!Inserts, T!Deletes
  <2>2. OthersStay(db, db', t, r.id) /\ DOMAIN db'[t] = DOMAIN db[t] \ {r.id}
    BY <1>5, <2>1, WrittenRows
  <2> QED
    BY <1>1, <1>2, <1>5, <2>1, <2>2 DEF OthersStay
<1>6. CASE r.table = t /\ ~T!Inserts(r) /\ ~T!Deletes(r)
  <2> DEFINE id == r.id
             old == db[t][id]
             v == c.values
             row == Patched(old, Dirty(c.loaded, v))
  <2>1. /\ OthersStay(db, db', t, id) /\ DOMAIN db'[t] = DOMAIN db[t]
        /\ db'[t][id] = row /\ id \in DOMAIN db[t]
    BY <1>6, WrittenRows
  <2>2. c.loaded = old /\ old.status = "pending"
    BY <1>2, <1>6 DEF T!Inserts, T!Deletes
  <2>3. \/ r.op = "update" /\ v = r.values
        \/ r.op = "approve"
        \/ r.op = "reject" /\ v = [status |-> "rejected", approved_by |-> r.by]
    BY <1>1, <1>6, UpdatedColumns
  <2>4. \A k \in DOMAIN old : row[k] = IF k \in DOMAIN v THEN v[k] ELSE old[k]
    BY <2>2 DEF Patched, Dirty
  <2>5. "status" \in DOMAIN old
    BY <1>1, <2>1
  <2> HIDE DEF row, v, old
  <2>6. row.status = "approved" =>
          r.op = "approve" \/ (r.op = "update" /\ "status" \in DOMAIN r.values)
    BY <2>2, <2>3, <2>4, <2>5
  <2>7. old = db[t][id]
    BY DEF old
  <2> HIDE DEF id
  <2> QED
    BY <1>1, <1>6, <2>1, <2>2, <2>6, <2>7 DEF OthersStay
<1> QED
  BY <1>3, <1>4, <1>5, <1>6

\* A locked day is reconciled as before, but for the four ways around the
\* lock that LockedDaysStand names.
LEMMA CurrentWriteKeepsLockedDays ==
  ASSUME TypeOK, NEW h \in Handlers, T!Write(h), T!Current(h), NEW r, r = handler[h].request,
         NEW day \in Processed(db), NEW employee,
         ~(r.op = "correct" /\ "event_time" \in DOMAIN r.values),
         ~(r.op = "create" /\ r.table = "attendance_events"
             /\ r.values.event_time.utc # r.values.event_time.local),
         r.table # "holidays"
  PROVE  \/ Reconcile(db', employee, day) = Reconcile(db, employee, day)
         \/ /\ r.table = "leave_requests" /\ Reconcile(db', employee, day) = "leave"
            /\ r.op = "approve" \/ (r.op = "update" /\ "status" \in DOMAIN r.values)
<1> DEFINE before == db["attendance_events"]
           after == db'["attendance_events"]
<1>1. Locked(db, day)
  BY ProcessedIsLocked DEF TypeOK
<1>2. /\ r.table = "attendance_events" /\ r.op = "create" => r.values.event_time.utc # day
      /\ r.op = "correct" =>
           before[r.id].event_time # day /\ handler[h].loaded = before[r.id]
  <2>1. r.op = "correct" => r.table = "attendance_events"
    BY RequestAssumption DEF TypeOK, T!Write, Operations
  <2> QED
    BY <1>1, <2>1, CurrentChecks, UnlockedEvents
<1>3. \A e \in DOMAIN before :
        /\ e \in DOMAIN after
        /\ \A k \in {"employee_id", "event_time", "corrects_id"} : after[e][k] = before[e][k]
  BY EventsStay
<1>4. Null \notin DOMAIN before
  <2>1. DOMAIN before \subseteq 1 .. lastId["attendance_events"]
    BY DEF TypeOK, WorkTimeTables
  <2> QED
    BY <2>1, NullIsNoId
<1>5. \/ DOMAIN after = DOMAIN before
      \/ \E new : /\ new \notin DOMAIN before /\ DOMAIN after = DOMAIN before \cup {new}
                  /\ after[new].event_time # day
                  /\ \A e \in DOMAIN before :
                       after[new].corrects_id = e => before[e].event_time # day
  <2> SUFFICES ASSUME DOMAIN after # DOMAIN before
               PROVE  \E new : /\ new \notin DOMAIN before /\ DOMAIN after = DOMAIN before \cup {new}
                               /\ after[new].event_time # day
                               /\ \A e \in DOMAIN before :
                                    after[new].corrects_id = e => before[e].event_time # day
    OBVIOUS
  <2>1. PICK new \in Int \ DOMAIN before :
          /\ r.table = "attendance_events" /\ DOMAIN after = DOMAIN before \cup {new}
          /\ \/ /\ r.op = "create" /\ after[new].corrects_id = Null
                /\ after[new].event_time = r.values.event_time.utc
             \/ /\ r.op = "correct" /\ r.id \in DOMAIN before
                /\ after[new].corrects_id = r.id
                /\ after[new].employee_id = before[r.id].employee_id
                /\ "event_time" \notin DOMAIN r.values =>
                     after[new].event_time = handler[h].loaded.event_time
    BY EventWrite
  <2> HIDE DEF before, after
  <2> QED
    BY <1>2, <1>4, <2>1
<1>6. (\E e \in Authoritative(db', employee) : after[e].event_time = day)
        <=> (\E e \in Authoritative(db, employee) : before[e].event_time = day)
  <2>1. /\ Present(after, employee, day) <=>
             \E e \in Authoritative(db', employee) : after[e].event_time = day
        /\ Present(before, employee, day) <=>
             \E e \in Authoritative(db, employee) : before[e].event_time = day
    BY DEF Authoritative, Present
  <2>2. LittleNew(before, after, day)
    BY <1>3, <1>5 DEF LittleNew
  <2>3. Present(after, employee, day) <=> Present(before, employee, day)
    BY <2>2, PresenceStands
  <2> QED
    BY <2>1, <2>3
<1>7. /\ DOMAIN db'["holidays"] = DOMAIN db["holidays"]
      /\ \A i \in DOMAIN db["holidays"] : db'["holidays"][i] = db["holidays"][i]
  <2>1. \E id : OthersStay(db, db', r.table, id)
    BY WrittenRows
  <2> QED
    BY <2>1 DEF OthersStay, WorkTimeTables
<1>8. (\E i \in DOMAIN db'["holidays"] : db'["holidays"][i].holiday_date = day)
        <=> (\E i \in DOMAIN db["holidays"] : db["holidays"][i].holiday_date = day)
  BY <1>7
<1> DEFINE OnLeave(leaves) ==
      \E l \in DOMAIN leaves :
        LET leave == leaves[l] IN
        /\ leave.employee_id = employee /\ leave.status = "approved"
        /\ leave.start_date <= day /\ day <= leave.end_date
<1>9. OnLeave(db["leave_requests"]) => OnLeave(db'["leave_requests"])
  BY LeaveWrite
<1>10. \/ OnLeave(db'["leave_requests"]) <=> OnLeave(db["leave_requests"])
       \/ /\ r.table = "leave_requests" /\ OnLeave(db'["leave_requests"])
          /\ r.op = "approve" \/ (r.op = "update" /\ "status" \in DOMAIN r.values)
  BY <1>9, LeaveWrite
<1>11. CASE OnLeave(db'["leave_requests"]) <=> OnLeave(db["leave_requests"])
  BY <1>6, <1>8, <1>11 DEF Reconcile
<1>12. CASE /\ r.table = "leave_requests" /\ OnLeave(db'["leave_requests"])
            /\ r.op = "approve" \/ (r.op = "update" /\ "status" \in DOMAIN r.values)
  BY <1>8, <1>12 DEF Reconcile
<1> QED
  BY <1>10, <1>11, <1>12

\* What payroll pays a locked day for is changed by no write that was not
\* overtaken, but in the four ways that LockedDaysStand names: a correction to
\* another time, an event of another offset, a holiday and a leave that is approved.
THEOREM LockedDaysAlwaysStand == Spec => LockedDaysStand
<1>1. TypeOK /\ [Next]_vars =>
        [\A h \in Handlers : T!Writes(h) /\ T!Current(h) =>
           LET r == handler[h].request IN
           \A day \in Processed(db) :
             \A employee \in DOMAIN db["hr_employees"] :
               \/ Reconcile(db', employee, day) = Reconcile(db, employee, day)
               \/ r.op = "correct" /\ "event_time" \in DOMAIN r.values
               \/ r.op = "create" /\ r.table = "attendance_events"
                    /\ r.values.event_time.utc # r.values.event_time.local
               \/ r.table = "holidays"
               \/ /\ r.table = "leave_requests" /\ Reconcile(db', employee, day) = "leave"
                  /\ r.op = "approve" \/ (r.op = "update" /\ "status" \in DOMAIN r.values)]_vars
  <2> SUFFICES ASSUME TypeOK, Next, NEW h \in Handlers, T!Writes(h), T!Current(h),
                      NEW r, r = handler[h].request, NEW day \in Processed(db),
                      NEW employee \in DOMAIN db["hr_employees"],
                      ~(r.op = "correct" /\ "event_time" \in DOMAIN r.values),
                      ~(r.op = "create" /\ r.table = "attendance_events"
                          /\ r.values.event_time.utc # r.values.event_time.local),
                      r.table # "holidays"
               PROVE  \/ Reconcile(db', employee, day) = Reconcile(db, employee, day)
                      \/ /\ r.table = "leave_requests" /\ Reconcile(db', employee, day) = "leave"
                         /\ r.op = "approve" \/ (r.op = "update" /\ "status" \in DOMAIN r.values)
    BY Zenon
  <2>1. T!Write(h)
    BY OnlyWrites DEF TypeOK
  <2> QED
    BY <2>1, CurrentWriteKeepsLockedDays
<1> QED
  BY <1>1, WorkTimeTypeCorrect, PTL DEF Spec, LockedDaysStand

\* Only a pending request is edited, deleted or decided, and only its manager
\* decides it.
LEMMA OnlyPendingChanges ==
  ASSUME NEW d, NEW r \in Requests, WorkTimeErrors(d, r) = {},
         r.table \in {"overtime_requests", "timesheets"}, r.op # "create"
  PROVE  /\ d[r.table][r.id].status = "pending"
         /\ r.op \in {"approve", "reject"} => Authorize(d, r)
<1>1. r.op \in {"update", "delete", "approve", "reject"}
  BY RequestAssumption DEF Operations
<1>2. CASE r.op \in {"approve", "reject"}
  <2>1. DecisionErrors(d, r) = {}
    BY <1>2 DEF WorkTimeErrors
  <2> QED
    BY <2>1 DEF DecisionErrors, Raise
<1>3. CASE r.op \in {"update", "delete"} /\ r.table = "overtime_requests"
  <2>1. OvertimeRequestErrors(d, r) = {}
    BY <1>3 DEF WorkTimeErrors
  <2> QED
    BY <1>3, <2>1 DEF OvertimeRequestErrors, OvertimeRequestUpdate, OvertimeRequestDelete, Raise
<1>4. CASE r.op \in {"update", "delete"} /\ r.table = "timesheets"
  <2>1. TimesheetErrors(d, r) = {}
    BY <1>4 DEF WorkTimeErrors
  <2> QED
    BY <1>4, <2>1 DEF TimesheetErrors, TimesheetUpdate, TimesheetDelete, Raise
<1> QED
  BY <1>1, <1>2, <1>3, <1>4

LEMMA CurrentWriteKeepsDecisions ==
  ASSUME TypeOK, NEW h \in Handlers, T!Write(h), T!Current(h), NEW r, r = handler[h].request,
         NEW t \in {"overtime_requests", "timesheets"}
  PROVE  /\ \A id \in DOMAIN db[t] :
              db[t][id].status # "pending" => id \in DOMAIN db'[t] /\ db'[t][id] = db[t][id]
         /\ \A id \in DOMAIN db'[t] :
              (db'[t][id].status = "approved"
                 /\ ~(id \in DOMAIN db[t] /\ db[t][id].status = "approved")) =>
              \/ r.op = "update" /\ "status" \in DOMAIN r.values
              \/ r.op = "approve" /\ Authorize(db, r) /\ db'[t][id].approved_by = r.by
<1> DEFINE c == handler[h]
           new == lastId[r.table] + 1
           Goal(id) == \/ r.op = "update" /\ "status" \in DOMAIN r.values
                       \/ r.op = "approve" /\ Authorize(db, r) /\ db'[t][id].approved_by = r.by
           Fresh(id) == db'[t][id].status = "approved"
                          /\ ~(id \in DOMAIN db[t] /\ db[t][id].status = "approved")
<1>1. /\ r \in Requests /\ Prepared(db, c) /\ c.request = r /\ t \in WorkTimeTables
      /\ \A i \in DOMAIN db[t] : {"status", "approved_by"} \subseteq DOMAIN db[t][i]
  BY DEF T!Write, TypeOK, WorkTimeTables, Columns
<1>2. /\ r.table = t /\ r.op # "create" =>
           db[t][r.id].status = "pending" /\ (r.op \in {"approve", "reject"} => Authorize(db, r))
      /\ r.op # "create" => c.loaded = db[r.table][r.id]
  <2>1. WorkTimeErrors(db, r) = {} /\ (r.op # "create" => c.loaded = db[r.table][r.id])
    BY CurrentChecks
  <2> QED
    BY <1>1, <2>1, OnlyPendingChanges
<1>3. CASE r.table # t
  <2>1. \E id : OthersStay(db, db', r.table, id)
    BY WrittenRows
  <2> QED
    BY <1>1, <1>3, <2>1 DEF OthersStay
<1>4. CASE r.table = t /\ T!Inserts(r)
  <2>1. /\ OthersStay(db, db', t, new) /\ new \notin DOMAIN db[t]
        /\ DOMAIN db'[t] = DOMAIN db[t] \cup {new} /\ db'[t][new] = c.values
    BY <1>4, WrittenRows
  <2>2. c.values.status = "pending"
    BY <1>1, <1>4, InsertedRows DEF Decided
  <2> HIDE DEF new
  <2> QED
    BY <1>1, <2>1, <2>2 DEF OthersStay
<1>5. CASE r.table = t /\ T!Deletes(r)
  <2>1. ~T!Inserts(r) /\ r.op # "create"
    BY <1>5 DEF T!Inserts, T!Deletes
  <2>2. OthersStay(db, db', t, r.id) /\ DOMAIN db'[t] = DOMAIN db[t] \ {r.id}
    BY <1>5, <2>1, WrittenRows
  <2> QED
    BY <1>1, <1>2, <1>5, <2>1, <2>2 DEF OthersStay
<1>6. CASE r.table = t /\ ~T!Inserts(r) /\ ~T!Deletes(r)
  <2> DEFINE id == r.id
             old == db[t][id]
             v == c.values
             row == Patched(old, Dirty(c.loaded, v))
  <2>1. /\ OthersStay(db, db', t, id) /\ DOMAIN db'[t] = DOMAIN db[t]
        /\ db'[t][id] = row /\ id \in DOMAIN db[t]
    BY <1>6, WrittenRows
  <2>2. /\ c.loaded = old /\ old.status = "pending"
        /\ r.op \in {"approve", "reject"} => Authorize(db, r)
    BY <1>2, <1>6 DEF T!Inserts
  <2>3. \/ r.op = "update" /\ v = r.values
        \/ r.op = "approve" /\ v = [status |-> "approved", approved_by |-> r.by]
        \/ r.op = "reject" /\ v = [status |-> "rejected", approved_by |-> r.by]
    BY <1>1, <1>6, UpdatedColumns DEF Decided
  <2>4. \A k \in DOMAIN old : row[k] = IF k \in DOMAIN v THEN v[k] ELSE old[k]
    BY <2>2 DEF Patched, Dirty
  <2>5. {"status", "approved_by"} \subseteq DOMAIN old
    BY <1>1, <2>1
  <2> HIDE DEF row, v, old
  <2>6. row.status = "approved" =>
          \/ r.op = "update" /\ "status" \in DOMAIN r.values
          \/ r.op = "approve" /\ Authorize(db, r) /\ row.approved_by = r.by
    BY <2>2, <2>3, <2>4, <2>5
  <2>7. old = db[t][id]
    BY DEF old
  <2> HIDE DEF id
  <2>8. \A i \in DOMAIN db[t] :
          db[t][i].status # "pending" => i \in DOMAIN db'[t] /\ db'[t][i] = db[t][i]
    BY <1>1, <2>1, <2>2, <2>7 DEF OthersStay
  <2>9. ASSUME NEW i \in DOMAIN db'[t], Fresh(i) PROVE Goal(i)
    <3>1. CASE i = id
      BY <2>1, <2>6, <2>9, <3>1
    <3>2. CASE i # id
      BY <1>1, <2>1, <2>9, <3>2 DEF OthersStay
    <3> QED
      BY <3>1, <3>2
  <2> QED
    BY <2>8, <2>9
<1> QED
  BY <1>3, <1>4, <1>5, <1>6

\* A decided request stays as it was decided, and only its manager or a status
\* that the client sent approves it, unless the write was overtaken.
THEOREM DecisionsAlwaysStand == Spec => DecisionsStand
<1>1. TypeOK /\ [Next]_vars =>
        [\A h \in Handlers : T!Writes(h) /\ T!Current(h) =>
           LET r == handler[h].request IN
           \A t \in {"overtime_requests", "timesheets"} :
             /\ \A id \in DOMAIN db[t] :
                  db[t][id].status # "pending" => id \in DOMAIN db'[t] /\ db'[t][id] = db[t][id]
             /\ \A id \in DOMAIN db'[t] :
                  (db'[t][id].status = "approved"
                     /\ ~(id \in DOMAIN db[t] /\ db[t][id].status = "approved")) =>
                  \/ r.op = "update" /\ "status" \in DOMAIN r.values
                  \/ r.op = "approve" /\ Authorize(db, r) /\ db'[t][id].approved_by = r.by]_vars
  <2> SUFFICES ASSUME TypeOK, Next, NEW h \in Handlers, T!Writes(h), T!Current(h),
                      NEW r, r = handler[h].request, NEW t \in {"overtime_requests", "timesheets"}
               PROVE
                 /\ \A id \in DOMAIN db[t] :
                      db[t][id].status # "pending" => id \in DOMAIN db'[t] /\ db'[t][id] = db[t][id]
                 /\ \A id \in DOMAIN db'[t] :
                      (db'[t][id].status = "approved"
                         /\ ~(id \in DOMAIN db[t] /\ db[t][id].status = "approved")) =>
                      \/ r.op = "update" /\ "status" \in DOMAIN r.values
                      \/ r.op = "approve" /\ Authorize(db, r) /\ db'[t][id].approved_by = r.by
    BY Zenon
  <2>1. T!Write(h)
    BY OnlyWrites DEF TypeOK
  <2> QED
    BY <2>1, CurrentWriteKeepsDecisions
<1> QED
  BY <1>1, WorkTimeTypeCorrect, PTL DEF Spec, DecisionsStand

\* A run that is created unovertaken shares no day with a run of its currency.
LEMMA CurrentRunsAreDisjoint ==
  ASSUME TypeOK, NEW h \in Handlers, T!Write(h), T!Current(h),
         NEW run \in DOMAIN db'["payroll_runs"] \ DOMAIN db["payroll_runs"],
         NEW p, p = db'["payroll_runs"][run], NEW day \in p.period_start .. p.period_end,
         NEW other \in DOMAIN db["payroll_runs"], NEW q, q = db["payroll_runs"][other],
         q.currency = p.currency
  PROVE  day \notin q.period_start .. q.period_end
<1> DEFINE r == handler[h].request
           c == handler[h]
           runs == "payroll_runs"
           new == lastId[r.table] + 1
<1>1. r \in Requests /\ Prepared(db, c) /\ runs \in WorkTimeTables
  BY DEF T!Write, TypeOK, WorkTimeTables
<1>2. r.table = runs
  <2>1. \E id : OthersStay(db, db', r.table, id)
    BY WrittenRows
  <2> QED
    BY <1>1, <2>1 DEF OthersStay
<1>3. T!Inserts(r)
  <2>1. CASE T!Deletes(r)
    <3>1. DOMAIN db'[r.table] = DOMAIN db[r.table] \ {r.id}
      BY <2>1, WrittenRows
    <3> QED
      BY <1>2, <3>1
  <2>2. CASE ~T!Inserts(r) /\ ~T!Deletes(r)
    <3>1. DOMAIN db'[r.table] = DOMAIN db[r.table]
      BY <2>2, WrittenRows
    <3> QED
      BY <1>2, <3>1
  <2> QED
    BY <2>1, <2>2
<1>4. p = c.values
  <2>1. DOMAIN db'[runs] = DOMAIN db[runs] \cup {new} /\ db'[runs][new] = c.values
    BY <1>2, <1>3, WrittenRows
  <2> QED
    BY <2>1
<1>5. /\ p.currency = r.values.currency /\ p.period_start = r.values.period_start
      /\ p.period_end = r.values.period_end /\ r.op = "create"
  BY <1>1, <1>2, <1>3, <1>4, InsertedRows
<1>6. FindOverlappingPeriod(db, p.currency, p.period_start, p.period_end) = {}
  <2>1. WorkTimeErrors(db, r) = {}
    BY CurrentChecks
  <2>2. PayrollRunCreate(db, r.values) = {}
    BY <1>2, <1>5, <2>1 DEF WorkTimeErrors, PayrollRunErrors
  <2> QED
    BY <1>5, <2>2 DEF PayrollRunCreate, Raise
<1>7. /\ p.period_start \in Int /\ p.period_end \in Int
      /\ q.period_start \in Int /\ q.period_end \in Int
  <2>1. RunsAreMonths(db) /\ RunsAreMonths(db')
    BY RunsStayMonths DEF TypeOK
  <2>2. <<p.period_start, p.period_end>> \in Months /\ <<q.period_start, q.period_end>> \in Months
    BY <2>1 DEF RunsAreMonths
  <2> QED
    BY <2>2, MonthsAssumption
<1>8. SUFFICES ASSUME day \in q.period_start .. q.period_end PROVE FALSE
  OBVIOUS
<1>9. q.period_start <= p.period_end /\ q.period_end >= p.period_start
  BY <1>7, <1>8
<1> QED
  BY <1>6, <1>9 DEF FindOverlappingPeriod

\* Every run is a whole month, and runs of one currency share a day only if
\* they were created over each other.
THEOREM RunsAlwaysPartitionTime == Spec => RunsPartitionTime
<1>1. TypeOK /\ [Next]_vars =>
        [ /\ RunsAreMonths(db')
          /\ \A h \in Handlers : T!Writes(h) /\ T!Current(h) =>
               \A run \in DOMAIN db'["payroll_runs"] \ DOMAIN db["payroll_runs"] :
                 LET p == db'["payroll_runs"][run] IN
                 \A day \in p.period_start .. p.period_end :
                   \A other \in DOMAIN db["payroll_runs"] :
                     LET q == db["payroll_runs"][other] IN
                     q.currency = p.currency => day \notin q.period_start .. q.period_end ]_vars
  <2> SUFFICES ASSUME TypeOK, Next
               PROVE  /\ RunsAreMonths(db')
                      /\ \A h \in Handlers : T!Writes(h) /\ T!Current(h) =>
                           \A run \in DOMAIN db'["payroll_runs"] \ DOMAIN db["payroll_runs"] :
                             LET p == db'["payroll_runs"][run] IN
                             \A day \in p.period_start .. p.period_end :
                               \A other \in DOMAIN db["payroll_runs"] :
                                 LET q == db["payroll_runs"][other] IN
                                 q.currency = p.currency => day \notin q.period_start .. q.period_end
    OBVIOUS
  <2>1. RunsAreMonths(db')
    BY WorkTimeTypeStep DEF TypeOK
  <2>2. ASSUME NEW h \in Handlers, T!Writes(h), T!Current(h)
        PROVE  T!Write(h)
    BY <2>2, OnlyWrites DEF TypeOK
  <2> QED
    BY <2>1, <2>2, CurrentRunsAreDisjoint
<1> QED
  BY <1>1, WorkTimeTypeCorrect, PTL DEF Spec, RunsPartitionTime

-----------------------------------------------------------------------------
(* What the services check is what the database will *)

\* The row may be stored under the id: its references exist, its keys are free.
Fits(d, t, id, row) ==
  /\ \A f \in WorkTimeForeignKeys :
       f.from = t => row[f.column] \in DOMAIN d[f.to] \cup {Null}
  /\ \A k \in WorkTimeUniqueKeys : k.table = t => ~Taken(d, t, id, k.columns, row)

\* A key is taken or not whatever else is in the row.
LEMMA TakenAlike ==
  ASSUME NEW d, NEW t, NEW id, NEW columns, NEW a, NEW b, \A k \in columns : a[k] = b[k]
  PROVE  Taken(d, t, id, columns, a) <=> Taken(d, t, id, columns, b)
BY DEF Taken

\* A statement keeps the constraints if the row it stores fits.
LEMMA FittingKeepsConstraints ==
  ASSUME NEW d, NEW t \in WorkTimeTables, NEW id, NEW row,
         ReferencesHold(d, WorkTimeForeignKeys), KeysHold(d, WorkTimeUniqueKeys),
         Fits(d, t, id, row), NEW after, OthersStay(d, after, t, id),
         DOMAIN after[t] = DOMAIN d[t] \cup {id}, after[t][id] = row
  PROVE  ReferencesHold(after, WorkTimeForeignKeys) /\ KeysHold(after, WorkTimeUniqueKeys)
<1>1. \A u \in WorkTimeTables : DOMAIN d[u] \subseteq DOMAIN after[u]
  BY DEF OthersStay
<1>2. ReferencesHold(after, WorkTimeForeignKeys)
  <2> SUFFICES ASSUME NEW f \in WorkTimeForeignKeys, NEW i \in DOMAIN after[f.from]
               PROVE  after[f.from][i][f.column] \in DOMAIN after[f.to] \cup {Null}
    BY DEF ReferencesHold
  <2>1. f.from \in WorkTimeTables /\ DOMAIN d[f.to] \subseteq DOMAIN after[f.to]
    BY <1>1, KeysOfTables
  <2>2. CASE f.from = t /\ i = id
    BY <2>1, <2>2 DEF Fits
  <2>3. CASE ~(f.from = t /\ i = id)
    <3>1. i \in DOMAIN d[f.from] /\ after[f.from][i] = d[f.from][i]
      BY <2>1, <2>3 DEF OthersStay
    <3> QED
      BY <2>1, <3>1 DEF ReferencesHold
  <2> QED
    BY <2>2, <2>3
<1>3. KeysHold(after, WorkTimeUniqueKeys)
  <2> SUFFICES ASSUME NEW k \in WorkTimeUniqueKeys, NEW i \in DOMAIN after[k.table],
                      NEW j \in DOMAIN after[k.table] \ {i},
                      \A c \in k.columns : after[k.table][j][c] = after[k.table][i][c]
               PROVE  FALSE
    BY DEF KeysHold, Taken
  <2>1. k.table \in WorkTimeTables
    BY KeysOfTables
  <2>2. CASE k.table # t \/ (i # id /\ j # id)
    <3>1. /\ i \in DOMAIN d[k.table] /\ after[k.table][i] = d[k.table][i]
          /\ j \in DOMAIN d[k.table] /\ after[k.table][j] = d[k.table][j]
      BY <2>1, <2>2 DEF OthersStay
    <3> QED
      BY <3>1 DEF KeysHold, Taken
  <2>3. CASE k.table = t /\ i = id
    <3>1. j \in DOMAIN d[t] \ {id} /\ \A c \in k.columns : d[t][j][c] = row[c]
      BY <2>3 DEF OthersStay
    <3> QED
      BY <2>3, <3>1 DEF Fits, Taken
  <2>4. CASE k.table = t /\ j = id
    <3>1. i \in DOMAIN d[t] \ {id} /\ \A c \in k.columns : d[t][i][c] = row[c]
      BY <2>4 DEF OthersStay
    <3> QED
      BY <2>4, <3>1 DEF Fits, Taken
  <2> QED
    BY <2>2, <2>3, <2>4
<1> QED
  BY <1>2, <1>3

\* The row after an update that sends v, and what v must be for it to fit.
Updated(d, t, id, v, row) ==
  \A k \in Columns[t] : row[k] = IF k \in DOMAIN v THEN v[k] ELSE d[t][id][k]

SentFits(d, t, id, v, row) ==
  /\ \A f \in WorkTimeForeignKeys :
       f.from = t /\ f.column \in DOMAIN v => v[f.column] \in DOMAIN d[f.to] \cup {Null}
  /\ \A k \in WorkTimeUniqueKeys :
       k.table = t /\ k.columns \cap DOMAIN v # {} => ~Taken(d, t, id, k.columns, row)

\* An update fits if the columns it sends do: the others fitted before.
LEMMA UpdateFits ==
  ASSUME NEW d, NEW t, NEW id \in DOMAIN d[t], NEW v, NEW row,
         ReferencesHold(d, WorkTimeForeignKeys), KeysHold(d, WorkTimeUniqueKeys),
         Columns[t] \subseteq DOMAIN d[t][id],
         Updated(d, t, id, v, row), SentFits(d, t, id, v, row)
  PROVE  Fits(d, t, id, row)
<1>1. ASSUME NEW f \in WorkTimeForeignKeys, f.from = t
      PROVE  row[f.column] \in DOMAIN d[f.to] \cup {Null}
  <2>1. f.column \in Columns[t]
    BY <1>1, KeysOfTables
  <2>2. d[t][id][f.column] \in DOMAIN d[f.to] \cup {Null}
    BY <1>1 DEF ReferencesHold
  <2> QED
    BY <1>1, <2>1, <2>2 DEF Updated, SentFits
<1>2. ASSUME NEW k \in WorkTimeUniqueKeys, k.table = t, k.columns \cap DOMAIN v = {}
      PROVE  ~Taken(d, t, id, k.columns, row)
  <2>1. \A c \in k.columns : row[c] = d[t][id][c]
    BY <1>2, KeysOfTables DEF Updated
  <2>2. ~Taken(d, t, id, k.columns, d[t][id])
    BY <1>2 DEF KeysHold
  <2> QED
    BY <2>1, <2>2 DEF Taken
<1> QED
  BY <1>1, <1>2 DEF Fits, SentFits

\* The NOT NULL columns stay filled if the row that is stored is complete.
LEMMA CompleteRowsStay ==
  ASSUME NEW d, NEW t \in WorkTimeTables, NEW id, RowsComplete(d, WorkTimeRequired),
         NEW after, OthersStay(d, after, t, id), DOMAIN after[t] = DOMAIN d[t] \cup {id},
         t \in DOMAIN WorkTimeRequired, Complete(after[t][id], WorkTimeRequired[t])
  PROVE  RowsComplete(after, WorkTimeRequired)
<1> SUFFICES ASSUME NEW u \in DOMAIN WorkTimeRequired, NEW i \in DOMAIN after[u]
             PROVE  Complete(after[u][i], WorkTimeRequired[u])
  BY DEF RowsComplete
<1>1. u \in WorkTimeTables
  BY DEF WorkTimeRequired, WorkTimeTables
<1>2. CASE u = t /\ i = id
  BY <1>2
<1>3. CASE ~(u = t /\ i = id)
  <2>1. i \in DOMAIN d[u] /\ after[u][i] = d[u][i]
    BY <1>1, <1>3 DEF OthersStay
  <2> QED
    BY <2>1 DEF RowsComplete
<1> QED
  BY <1>2, <1>3

\* An update that sends no null for such a column leaves the row complete.
LEMMA PatchedComplete ==
  ASSUME NEW old, NEW v, NEW required, Complete(old, required), Complete(v, required)
  PROVE  /\ Complete(Patched(old, v), required)
         /\ Complete(Patched(old, Dirty(old, v)), required)
BY DEF Complete, Patched, Dirty

\* Two ends that are there can be compared.
LEMMA Compared ==
  ASSUME NEW a, a # Null, NEW b, b # Null, NEW condition, NEW error
  PROVE  Compare(a, b, condition, error) \subseteq {error}
BY DEF Compare, Raise

\* Every column that must be filled is, in the row an update leads to.
LEMMA EndsAreThere ==
  ASSUME NEW d, NEW r \in Requests, ~T!SendsNull(d, r), r.table \in Decided, r.op = "update",
         r.id \in DOMAIN d[r.table], RowsComplete(d, WorkTimeRequired),
         Columns[r.table] \subseteq DOMAIN d[r.table][r.id],
         NEW row, row = Patched(d[r.table][r.id], r.values)
  PROVE  /\ r.table = "overtime_requests" => row.start_time # Null /\ row.end_time # Null
         /\ r.table \in {"timesheets", "leave_requests"} =>
              row.start_date # Null /\ row.end_date # Null
<1> DEFINE old == d[r.table][r.id]
           required == WorkTimeRequired[r.table]
<1>1. r.table \in DOMAIN WorkTimeRequired
  BY DEF Decided, WorkTimeRequired
<1>2. Complete(old, required)
  BY <1>1 DEF RowsComplete
<1>3. WorkTimeAssigned(d, r) = r.values
  BY DEF WorkTimeAssigned, RequestAssigned, Decided
<1>4. Complete(r.values, required)
  BY <1>3, SameTables DEF T!SendsNull, T!Deletes
<1>5. DOMAIN row = DOMAIN old \cup DOMAIN r.values
  BY DEF Patched
<1> HIDE DEF old
<1>6. Complete(row, required)
  BY <1>2, <1>4, PatchedComplete DEF old
<1>7. \A k \in required \cap Columns[r.table] : row[k] # Null
  BY <1>5, <1>6 DEF Complete, old
<1>8. /\ r.table = "overtime_requests" =>
           {"start_time", "end_time"} \subseteq required \cap Columns[r.table]
      /\ r.table \in {"timesheets", "leave_requests"} =>
           {"start_date", "end_date"} \subseteq required \cap Columns[r.table]
  BY DEF WorkTimeRequired, Columns
<1> HIDE DEF required
<1> QED
  BY <1>7, <1>8

\* A service raises nothing that its route does not turn into an answer, unless
\* null is sent for a NOT NULL column or a run that is deleted has more than one
\* payslip.
LEMMA RoutesKnowErrors ==
  ASSUME NEW d, NEW r \in Requests, ~T!SendsNull(d, r),
         r.op = "create" \/ r.id \in DOMAIN d[r.table], RowsComplete(d, WorkTimeRequired),
         \A t \in WorkTimeTables : \A i \in DOMAIN d[t] : Columns[t] \subseteq DOMAIN d[t][i],
         ~(r.table = "payroll_runs" /\ r.op = "delete" /\ ManyPayslips(d, r.id))
  PROVE  WorkTimeErrors(d, r) \subseteq WorkTimeRoutes(r)
<1>1. r.table \in DOMAIN Operations /\ r.op \in Operations[r.table]
  BY RequestAssumption
<1> DEFINE row == Patched(d[r.table][r.id], r.values)
<1>9. r.table \in Decided /\ r.op = "update" =>
        /\ r.table = "overtime_requests" => row.start_time # Null /\ row.end_time # Null
        /\ r.table \in {"timesheets", "leave_requests"} =>
             row.start_date # Null /\ row.end_date # Null
  <2> SUFFICES ASSUME r.table \in Decided, r.op = "update"
               PROVE  /\ r.table = "overtime_requests" => row.start_time # Null /\ row.end_time # Null
                      /\ r.table \in {"timesheets", "leave_requests"} =>
                           row.start_date # Null /\ row.end_date # Null
    OBVIOUS
  <2>1. r.id \in DOMAIN d[r.table] /\ r.table \in WorkTimeTables
    BY DEF Decided, WorkTimeTables
  <2> HIDE DEF row
  <2>2. Columns[r.table] \subseteq DOMAIN d[r.table][r.id]
    BY <2>1
  <2> QED
    BY <2>1, <2>2, EndsAreThere DEF row
<1> HIDE DEF row
<1>2. CASE r.table = "attendance_events"
  <2>1. /\ WorkTimeErrors(d, r) = AttendanceErrors(d, r)
        /\ WorkTimeRoutes(r) = AttendanceRoutes[r.op]
        /\ r.op \in {"create", "update", "correct", "delete"}
    BY <1>1, <1>2 DEF WorkTimeErrors, WorkTimeRoutes, Operations
  <2>2. CASE r.op = "create"
    BY <2>1, <2>2 DEF AttendanceErrors, AttendanceCreate, AttendanceRoutes, Raise
  <2>3. CASE r.op = "update"
    BY <2>1, <2>3 DEF AttendanceErrors, AttendanceUpdate, AttendanceRoutes, Raise
  <2>4. CASE r.op = "correct"
    BY <2>1, <2>4 DEF AttendanceErrors, AttendanceCorrect, AttendanceRoutes, Raise
  <2>5. CASE r.op = "delete"
    BY <2>1, <2>5 DEF AttendanceErrors, AttendanceDelete, AttendanceRoutes, Raise
  <2> QED
    BY <2>1, <2>2, <2>3, <2>4, <2>5
<1>3. CASE r.table = "payroll_runs"
  <2>1. /\ WorkTimeErrors(d, r) = PayrollRunErrors(d, r)
        /\ WorkTimeRoutes(r) = PayrollRunRoutes[r.op]
        /\ r.op \in {"create", "update", "delete", "start_processing", "complete"}
    BY <1>1, <1>3 DEF WorkTimeErrors, WorkTimeRoutes, Operations
  <2>2. CASE r.op = "create"
    BY <2>1, <2>2 DEF PayrollRunErrors, PayrollRunCreate, PayrollRunRoutes, Raise
  <2>3. CASE r.op = "update"
    BY <2>1, <2>3 DEF PayrollRunErrors, PayrollRunUpdate, PayrollRunRoutes, Raise
  <2>4. CASE r.op \in {"start_processing", "complete"}
    BY <2>1, <2>4 DEF PayrollRunErrors, PayrollRunRoutes, Raise
  <2>5. CASE r.op = "delete"
    BY <1>3, <2>1, <2>5 DEF PayrollRunErrors, PayrollRunDelete, PayrollRunRoutes, Raise
  <2> QED
    BY <2>1, <2>2, <2>3, <2>4, <2>5
<1>4. CASE r.table = "holidays"
  <2>1. /\ WorkTimeErrors(d, r) = HolidayErrors(d, r)
        /\ WorkTimeRoutes(r) = HolidayRoutes[r.op]
        /\ r.op \in {"create", "update", "delete"}
    BY <1>1, <1>4 DEF WorkTimeErrors, WorkTimeRoutes, Operations
  <2> QED
    BY <2>1 DEF HolidayErrors, HolidayCreate, HolidayUpdate, HolidayRoutes, Raise
<1>5. CASE r.table = "overtime_requests"
  <2>1. /\ WorkTimeRoutes(r) = OvertimeRequestRoutes[r.op]
        /\ r.op \in {"create", "update", "delete", "approve", "reject"}
    BY <1>1, <1>5 DEF WorkTimeRoutes, Operations
  <2>2. CASE r.op \in {"approve", "reject"}
    BY <1>5, <2>1, <2>2 DEF WorkTimeErrors, DecisionErrors, OvertimeRequestRoutes, DecisionRoute, Raise
  <2>3. CASE r.op \in {"create", "delete"}
    <3>1. WorkTimeErrors(d, r) = OvertimeRequestErrors(d, r)
      BY <1>5, <2>3 DEF WorkTimeErrors
    <3> QED
      BY <2>1, <2>3, <3>1 DEF OvertimeRequestErrors, OvertimeRequestCreate, OvertimeRequestDelete, OvertimeRequestRoutes, Raise
  <2>4. CASE r.op = "update"
    <3>1. WorkTimeErrors(d, r) = OvertimeRequestErrors(d, r)
      BY <1>5, <2>4 DEF WorkTimeErrors
    <3>2. Compare(row.end_time, row.start_time, row.end_time <= row.start_time, "InvalidOvertimeTimeRange") \subseteq {"InvalidOvertimeTimeRange"}
      BY <1>9, <1>5, <2>4, Compared DEF Decided
    <3> QED
      BY <1>5, <2>1, <2>4, <3>1, <3>2 DEF OvertimeRequestErrors, OvertimeRequestUpdate, OvertimeRequestDelete, OvertimeRequestRoutes, Raise, row
  <2> QED
    BY <2>1, <2>2, <2>3, <2>4
<1>6. CASE r.table = "timesheets"
  <2>1. /\ WorkTimeRoutes(r) = TimesheetRoutes[r.op]
        /\ r.op \in {"create", "update", "delete", "approve", "reject"}
    BY <1>1, <1>6 DEF WorkTimeRoutes, Operations
  <2>2. CASE r.op \in {"approve", "reject"}
    BY <1>6, <2>1, <2>2 DEF WorkTimeErrors, DecisionErrors, TimesheetRoutes, DecisionRoute, Raise
  <2>3. CASE r.op \in {"create", "delete"}
    <3>1. WorkTimeErrors(d, r) = TimesheetErrors(d, r)
      BY <1>6, <2>3 DEF WorkTimeErrors
    <3> QED
      BY <2>1, <2>3, <3>1 DEF TimesheetErrors, TimesheetCreate, TimesheetDelete, TimesheetRoutes, Raise
  <2>4. CASE r.op = "update"
    <3>1. WorkTimeErrors(d, r) = TimesheetErrors(d, r)
      BY <1>6, <2>4 DEF WorkTimeErrors
    <3>2. Compare(row.end_date, row.start_date, row.end_date < row.start_date, "InvalidTimesheetDateRange") \subseteq {"InvalidTimesheetDateRange"}
      BY <1>9, <1>6, <2>4, Compared DEF Decided
    <3> QED
      BY <1>6, <2>1, <2>4, <3>1, <3>2 DEF TimesheetErrors, TimesheetUpdate, TimesheetDelete, TimesheetRoutes, Raise, row
  <2> QED
    BY <2>1, <2>2, <2>3, <2>4
<1>7. CASE r.table = "leave_requests"
  <2>1. /\ WorkTimeRoutes(r) = LeaveRequestRoutes[r.op]
        /\ r.op \in {"create", "update", "delete", "approve", "reject"}
    BY <1>1, <1>7 DEF WorkTimeRoutes, Operations
  <2>2. CASE r.op \in {"approve", "reject"}
    <3>1. DecisionErrors(d, r) \subseteq DecisionRoute
      BY DEF DecisionErrors, DecisionRoute, Raise
    <3>2. CASE r.op = "reject"
      BY <1>7, <2>1, <3>1, <3>2 DEF WorkTimeErrors, LeaveRequestRoutes
    <3>3. CASE r.op = "approve"
      <4>1. r.values.balance \subseteq BalanceErrors
        BY <1>7, <3>3, RequestAssumption
      <4>2. SyncLeaveBalance(d, r)
              \subseteq {"CrossYearLeaveRequest", "OverlappingLeaveRequest"} \cup BalanceErrors
        BY <4>1 DEF SyncLeaveBalance, Raise
      <4> QED
        BY <1>7, <2>1, <3>1, <3>3, <4>2 DEF WorkTimeErrors, LeaveRequestRoutes
    <3> QED
      BY <2>2, <3>2, <3>3
  <2>3. CASE r.op \in {"create", "delete"}
    <3>1. WorkTimeErrors(d, r) = LeaveRequestErrors(d, r)
      BY <1>7, <2>3 DEF WorkTimeErrors
    <3> QED
      BY <2>1, <2>3, <3>1 DEF LeaveRequestErrors, LeaveRequestCreate, LeaveRequestDelete, LeaveRequestRoutes, Raise
  <2>4. CASE r.op = "update"
    <3>1. WorkTimeErrors(d, r) = LeaveRequestErrors(d, r)
      BY <1>7, <2>4 DEF WorkTimeErrors
    <3>2. Compare(row.end_date, row.start_date, row.end_date < row.start_date, "InvalidLeaveDateRange") \subseteq {"InvalidLeaveDateRange"}
      BY <1>9, <1>7, <2>4, Compared DEF Decided
    <3> QED
      BY <1>7, <2>1, <2>4, <3>1, <3>2 DEF LeaveRequestErrors, LeaveRequestUpdate, LeaveRequestDelete, LeaveRequestRoutes, Raise, row
  <2> QED
    BY <2>1, <2>2, <2>3, <2>4
<1>8. CASE r.table = "payslips"
  <2>1. /\ WorkTimeErrors(d, r) = PayslipErrors(d, r) /\ WorkTimeRoutes(r) = PayslipRoutes[r.op]
        /\ r.op = "create"
    BY <1>1, <1>8 DEF WorkTimeErrors, WorkTimeRoutes, Operations
  <2> QED
    BY <2>1 DEF PayslipErrors, PayslipRoutes, Raise
<1> QED
  BY <1>1, <1>2, <1>3, <1>4, <1>5, <1>6, <1>7, <1>8 DEF Operations

\* The rows that are inserted fit: what they refer to was looked up, and so
\* were the codes and dates that must be their own.
LEMMA InsertFits ==
  ASSUME NEW d, NEW c, Prepared(d, c), NEW r, r = c.request, r \in Requests, T!Inserts(r),
         NEW t, t = r.table, WorkTimeErrors(d, r) = {}, ReferencesHold(d, WorkTimeForeignKeys),
         r.op = "correct" => r.id \in DOMAIN d[t] /\ c.loaded = d[t][r.id],
         NEW id, id \notin DOMAIN d[t], 0 \notin DOMAIN d[t]
  PROVE  Fits(d, t, id, c.values)
<1> DEFINE row == c.values
<1>1. t \in DOMAIN Operations /\ r.op \in Operations[t] /\ (r.op = "create" \/ r.op = "correct")
  BY InsertedRows, RequestAssumption
<1>2. \A columns : Taken(d, t, id, columns, row) <=> Taken(d, t, 0, columns, row)
  BY DEF Taken
<1> HIDE DEF row
<1>8. row = c.values
  BY DEF row
<1>9. /\ t = "attendance_events" /\ r.op = "create" =>
           /\ row.employee_id = r.values.employee_id /\ row.shift_id = r.values.shift_id
           /\ row.corrects_id = Null
      /\ r.op = "correct" =>
           /\ t = "attendance_events" /\ row.employee_id = c.loaded.employee_id
           /\ row.shift_id = c.loaded.shift_id /\ row.corrects_id = r.id
      /\ t = "payroll_runs" => row.code = r.values.code
      /\ t \in {"holidays", "payslips"} => row = r.values
      /\ t \in Decided => row.employee_id = r.values.employee_id /\ row.approved_by = Null
  BY <1>8, InsertedRows
<1>3. CASE t = "attendance_events" /\ r.op = "create"
  <2>1. AttendanceCreate(d, r) = {}
    BY <1>3 DEF WorkTimeErrors, AttendanceErrors
  <2>2. r.values.employee_id \in DOMAIN d["hr_employees"] /\ r.values.shift_id \in DOMAIN d["shifts"]
    BY <2>1 DEF AttendanceCreate, Raise, Exists
  <2>3. /\ row.employee_id = r.values.employee_id /\ row.shift_id = r.values.shift_id
        /\ row.corrects_id = Null
    BY <1>3, <1>9
  <2>4. Fits(d, t, id, row)
    BY <1>3, <2>2, <2>3, ForeignKeysByTable, UniqueKeysByTable DEF Fits, Decided
  <2> QED
    BY <2>4, <1>8
<1>4. CASE r.op = "correct"
  <2>1. t = "attendance_events"
    BY <1>4, <1>9
  <2>2. /\ row.employee_id = d[t][r.id].employee_id /\ row.shift_id = d[t][r.id].shift_id
        /\ row.corrects_id = r.id
    BY <1>4, <1>9
  <2>3. /\ Reference("attendance_events", "employee_id", "hr_employees", "restrict") \in WorkTimeForeignKeys
        /\ Reference("attendance_events", "shift_id", "shifts", "restrict") \in WorkTimeForeignKeys
    BY DEF WorkTimeForeignKeys, AttendanceKeys, References
  <2>4. /\ d[t][r.id].employee_id \in DOMAIN d["hr_employees"] \cup {Null}
        /\ d[t][r.id].shift_id \in DOMAIN d["shifts"] \cup {Null}
    BY <1>4, <2>1, <2>3 DEF ReferencesHold, Reference
  <2>5. Fits(d, t, id, row)
    BY <1>4, <2>1, <2>2, <2>4, ForeignKeysByTable, UniqueKeysByTable DEF Fits, Decided
  <2> QED
    BY <2>5, <1>8
<1>5. CASE t = "payroll_runs" /\ r.op = "create"
  <2>1. PayrollRunCreate(d, r.values) = {}
    BY <1>5 DEF WorkTimeErrors, PayrollRunErrors
  <2>2. ~Taken(d, t, 0, {"code"}, r.values)
    BY <1>5, <2>1 DEF PayrollRunCreate, Raise
  <2>3. row.code = r.values.code
    BY <1>5, <1>9
  <2>4. ~Taken(d, t, id, {"code"}, row)
    <3>1. Taken(d, t, 0, {"code"}, row) <=> Taken(d, t, 0, {"code"}, r.values)
      BY <2>3, TakenAlike
    <3> QED
      BY <1>2, <2>2, <3>1
  <2>5. Fits(d, t, id, row)
    BY <1>5, <2>4, ForeignKeysByTable, UniqueKeysByTable DEF Fits, Decided
  <2> QED
    BY <2>5, <1>8
<1>6. CASE t = "holidays" /\ r.op = "create"
  <2>1. HolidayCreate(d, r.values) = {}
    BY <1>6 DEF WorkTimeErrors, HolidayErrors
  <2>2. ~Taken(d, t, 0, {"code"}, r.values) /\ ~Taken(d, t, 0, {"holiday_date"}, r.values)
    BY <1>6, <2>1 DEF HolidayCreate, Raise
  <2>3. row = r.values
    BY <1>6, <1>9
  <2>4. Fits(d, t, id, row)
    BY <1>2, <1>6, <2>2, <2>3, ForeignKeysByTable, UniqueKeysByTable DEF Fits, Decided
  <2> QED
    BY <2>4, <1>8
<1>7. CASE t \in Decided /\ r.op = "create"
  <2>1. r.values.employee_id \in DOMAIN d["hr_employees"]
    <3>1. CASE t = "overtime_requests"
      <4>1. OvertimeRequestCreate(d, r.values) = {}
        BY <1>7, <3>1 DEF WorkTimeErrors, OvertimeRequestErrors
      <4> QED
        BY <4>1 DEF OvertimeRequestCreate, Raise, Exists
    <3>2. CASE t = "timesheets"
      <4>1. TimesheetCreate(d, r.values) = {}
        BY <1>7, <3>2 DEF WorkTimeErrors, TimesheetErrors
      <4> QED
        BY <4>1 DEF TimesheetCreate, Raise, Exists
    <3>3. CASE t = "leave_requests"
      <4>1. LeaveRequestCreate(d, r) = {}
        BY <1>7, <3>3 DEF WorkTimeErrors, LeaveRequestErrors
      <4> QED
        BY <4>1 DEF LeaveRequestCreate, Raise, Exists
    <3> QED
      BY <1>7, <3>1, <3>2, <3>3 DEF Decided
  <2>2. row.employee_id = r.values.employee_id /\ row.approved_by = Null
    BY <1>7, <1>9
  <2>3. Fits(d, t, id, row)
    BY <1>7, <2>1, <2>2, ForeignKeysByTable, UniqueKeysByTable DEF Fits, Decided
  <2> QED
    BY <2>3, <1>8
<1>10. CASE t = "payslips" /\ r.op = "create"
  <2>1. PayslipErrors(d, r) = {}
    BY <1>10 DEF WorkTimeErrors
  <2>2. /\ r.values.employee_id \in DOMAIN d["hr_employees"]
        /\ r.values.payroll_run_id \in DOMAIN d["payroll_runs"]
    BY <2>1 DEF PayslipErrors, Raise, Exists
  <2>3. row = r.values
    BY <1>9, <1>10
  <2>4. Fits(d, t, id, row)
    BY <1>10, <2>2, <2>3, ForeignKeysByTable, UniqueKeysByTable DEF Fits, Decided
  <2> QED
    BY <2>4, <1>8
<1> QED
  BY <1>1, <1>3, <1>4, <1>5, <1>6, <1>7, <1>8, <1>10 DEF Operations, Decided

\* The rows that are updated fit: what they refer to newly was looked up, and
\* so were a new code and date; who decides is the user who asks.
LEMMA UpdatedRowFits ==
  ASSUME NEW d, NEW c, Prepared(d, c), NEW r, r = c.request, r \in Requests,
         ~T!Inserts(r), ~T!Deletes(r), NEW t, t = r.table, NEW id, id = r.id,
         WorkTimeErrors(d, r) = {}, id \in DOMAIN d[t], c.loaded = d[t][id],
         Columns[t] \subseteq DOMAIN d[t][id], IsUser(d, r.by),
         ReferencesHold(d, WorkTimeForeignKeys), KeysHold(d, WorkTimeUniqueKeys),
         NEW row, row = Patched(d[t][id], Dirty(c.loaded, c.values))
  PROVE  Fits(d, t, id, row)
<1> DEFINE v == c.values
<1>1. t \in DOMAIN Operations /\ r.op \in Operations[t]
  BY RequestAssumption
<1>2. Updated(d, t, id, v, row)
  BY DEF Patched, Dirty, Updated
<1>3. /\ t = "attendance_events" =>
           /\ r.op = "update" /\ v = r.values
           /\ {"employee_id", "event_time", "corrects_id"} \cap DOMAIN v = {}
      /\ t = "payroll_runs" => (r.op = "update" /\ v = r.values) \/ DOMAIN v = {"status"}
      /\ t = "holidays" => r.op = "update" /\ v = r.values
      /\ t # "payslips"
      /\ t \in Decided =>
           \/ r.op = "update" /\ v = r.values /\ "approved_by" \notin DOMAIN v
           \/ r.op = "approve" /\ v = [status |-> "approved", approved_by |-> r.by]
           \/ r.op = "reject" /\ v = [status |-> "rejected", approved_by |-> r.by]
  BY UpdatedColumns
<1> HIDE DEF v
<1>4. SUFFICES SentFits(d, t, id, v, row)
  BY <1>2, UpdateFits
<1>5. CASE t = "attendance_events"
  <2>1. AttendanceUpdate(d, r) = {}
    BY <1>3, <1>5 DEF WorkTimeErrors, AttendanceErrors
  <2>2. "shift_id" \in DOMAIN v => v.shift_id \in DOMAIN d["shifts"]
    BY <1>3, <1>5, <2>1 DEF AttendanceUpdate, Raise, Exists
  <2> QED
    BY <1>3, <1>5, <2>2, ForeignKeysByTable, UniqueKeysByTable DEF SentFits, Decided
<1>6. CASE t = "payroll_runs"
  <2>1. ASSUME "code" \in DOMAIN v PROVE ~Taken(d, t, id, {"code"}, row)
    <3>1. r.op = "update" /\ v = r.values
      BY <1>3, <1>6, <2>1
    <3>2. PayrollRunUpdate(d, id, r.values) = {}
      BY <1>6, <3>1 DEF WorkTimeErrors, PayrollRunErrors
    <3>3. ~Taken(d, t, id, {"code"}, v)
      BY <1>6, <2>1, <3>1, <3>2 DEF PayrollRunUpdate, Raise
    <3>4. row.code = v.code
      BY <1>2, <1>6, <2>1 DEF Columns, Updated
    <3> QED
      BY <3>3, <3>4, TakenAlike
  <2> QED
    BY <1>6, <2>1, ForeignKeysByTable, UniqueKeysByTable DEF SentFits, Decided
<1>7. CASE t = "holidays"
  <2>1. HolidayUpdate(d, id, v) = {}
    BY <1>3, <1>7 DEF WorkTimeErrors, HolidayErrors
  <2>2. ASSUME NEW k \in {"code", "holiday_date"}, k \in DOMAIN v PROVE ~Taken(d, t, id, {k}, row)
    <3>1. ~Taken(d, t, id, {k}, v)
      BY <1>7, <2>1, <2>2 DEF HolidayUpdate, Raise
    <3>2. row[k] = v[k]
      BY <1>2, <1>7, <2>2 DEF Columns, Updated
    <3> QED
      BY <3>1, <3>2, TakenAlike
  <2> QED
    BY <1>7, <2>2, ForeignKeysByTable, UniqueKeysByTable DEF SentFits, Decided
<1>8. CASE t \in Decided
  <2>1. "approved_by" \in DOMAIN v => v.approved_by \in DOMAIN d["users"]
    BY <1>3, <1>8 DEF IsUser
  <2>2. ASSUME "employee_id" \in DOMAIN v PROVE v.employee_id \in DOMAIN d["hr_employees"]
    <3>1. r.op = "update" /\ v = r.values
      BY <1>3, <1>8, <2>2
    <3>2. CASE t = "overtime_requests"
      <4>1. OvertimeRequestUpdate(d, id, v) = {}
        BY <3>1, <3>2 DEF WorkTimeErrors, OvertimeRequestErrors
      <4> QED
        BY <2>2, <4>1 DEF OvertimeRequestUpdate, Raise, Exists
    <3>3. CASE t = "timesheets"
      <4>1. TimesheetUpdate(d, id, v) = {}
        BY <3>1, <3>3 DEF WorkTimeErrors, TimesheetErrors
      <4> QED
        BY <2>2, <4>1 DEF TimesheetUpdate, Raise, Exists
    <3>4. CASE t = "leave_requests"
      <4>1. LeaveRequestUpdate(d, r) = {}
        BY <3>1, <3>4 DEF WorkTimeErrors, LeaveRequestErrors
      <4>2. Patched(d["leave_requests"][r.id], r.values).employee_id = v.employee_id
        BY <2>2, <3>1 DEF Patched
      <4> QED
        BY <2>2, <3>1, <4>1, <4>2 DEF LeaveRequestUpdate, Raise, Exists
    <3> QED
      BY <1>8, <3>2, <3>3, <3>4 DEF Decided
  <2> QED
    BY <1>8, <2>1, <2>2, ForeignKeysByTable, UniqueKeysByTable DEF SentFits, Decided
<1> QED
  BY <1>1, <1>3, <1>5, <1>6, <1>7, <1>8 DEF Operations, Decided

\* Nothing refers to a row that a service deletes, if no payslip and no deduction
\* is of the run.
LEMMA DeleteKeepsConstraints ==
  ASSUME NEW d, ReferencesHold(d, WorkTimeForeignKeys), KeysHold(d, WorkTimeUniqueKeys),
         RowsComplete(d, WorkTimeRequired),
         NEW t \in DOMAIN Operations \ {"attendance_events"}, NEW id,
         t = "payroll_runs" =>
           \A u \in {"payslips", "deductions"} : \A i \in DOMAIN d[u] : d[u][i].payroll_run_id # id,
         NEW after, OthersStay(d, after, t, id), DOMAIN after[t] = DOMAIN d[t] \ {id}
  PROVE  /\ ReferencesHold(after, WorkTimeForeignKeys) /\ KeysHold(after, WorkTimeUniqueKeys)
         /\ RowsComplete(after, WorkTimeRequired)
<1>1. \A u \in WorkTimeTables : \A i \in DOMAIN after[u] :
        i \in DOMAIN d[u] /\ after[u][i] = d[u][i]
  BY DEF OthersStay
<1>2. ASSUME NEW f \in WorkTimeForeignKeys, NEW i \in DOMAIN after[f.from]
      PROVE  after[f.from][i][f.column] \in DOMAIN after[f.to] \cup {Null}
  <2>1. /\ f.from \in WorkTimeTables /\ f.to \in WorkTimeTables
        /\ i \in DOMAIN d[f.from] /\ after[f.from][i] = d[f.from][i]
    BY <1>1, <1>2, KeysOfTables
  <2>2. d[f.from][i][f.column] \in DOMAIN d[f.to] \cup {Null}
    BY <2>1 DEF ReferencesHold
  <2>3. CASE f.to # t
    BY <2>1, <2>2, <2>3 DEF OthersStay
  <2>4. CASE f.to = t
    <3>1. t = "payroll_runs" /\ f.from \in {"payslips", "deductions"} /\ f.column = "payroll_run_id"
      BY <2>4, ForeignKeysByTable DEF Operations
    <3>2. d[f.from][i][f.column] # id
      BY <2>1, <3>1
    <3> QED
      BY <2>1, <2>2, <2>4, <3>2
  <2> QED
    BY <2>3, <2>4
<1>3. ReferencesHold(after, WorkTimeForeignKeys)
  BY <1>2 DEF ReferencesHold
<1>4. KeysHold(after, WorkTimeUniqueKeys)
  BY <1>1, KeysOfTables DEF KeysHold, Taken
<1>5. RowsComplete(after, WorkTimeRequired)
  <2>1. DOMAIN WorkTimeRequired \subseteq WorkTimeTables
    BY DEF WorkTimeRequired, WorkTimeTables
  <2> QED
    BY <1>1, <2>1 DEF RowsComplete
<1> QED
  BY <1>3, <1>4, <1>5

\* What a checked request writes sends no null for a NOT NULL column, if it did
\* not before.
LEMMA ChecksComplete ==
  ASSUME NEW d, NEW c, Prepared(d, c), NEW r, r = c.request, r \in Requests, ~T!Deletes(r),
         ~T!SendsNull(d, r), r.op = "correct" => c.loaded = d[r.table][r.id]
  PROVE  r.table \in DOMAIN WorkTimeRequired /\ Complete(c.values, WorkTimeRequired[r.table])
<1>1. /\ r.table \in DOMAIN WorkTimeRequired
      /\ r.op = "correct" => r.table = "attendance_events"
  BY RequestAssumption DEF Operations, WorkTimeRequired
<1>2. c.values = WorkTimeAssigned(d, r)
  BY <1>1 DEF Prepared, WorkTimeAssigned, AttendanceAssigned, Decided
<1> QED
  BY <1>1, <1>2, SameTables DEF T!SendsNull

\* The database takes the write of a request that nobody overtook, but for a null
\* in a NOT NULL column and the deletion of a run that payslips or deductions hold.
LEMMA CurrentIsAccepted ==
  ASSUME TypeOK, NEW h \in Handlers, handler[h].at = "checked", T!Current(h),
         ~T!SendsNull(db, handler[h].request),
         ~(/\ handler[h].request.table = "payroll_runs" /\ handler[h].request.op = "delete"
           /\ HeldUnanswered(db, handler[h].request.id))
  PROVE  T!Accepted(db, handler[h], T!NextId(h))
<1> DEFINE r == handler[h].request
           c == handler[h]
           t == r.table
           id == r.id
           new == lastId[t] + 1
           after == T!Flushed(db, c, new)
<1>1. /\ r \in Requests /\ t \in WorkTimeTables /\ Prepared(db, c) /\ IsUser(db, r.by)
      /\ t \in DOMAIN Operations
  BY RequestAssumption DEF TypeOK, Operations, WorkTimeTables
<1>2. /\ WorkTimeErrors(db, r) = {}
      /\ r.op # "create" => id \in DOMAIN db[t] /\ c.loaded = db[t][id]
  BY CurrentChecks
<1>3. /\ DOMAIN db = WorkTimeTables /\ lastId[t] \in Nat /\ DOMAIN db[t] \subseteq 1 .. lastId[t]
      /\ ReferencesHold(db, WorkTimeForeignKeys) /\ KeysHold(db, WorkTimeUniqueKeys)
      /\ \A u \in WorkTimeTables : \A i \in DOMAIN db[u] : IsRow(db[u][i])
      /\ \A i \in DOMAIN db[t] : Columns[t] \subseteq DOMAIN db[t][i]
      /\ RowsComplete(db, WorkTimeRequired)
  BY <1>1 DEF TypeOK
<1>4. SUFFICES /\ T!Inserts(r) \/ id \in DOMAIN db[t]
               /\ ReferencesHold(after, WorkTimeForeignKeys)
               /\ KeysHold(after, WorkTimeUniqueKeys)
               /\ RowsComplete(after, WorkTimeRequired)
  BY SameTables DEF T!Accepted, T!NextId, Exists
<1>8. ~T!Deletes(r) => t \in DOMAIN WorkTimeRequired /\ Complete(c.values, WorkTimeRequired[t])
  BY <1>1, <1>2, ChecksComplete
<1>5. CASE T!Inserts(r)
  <2> DEFINE row == c.values
  <2>1. after = Stored(db, t, new, row)
    BY <1>5, SameTables DEF T!Flushed
  <2>2. new \notin DOMAIN db[t] /\ 0 \notin DOMAIN db[t]
    BY <1>3
  <2>3. r.op = "correct" => r.op # "create"
    OBVIOUS
  <2>4. Fits(db, t, new, row)
    BY <1>1, <1>2, <1>3, <1>5, <2>2, <2>3, InsertFits
  <2> HIDE DEF row, after, new
  <2>5. OthersStay(db, after, t, new) /\ DOMAIN after[t] = DOMAIN db[t] \cup {new} /\ after[t][new] = row
    BY <1>1, <1>3, <2>1, StoredStays
  <2>6. ReferencesHold(after, WorkTimeForeignKeys) /\ KeysHold(after, WorkTimeUniqueKeys)
    BY <1>1, <1>3, <2>4, <2>5, FittingKeepsConstraints
  <2>7. ~T!Deletes(r)
    BY <1>5 DEF T!Inserts, T!Deletes
  <2>8. RowsComplete(after, WorkTimeRequired)
    BY <1>1, <1>3, <1>8, <2>5, <2>7, CompleteRowsStay DEF row
  <2> QED
    BY <1>5, <2>6, <2>8
<1>6. CASE T!Deletes(r)
  <2>1. ~T!Inserts(r) /\ r.op # "create" /\ t # "attendance_events"
    BY <1>1, <1>6 DEF T!Inserts, T!Deletes, Prepared
  <2>2. after = Removed(db, WorkTimeForeignKeys, t, id)
    BY <1>6, <2>1, SameTables DEF T!Flushed
  <2> HIDE DEF after
  <2>3. OthersStay(db, after, t, id) /\ DOMAIN after[t] = DOMAIN db[t] \ {id}
    BY <1>1, <1>3, <2>2, RemovedStays
  <2>4. ASSUME t = "payroll_runs"
        PROVE  \A u \in {"payslips", "deductions"} :
                 \A i \in DOMAIN db[u] : db[u][i].payroll_run_id # id
    <3>1. PayrollRunDelete(db, id) = {} /\ ~HeldUnanswered(db, id)
      BY <1>2, <1>6, <2>4 DEF WorkTimeErrors, PayrollRunErrors, T!Deletes
    <3>2. PayslipsOf(db, id) = {}
      BY <3>1 DEF PayrollRunDelete, HeldUnanswered, Raise
    <3> QED
      BY <3>1, <3>2 DEF HeldUnanswered, PayslipsOf
  <2> QED
    BY <1>1, <1>2, <1>3, <2>1, <2>3, <2>4, DeleteKeepsConstraints
<1>7. CASE ~T!Inserts(r) /\ ~T!Deletes(r)
  <2> DEFINE row == Patched(db[t][id], Dirty(c.loaded, c.values))
  <2>1. r.op # "create"
    BY <1>7 DEF T!Inserts
  <2>2. id \in DOMAIN db[t] /\ c.loaded = db[t][id]
    BY <1>2, <2>1
  <2>3. Fits(db, t, id, row)
    BY <1>1, <1>2, <1>3, <1>7, <2>2, UpdatedRowFits
  <2>4. after = Stored(db, t, id, row)
    <3>1. after = T!Stored(db, t, id, T!Patched(db[t][id], T!Dirty(c.loaded, c.values)))
      BY <1>7 DEF T!Flushed
    <3> QED
      BY <3>1, SameTables
  <2> HIDE DEF row, after
  <2>5. OthersStay(db, after, t, id) /\ DOMAIN after[t] = DOMAIN db[t] \cup {id} /\ after[t][id] = row
    BY <1>1, <1>3, <2>4, StoredStays
  <2>6. ReferencesHold(after, WorkTimeForeignKeys) /\ KeysHold(after, WorkTimeUniqueKeys)
    BY <1>1, <1>3, <2>3, <2>5, FittingKeepsConstraints
  <2>7. Complete(row, WorkTimeRequired[t])
    <3>1. Complete(db[t][id], WorkTimeRequired[t])
      BY <1>3, <1>7, <1>8, <2>2 DEF RowsComplete
    <3> QED
      BY <1>7, <1>8, <2>2, <3>1, PatchedComplete DEF row
  <2>8. RowsComplete(after, WorkTimeRequired)
    BY <1>1, <1>3, <1>7, <1>8, <2>5, <2>7, CompleteRowsStay
  <2> QED
    BY <2>2, <2>6, <2>8
<1> QED
  BY <1>5, <1>6, <1>7

\* Every request that nobody overtook gets an answer, whatever the database
\* holds and whoever else is at work, but for an update or a correction that
\* sends null for a NOT NULL column and the deletion of a run that has a
\* deduction or more than one payslip: the services of working time check all
\* else that their tables' constraints will, and their routes know every error.
THEOREM WorkTimeAnswers == Spec => []AnsweredUnlessOvertaken
<1>1. TypeOK => AnsweredUnlessOvertaken
  <2> SUFFICES ASSUME TypeOK, NEW h \in Handlers, T!Unanswered(h),
                      NEW r, r = handler[h].request, ~T!SendsNull(db, r),
                      ~(r.table = "payroll_runs" /\ r.op = "delete" /\ HeldUnanswered(db, r.id))
               PROVE  FALSE
    BY DEF AnsweredUnlessOvertaken
  <2>1. CASE handler[h].at = "entered"
    <3>1. /\ r \in Requests /\ RowsComplete(db, WorkTimeRequired)
          /\ ~(WorkTimeErrors(db, r) \subseteq WorkTimeRoutes(r))
          /\ r.op = "create" \/ r.id \in DOMAIN db[r.table]
      BY <2>1, SameTables DEF TypeOK, T!Unanswered, T!Found, Exists
    <3>2. /\ \A t \in WorkTimeTables : \A i \in DOMAIN db[t] : Columns[t] \subseteq DOMAIN db[t][i]
          /\ ~(r.table = "payroll_runs" /\ r.op = "delete" /\ ManyPayslips(db, r.id))
      BY DEF TypeOK, HeldUnanswered
    <3> QED
      BY <3>1, <3>2, RoutesKnowErrors
  <2>2. CASE handler[h].at = "checked"
    BY <2>2, CurrentIsAccepted DEF T!Unanswered
  <2> QED
    BY <2>1, <2>2 DEF T!Unanswered
<1> QED
  BY <1>1, WorkTimeTypeCorrect, PTL
=============================================================================
