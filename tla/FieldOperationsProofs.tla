------------------------ MODULE FieldOperationsProofs ------------------------
(***************************************************************************)
(* Whatever the database starts with, the number of handlers and what they *)
(* are asked, and whichever of them die: no write that was not overtaken   *)
(* changes what belongs to another employee or is met by a constraint that *)
(* its service did not check; and a file loses its object only to its own  *)
(* delete.                                                                 *)
(***************************************************************************)
EXTENDS FieldOperations, FiniteSetTheorems, TLAPS

-----------------------------------------------------------------------------
(* Statements *)

\* Transactions has the same tables: its definitions are those of Tables.
LEMMA SameTables ==
  ASSUME NEW d, NEW t, NEW id, NEW row, NEW values, NEW references, NEW keys, NEW required
  PROVE  /\ T!Stored(d, t, id, row) = Stored(d, t, id, row)
         /\ T!Removed(d, references, t, id) = Removed(d, references, t, id)
         /\ T!Patched(row, values) = Patched(row, values)
         /\ T!Dirty(row, values) = Dirty(row, values)
         /\ T!Exists(d, t, id) <=> Exists(d, t, id)
         /\ T!ReferencesHold(d, references) <=> ReferencesHold(d, references)
         /\ T!KeysHold(d, keys) <=> KeysHold(d, keys)
         /\ T!RowsComplete(d, required) <=> RowsComplete(d, required)
         /\ T!Complete(row, required) <=> Complete(row, required)
<1>1. T!Stored(d, t, id, row) = Stored(d, t, id, row)
  BY DEF T!Stored, Stored
<1>2. T!Removed(d, references, t, id) = Removed(d, references, t, id)
  BY DEF T!Removed, T!Dependents, Removed, Dependents
<1>3. T!Patched(row, values) = Patched(row, values) /\ T!Dirty(row, values) = Dirty(row, values)
  BY DEF T!Patched, Patched, T!Dirty, Dirty
<1>4. T!Exists(d, t, id) <=> Exists(d, t, id)
  BY DEF T!Exists, Exists
<1>5. T!ReferencesHold(d, references) <=> ReferencesHold(d, references)
  BY DEF T!ReferencesHold, ReferencesHold
<1>6. T!KeysHold(d, keys) <=> KeysHold(d, keys)
  BY DEF T!KeysHold, KeysHold, T!Taken, Taken
<1>7. T!Complete(row, required) <=> Complete(row, required)
  BY DEF T!Complete, Complete
<1>8. T!RowsComplete(d, required) <=> RowsComplete(d, required)
  BY DEF T!RowsComplete, RowsComplete, T!Complete, Complete
<1> QED
  BY <1>1, <1>2, <1>3, <1>4, <1>5, <1>6, <1>7, <1>8

\* The foreign keys, table by table.
LEMMA ForeignKeysByTable ==
  ASSUME NEW f \in FieldForeignKeys
  PROVE  /\ f.onDelete = "restrict"
         /\ \/ f.from = "stores" /\ f.column = "organization_id" /\ f.to = "organizations"
            \/ f.from = "stores" /\ f.column = "store_type_id" /\ f.to = "store_types"
            \/ f.from \in {"visits", "missions"} /\ f.column = "employee_id" /\ f.to = "hr_employees"
            \/ f.from \in {"visits", "missions"} /\ f.column = "store_id" /\ f.to = "stores"
            \/ f.from \in VisitRecords /\ f.column = "visit_id" /\ f.to = "visits"
            \/ f.from = "visit_photos" /\ f.column = "file_object_id" /\ f.to = "file_objects"
            \/ /\ f.from = "field_attendance_events" /\ f.column = "employee_id"
               /\ f.to = "hr_employees"
            \/ /\ f.from = "field_attendance_events" /\ f.column = "selfie_file_id"
               /\ f.to = "file_objects"
<1>1. \A from, columns, to, onDelete : \A g \in References(from, columns, to, onDelete) :
        g.from = from /\ g.column \in columns /\ g.to = to /\ g.onDelete = onDelete
  BY DEF References, Reference
<1> QED
  BY <1>1 DEF FieldForeignKeys, StoreKeys, AssigneeKeys, VisitKeys, MissionKeys, VisitPhotoKeys,
       SurveyKeys, DisplayAuditKeys, PosmAuditKeys, CompetitorActivityKeys,
       FieldAttendanceKeys, VisitRecords

\* Every record refers to its visit.
LEMMA VisitsOfRecords ==
  ASSUME NEW t \in VisitRecords
  PROVE  Reference(t, "visit_id", "visits", "restrict") \in FieldForeignKeys
BY DEF VisitRecords, References, FieldForeignKeys, VisitPhotoKeys, SurveyKeys,
     DisplayAuditKeys, PosmAuditKeys, CompetitorActivityKeys

\* The unique keys, table by table.
LEMMA UniqueKeysByTable ==
  ASSUME NEW k \in FieldUniqueKeys
  PROVE  \/ k.table \in {"stores", "store_types"} /\ k.columns = {"code"}
         \/ k.table = "surveys" /\ k.columns = {"visit_id"}
         \/ k.table = "file_objects" /\ k.columns = {"storage_key"}
BY DEF FieldUniqueKeys, Unique

\* Every key is of a table, and names columns that the table's rows have.
LEMMA KeysOfTables ==
  /\ \A f \in FieldForeignKeys :
       f.from \in FieldTables /\ f.to \in FieldTables /\ f.column \in Columns[f.from]
  /\ \A k \in FieldUniqueKeys : k.table \in FieldTables /\ k.columns \subseteq Columns[k.table]
<1>1. \A f \in FieldForeignKeys : f.from \in FieldTables /\ f.to \in FieldTables
  BY ForeignKeysByTable DEF FieldTables, VisitRecords
<1>2. \A f \in FieldForeignKeys : f.column \in Columns[f.from]
  BY ForeignKeysByTable DEF Columns, VisitRecords
<1>3. \A k \in FieldUniqueKeys : k.table \in FieldTables
  BY UniqueKeysByTable DEF FieldTables, VisitRecords
<1>4. \A k \in FieldUniqueKeys : k.columns \subseteq Columns[k.table]
  BY UniqueKeysByTable DEF Columns
<1> QED
  BY <1>1, <1>2, <1>3, <1>4

\* The tables that requests are about, and what may be done to them.
LEMMA RequestTables ==
  ASSUME NEW r \in Requests, NEW t, t = r.table
  PROVE  /\ t \in VisitRecords \cup {"store_types", "stores", "missions", "visits",
                                     "field_attendance_events", "file_objects"}
         /\ t \in FieldTables
         /\ r.op \in {"create", "update", "delete"}
         /\ r.op = "update" => t # "file_objects"
BY RequestAssumption DEF Operations, FieldTables, VisitRecords

\* Every row but one is as it was.
OthersStay(d, after, t, id) ==
  /\ after = [u \in FieldTables |-> after[u]]
  /\ \A u \in FieldTables \ {t} : DOMAIN after[u] = DOMAIN d[u]
  /\ DOMAIN after[t] \ {id} = DOMAIN d[t] \ {id}
  /\ \A u \in FieldTables : \A i \in DOMAIN d[u] :
       u # t \/ i # id => after[u][i] = d[u][i]

LEMMA StoredStays ==
  ASSUME NEW d, DOMAIN d = FieldTables, NEW t \in FieldTables, NEW id, NEW row
  PROVE  /\ OthersStay(d, Stored(d, t, id, row), t, id)
         /\ DOMAIN Stored(d, t, id, row)[t] = DOMAIN d[t] \cup {id}
         /\ Stored(d, t, id, row)[t][id] = row
BY DEF Stored, OthersStay

\* No row goes with another: all references restrict.
LEMMA RemovedStays ==
  ASSUME NEW d, DOMAIN d = FieldTables, NEW t \in FieldTables, NEW id,
         \A u \in FieldTables : \A i \in DOMAIN d[u] : IsRow(d[u][i])
  PROVE  /\ OthersStay(d, Removed(d, FieldForeignKeys, t, id), t, id)
         /\ DOMAIN Removed(d, FieldForeignKeys, t, id)[t] = DOMAIN d[t] \ {id}
<1> DEFINE after == Removed(d, FieldForeignKeys, t, id)
<1>1. \A f \in FieldForeignKeys : f.onDelete # "cascade" /\ f.onDelete # "set null"
  BY ForeignKeysByTable
<1>2. \A u : Dependents(d, FieldForeignKeys, t, id, u, "cascade") = {}
  BY <1>1 DEF Dependents
<1>3. after = [u \in FieldTables |-> after[u]]
  BY DEF Removed
<1>4. \A u \in FieldTables : DOMAIN after[u] = DOMAIN d[u] \ (IF u = t THEN {id} ELSE {})
  BY <1>2 DEF Removed
<1>5. \A u \in FieldTables : \A i \in DOMAIN after[u] :
        after[u][i] = [c \in DOMAIN d[u][i] |-> d[u][i][c]]
  BY <1>1, <1>4 DEF Removed
<1>6. \A u \in FieldTables : \A i \in DOMAIN after[u] : after[u][i] = d[u][i]
  BY <1>4, <1>5 DEF IsRow
<1> QED
  BY <1>3, <1>4, <1>6 DEF OthersStay

\* The write of a request: one row of its table, and no constraint broken.
LEMMA WrittenRows ==
  ASSUME TypeOK, NEW h \in Handlers, T!Write(h),
         NEW r, r = handler[h].request, NEW c, c = handler[h],
         NEW t, t = r.table, NEW new, new = lastId[t] + 1
  PROVE  /\ T!Inserts(r) =>
              /\ OthersStay(db, db', t, new) /\ new \notin DOMAIN db[t]
              /\ DOMAIN db'[t] = DOMAIN db[t] \cup {new} /\ db'[t][new] = c.values
              /\ lastId' = [lastId EXCEPT ![t] = new]
         /\ ~T!Inserts(r) => r.id \in DOMAIN db[t] /\ lastId' = lastId
         /\ T!Deletes(r) =>
              OthersStay(db, db', t, r.id) /\ DOMAIN db'[t] = DOMAIN db[t] \ {r.id}
         /\ ~T!Inserts(r) /\ ~T!Deletes(r) =>
              /\ OthersStay(db, db', t, r.id) /\ DOMAIN db'[t] = DOMAIN db[t]
              /\ db'[t][r.id] = Patched(db[t][r.id], Dirty(c.loaded, c.values))
         /\ ReferencesHold(db', FieldForeignKeys)
         /\ KeysHold(db', FieldUniqueKeys)
         /\ RowsComplete(db', FieldRequired)
<1>1. /\ T!Accepted(db, c, new) /\ db' = T!Flushed(db, c, new)
      /\ lastId' = IF T!Inserts(r) THEN [lastId EXCEPT ![t] = @ + 1] ELSE lastId
      /\ c.request = r
  BY DEF T!Write, T!NextId
<1>2. /\ t \in FieldTables /\ DOMAIN db = FieldTables
      /\ lastId[t] \in Nat /\ DOMAIN db[t] \subseteq 1 .. lastId[t]
      /\ \A u \in FieldTables : \A i \in DOMAIN db[u] : IsRow(db[u][i])
  BY RequestTables DEF T!Write, TypeOK
<1>3. ~(T!Inserts(r) /\ T!Deletes(r))
  BY DEF T!Inserts, T!Deletes
<1>4. ASSUME T!Inserts(r)
      PROVE  /\ OthersStay(db, db', t, new) /\ new \notin DOMAIN db[t]
             /\ DOMAIN db'[t] = DOMAIN db[t] \cup {new} /\ db'[t][new] = c.values
             /\ lastId' = [lastId EXCEPT ![t] = new]
  <2> DEFINE row == c.values
             id == new
  <2>1. db' = Stored(db, t, id, row)
    BY <1>1, <1>4, SameTables DEF T!Flushed
  <2>2. id \notin DOMAIN db[t]
    BY <1>2
  <2>3. lastId' = [lastId EXCEPT ![t] = id]
    BY <1>1, <1>4
  <2> HIDE DEF row, id
  <2>4. OthersStay(db, db', t, id) /\ DOMAIN db'[t] = DOMAIN db[t] \cup {id} /\ db'[t][id] = row
    BY <1>2, <2>1, StoredStays
  <2> QED
    BY <2>2, <2>3, <2>4 DEF row, id
<1>5. ASSUME ~T!Inserts(r) PROVE r.id \in DOMAIN db[t] /\ lastId' = lastId
  BY <1>1, <1>5, SameTables DEF T!Accepted, Exists
<1>6. ASSUME T!Deletes(r)
      PROVE  OthersStay(db, db', t, r.id) /\ DOMAIN db'[t] = DOMAIN db[t] \ {r.id}
  <2>1. db' = Removed(db, FieldForeignKeys, t, r.id)
    BY <1>1, <1>3, <1>6, SameTables DEF T!Flushed
  <2> QED
    BY <1>2, <2>1, RemovedStays
<1>7. ASSUME ~T!Inserts(r), ~T!Deletes(r)
      PROVE  /\ OthersStay(db, db', t, r.id) /\ DOMAIN db'[t] = DOMAIN db[t]
             /\ db'[t][r.id] = Patched(db[t][r.id], Dirty(c.loaded, c.values))
  <2> DEFINE row == Patched(db[t][r.id], Dirty(c.loaded, c.values))
             id == r.id
  <2>1. db' = T!Stored(db, t, id, T!Patched(db[t][id], T!Dirty(c.loaded, c.values)))
    BY <1>1, <1>7 DEF T!Flushed
  <2>2. db' = Stored(db, t, id, row)
    BY <2>1, SameTables
  <2>3. id \in DOMAIN db[t]
    BY <1>5, <1>7
  <2> HIDE DEF row, id
  <2>4. OthersStay(db, db', t, id) /\ DOMAIN db'[t] = DOMAIN db[t] \cup {id} /\ db'[t][id] = row
    BY <1>2, <2>2, StoredStays
  <2>5. DOMAIN db'[t] = DOMAIN db[t]
    BY <2>3, <2>4
  <2> QED
    BY <2>4, <2>5 DEF row, id
<1>8. /\ ReferencesHold(db', FieldForeignKeys) /\ KeysHold(db', FieldUniqueKeys)
      /\ RowsComplete(db', FieldRequired)
  BY <1>1, SameTables DEF T!Accepted
<1> QED
  BY <1>4, <1>5, <1>6, <1>7, <1>8

\* A creation adds the row that was sent, under an id that was not used before.
LEMMA CreatedRow ==
  ASSUME TypeOK, NEW h \in Handlers, T!Write(h), NEW r, r = handler[h].request,
         NEW t, t = r.table, NEW new, new = lastId[t] + 1, r.op = "create"
  PROVE  /\ r \in Requests /\ OthersStay(db, db', t, new) /\ new \notin DOMAIN db[t]
         /\ DOMAIN db'[t] = DOMAIN db[t] \cup {new} /\ db'[t][new] = r.values
         /\ lastId' = [lastId EXCEPT ![t] = new]
<1>1. PICK c : c = handler[h]
  OBVIOUS
<1>2. r \in Requests /\ c.values = r.values /\ T!Inserts(r)
  BY <1>1 DEF T!Write, TypeOK, T!Inserts
<1> QED
  BY <1>1, <1>2, WrittenRows

\* An update changes columns of its own row, and only those it sends.
LEMMA UpdatedRow ==
  ASSUME TypeOK, NEW h \in Handlers, T!Write(h), NEW r, r = handler[h].request,
         NEW t, t = r.table, NEW id, id = r.id, r.op = "update"
  PROVE  /\ r \in Requests /\ id \in DOMAIN db[t] /\ lastId' = lastId
         /\ OthersStay(db, db', t, id) /\ DOMAIN db'[t] = DOMAIN db[t]
         /\ IsRow(db'[t][id]) /\ Columns[t] \subseteq DOMAIN db'[t][id]
         /\ \A k \in Columns[t] :
              \/ db'[t][id][k] = db[t][id][k]
              \/ k \in DOMAIN r.values /\ db'[t][id][k] = r.values[k]
<1>1. PICK c, new : c = handler[h] /\ new = lastId[t] + 1
  OBVIOUS
<1>2. r \in Requests /\ c.values = r.values /\ ~T!Inserts(r) /\ ~T!Deletes(r)
  BY <1>1 DEF T!Write, TypeOK, T!Inserts, T!Deletes
<1>3. /\ id \in DOMAIN db[t] /\ lastId' = lastId
      /\ OthersStay(db, db', t, id) /\ DOMAIN db'[t] = DOMAIN db[t]
      /\ db'[t][id] = Patched(db[t][id], Dirty(c.loaded, r.values))
  BY <1>1, <1>2, WrittenRows
<1>4. Columns[t] \subseteq DOMAIN db[t][id]
  BY <1>2, <1>3, RequestTables DEF TypeOK
<1> DEFINE old == db[t][id]
           row == db'[t][id]
           loaded == c.loaded
           v == r.values
<1>5. row = Patched(old, Dirty(loaded, v)) /\ Columns[t] \subseteq DOMAIN old
  BY <1>3, <1>4
<1> HIDE DEF old, row, loaded, v
<1>6. /\ IsRow(row) /\ Columns[t] \subseteq DOMAIN row
      /\ \A k \in Columns[t] : row[k] = old[k] \/ (k \in DOMAIN v /\ row[k] = v[k])
  BY <1>5 DEF Patched, Dirty, IsRow
<1> QED
  BY <1>2, <1>3, <1>6 DEF old, row, v

\* A deletion takes its own row, and no other goes with it.
LEMMA DeletedRow ==
  ASSUME TypeOK, NEW h \in Handlers, T!Write(h), NEW r, r = handler[h].request,
         NEW t, t = r.table, NEW id, id = r.id, r.op = "delete"
  PROVE  /\ r \in Requests /\ id \in DOMAIN db[t] /\ lastId' = lastId
         /\ OthersStay(db, db', t, id) /\ DOMAIN db'[t] = DOMAIN db[t] \ {id}
<1>1. PICK c, new : c = handler[h] /\ new = lastId[t] + 1
  OBVIOUS
<1>2. r \in Requests /\ ~T!Inserts(r) /\ T!Deletes(r)
  BY DEF T!Write, TypeOK, T!Inserts, T!Deletes
<1> QED
  BY <1>1, <1>2, WrittenRows

-----------------------------------------------------------------------------
(* The types *)

\* Every row has the columns of its table, and an id that was given out.
LEMMA WrittenTables ==
  ASSUME TypeOK, NEW h \in Handlers, T!Write(h)
  PROVE  /\ db' = [t \in FieldTables |-> db'[t]]
         /\ lastId' \in [FieldTables -> Nat]
         /\ \A t \in FieldTables : DOMAIN db'[t] \subseteq 1 .. lastId'[t]
         /\ \A t \in FieldTables : \A id \in DOMAIN db'[t] :
              IsRow(db'[t][id]) /\ Columns[t] \subseteq DOMAIN db'[t][id]
<1>1. PICK r, t, new, id :
        r = handler[h].request /\ t = r.table /\ new = lastId[t] + 1 /\ id = r.id
  OBVIOUS
<1>2. /\ r \in Requests /\ t \in FieldTables /\ r.op \in {"create", "update", "delete"}
      /\ lastId \in [FieldTables -> Nat] /\ lastId[t] \in Nat
      /\ \A u \in FieldTables : DOMAIN db[u] \subseteq 1 .. lastId[u]
      /\ \A u \in FieldTables : \A i \in DOMAIN db[u] :
           IsRow(db[u][i]) /\ Columns[u] \subseteq DOMAIN db[u][i]
  BY <1>1, RequestTables DEF T!Write, TypeOK
<1>3. CASE r.op = "create"
  <2>1. /\ OthersStay(db, db', t, new)
        /\ DOMAIN db'[t] = DOMAIN db[t] \cup {new} /\ db'[t][new] = r.values
        /\ lastId' = [lastId EXCEPT ![t] = new]
    BY <1>1, <1>3, CreatedRow
  <2>2. IsRow(r.values) /\ Columns[t] \subseteq DOMAIN r.values
    BY <1>1, <1>2, <1>3, RequestAssumption
  <2>3. \A u \in FieldTables : DOMAIN db'[u] \subseteq 1 .. lastId'[u]
    BY <1>1, <1>2, <2>1 DEF OthersStay
  <2>4. lastId' \in [FieldTables -> Nat]
    BY <1>1, <1>2, <2>1
  <2>5. ASSUME NEW u \in FieldTables, NEW i \in DOMAIN db'[u]
        PROVE  IsRow(db'[u][i]) /\ Columns[u] \subseteq DOMAIN db'[u][i]
    <3>1. CASE u = t /\ i = new
      BY <2>1, <2>2, <3>1
    <3>2. CASE ~(u = t /\ i = new)
      BY <1>2, <2>1, <3>2 DEF OthersStay
    <3> QED
      BY <3>1, <3>2
  <2> QED
    BY <2>1, <2>3, <2>4, <2>5 DEF OthersStay
<1>4. CASE r.op = "delete"
  <2>1. OthersStay(db, db', t, id) /\ DOMAIN db'[t] = DOMAIN db[t] \ {id} /\ lastId' = lastId
    BY <1>1, <1>4, DeletedRow
  <2> QED
    BY <1>2, <2>1 DEF OthersStay
<1>5. CASE r.op = "update"
  <2>1. /\ OthersStay(db, db', t, id) /\ DOMAIN db'[t] = DOMAIN db[t] /\ lastId' = lastId
        /\ IsRow(db'[t][id]) /\ Columns[t] \subseteq DOMAIN db'[t][id]
    BY <1>1, <1>5, UpdatedRow
  <2>2. ASSUME NEW u \in FieldTables, NEW i \in DOMAIN db'[u]
        PROVE  IsRow(db'[u][i]) /\ Columns[u] \subseteq DOMAIN db'[u][i]
    <3>1. CASE u = t /\ i = id
      BY <2>1, <3>1
    <3>2. CASE ~(u = t /\ i = id)
      BY <1>2, <2>1, <3>2 DEF OthersStay
    <3> QED
      BY <3>1, <3>2
  <2> QED
    BY <1>2, <2>1, <2>2 DEF OthersStay
<1> QED
  BY <1>2, <1>3, <1>4, <1>5

\* A record keeps its visit, and a new one has one.
LEMMA RecordsKeepVisits ==
  ASSUME TypeOK, NEW h \in Handlers, T!Write(h), NEW u \in VisitRecords, NEW i \in DOMAIN db'[u]
  PROVE  \/ i \in DOMAIN db[u] /\ db'[u][i].visit_id = db[u][i].visit_id
         \/ /\ handler[h].request.op = "create" /\ handler[h].request.table = u
            /\ i = lastId[u] + 1 /\ i \notin DOMAIN db[u]
            /\ db'[u][i] = handler[h].request.values
<1>1. PICK r, t, new, id :
        r = handler[h].request /\ t = r.table /\ new = lastId[t] + 1 /\ id = r.id
  OBVIOUS
<1>2. /\ r \in Requests /\ r.op \in {"create", "update", "delete"}
      /\ u \in FieldTables /\ "visit_id" \in Columns[u]
  BY <1>1, RequestTables DEF T!Write, TypeOK, VisitRecords, FieldTables, Columns
<1>3. CASE r.op = "create"
  <2>1. /\ OthersStay(db, db', t, new) /\ new \notin DOMAIN db[t]
        /\ DOMAIN db'[t] = DOMAIN db[t] \cup {new} /\ db'[t][new] = r.values
    BY <1>1, <1>3, CreatedRow
  <2>2. CASE u = t /\ i = new
    BY <1>1, <1>3, <2>1, <2>2
  <2>3. CASE ~(u = t /\ i = new)
    BY <1>2, <2>1, <2>3 DEF OthersStay
  <2> QED
    BY <2>2, <2>3
<1>4. CASE r.op = "delete"
  <2>1. OthersStay(db, db', t, id) /\ DOMAIN db'[t] = DOMAIN db[t] \ {id}
    BY <1>1, <1>4, DeletedRow
  <2> QED
    BY <1>2, <2>1 DEF OthersStay
<1>5. CASE r.op = "update"
  <2>1. /\ OthersStay(db, db', t, id) /\ DOMAIN db'[t] = DOMAIN db[t]
        /\ \A k \in Columns[t] :
             db'[t][id][k] = db[t][id][k] \/ (k \in DOMAIN r.values /\ db'[t][id][k] = r.values[k])
    BY <1>1, <1>5, UpdatedRow
  <2>2. CASE u = t /\ i = id
    <3>1. "visit_id" \notin DOMAIN r.values
      BY <1>1, <1>2, <1>5, <2>2, RequestAssumption
    <3> QED
      BY <1>2, <2>1, <2>2, <3>1
  <2>3. CASE ~(u = t /\ i = id)
    BY <1>2, <2>1, <2>3 DEF OthersStay
  <2> QED
    BY <2>2, <2>3
<1> QED
  BY <1>2, <1>3, <1>4, <1>5

LEMMA FieldTypeStep == TypeOK /\ [Next]_vars => TypeOK'
<1> SUFFICES ASSUME TypeOK, [Next]_vars PROVE TypeOK'
  OBVIOUS
<1> DEFINE Asked(g, k) == k[g].at # "idle" => k[g].request \in Requests
           Ready(g, k) == k[g].at = "checked" => k[g].values = k[g].request.values
<1>1. ASSUME NEW h \in Handlers, NEW r \in Requests, T!Enter(h, r) PROVE TypeOK'
  <2>1. /\ handler' = [handler EXCEPT ![h] = [at |-> "entered", request |-> r]]
        /\ db' = db /\ lastId' = lastId
    BY <1>1 DEF T!Enter
  <2>2. \A g \in Handlers : Asked(g, handler') /\ Ready(g, handler')
    BY <2>1 DEF TypeOK
  <2> QED
    BY <2>1, <2>2 DEF TypeOK
<1>2. ASSUME NEW h \in Handlers, T!Check(h) PROVE TypeOK'
  <2>1. PICK r, c :
          /\ r = handler[h].request /\ handler' = [handler EXCEPT ![h] = c]
          /\ c.request = r /\ c.values = r.values
    <3> DEFINE q == handler[h].request
               k == [at |-> "checked", request |-> q, values |-> q.values,
                     loaded |-> IF q.op = "create" THEN T!NoRow ELSE db[q.table][q.id]]
    <3>1. handler' = [handler EXCEPT ![h] = k]
      BY <1>2 DEF T!Check, FieldAssigned
    <3>2. k.request = q /\ k.values = q.values
      OBVIOUS
    <3> HIDE DEF k
    <3> QED
      BY <3>1, <3>2
  <2>2. db' = db /\ lastId' = lastId /\ r \in Requests
    BY <1>2, <2>1 DEF T!Check, TypeOK
  <2>3. \A g \in Handlers : Asked(g, handler') /\ Ready(g, handler')
    BY <2>1, <2>2 DEF TypeOK
  <2> QED
    BY <2>1, <2>2, <2>3 DEF TypeOK
<1>3. ASSUME NEW h \in Handlers, T!Refuse(h) \/ T!Fail(h) \/ Crash(h) PROVE TypeOK'
  <2>1. handler' = [handler EXCEPT ![h] = T!Idle] /\ db' = db /\ lastId' = lastId
    BY <1>3 DEF T!Refuse, T!Fail, Crash
  <2>2. \A g \in Handlers : Asked(g, handler') /\ Ready(g, handler')
    BY <2>1 DEF TypeOK, T!Idle
  <2> QED
    BY <2>1, <2>2 DEF TypeOK
<1>4. ASSUME NEW h \in Handlers, T!Write(h) PROVE TypeOK'
  <2>1. /\ ReferencesHold(db', FieldForeignKeys) /\ KeysHold(db', FieldUniqueKeys)
        /\ RowsComplete(db', FieldRequired)
    BY <1>4, SameTables DEF T!Write, T!Accepted
  <2>2. handler' = [handler EXCEPT ![h] = T!Idle]
    BY <1>4 DEF T!Write
  <2>3. \A g \in Handlers : Asked(g, handler') /\ Ready(g, handler')
    BY <2>2 DEF TypeOK, T!Idle
  <2>4. DOMAIN handler' = Handlers
    BY <2>2 DEF TypeOK
  <2> QED
    BY <1>4, <2>1, <2>3, <2>4, WrittenTables DEF TypeOK
<1>5. CASE UNCHANGED vars
  BY <1>5 DEF vars, TypeOK
<1> QED
  BY <1>1, <1>2, <1>3, <1>4, <1>5 DEF Next, Enter, Check, Finish

\* The tables stay sound and what a handler is about to write is what it was
\* sent, whatever the database starts with, however the requests interleave
\* and whichever handlers die.
THEOREM FieldTypeCorrect == Spec => []TypeOK
<1>1. Init => TypeOK
  <2> SUFFICES ASSUME Init PROVE TypeOK
    OBVIOUS
  <2>1. /\ db = Database /\ lastId = [t \in FieldTables |-> Cardinality(DOMAIN Database[t])]
        /\ handler = [h \in Handlers |-> T!Idle]
    <3>1. DOMAIN Database = FieldTables
      BY DatabaseAssumption
    <3>2. \A S : T!Cardinality(S) = Cardinality(S)
      BY DEF T!Cardinality, Cardinality
    <3>3. /\ db = Database /\ lastId = [t \in DOMAIN Database |-> Cardinality(DOMAIN Database[t])]
          /\ handler = [h \in Handlers |-> T!Idle]
      BY <3>2 DEF Init, T!StartWith
    <3> QED
      BY <3>1, <3>3, Zenon
  <2>2. ASSUME NEW t \in FieldTables
        PROVE  lastId[t] \in Nat /\ DOMAIN db[t] = 1 .. lastId[t]
    BY <2>1, FS_CardinalityType, DatabaseAssumption
  <2> QED
    BY <2>1, <2>2, DatabaseAssumption DEF TypeOK, T!Idle
<1> QED
  BY <1>1, FieldTypeStep, PTL DEF Spec

-----------------------------------------------------------------------------
(* The bucket *)

\* A checked request finds no error, and the row as it loaded it.
LEMMA CheckFinds ==
  ASSUME NEW h \in Handlers, T!Check(h), DOMAIN handler = Handlers,
         NEW r, r = handler[h].request
  PROVE  /\ handler[h].at = "entered" /\ handler'[h].at = "checked" /\ handler'[h].request = r
         /\ \A g \in Handlers \ {h} : handler'[g] = handler[g]
         /\ r.op = "create" \/ r.id \in DOMAIN db[r.table]
         /\ db' = db /\ lastId' = lastId
BY SameTables DEF T!Check, T!Refused, T!Found, Exists

\* A row of a file keeps its key, and a new one has the key of its upload.
LEMMA FilesKeepKeys ==
  ASSUME TypeOK, NEW h \in Handlers, T!Write(h), NEW f \in DOMAIN db'["file_objects"]
  PROVE  \/ f \in DOMAIN db["file_objects"] /\ KeyOf(db', f) = KeyOf(db, f)
         \/ /\ Uploads(h) /\ handler[h].at = "checked" /\ f = lastId["file_objects"] + 1
            /\ KeyOf(db', f) = handler[h].request.values.storage_key
<1>1. PICK r, t, new, id, files :
        /\ r = handler[h].request /\ t = r.table /\ new = lastId[t] + 1 /\ id = r.id
        /\ files = "file_objects"
  OBVIOUS
<1>2. /\ r \in Requests /\ r.op \in {"create", "update", "delete"} /\ files \in FieldTables
      /\ r.op = "update" => t # files
      /\ handler[h].at = "checked"
  BY <1>1, RequestTables DEF T!Write, TypeOK, FieldTables
<1>3. CASE r.op = "create"
  <2>1. /\ OthersStay(db, db', t, new)
        /\ DOMAIN db'[t] = DOMAIN db[t] \cup {new} /\ db'[t][new] = r.values
    BY <1>1, <1>3, CreatedRow
  <2>2. CASE t = files /\ f = new
    BY <1>1, <1>2, <1>3, <2>1, <2>2 DEF Uploads, KeyOf
  <2>3. CASE ~(t = files /\ f = new)
    BY <1>1, <1>2, <2>1, <2>3 DEF OthersStay, KeyOf
  <2> QED
    BY <2>2, <2>3
<1>4. CASE r.op = "delete"
  <2>1. OthersStay(db, db', t, id) /\ DOMAIN db'[t] = DOMAIN db[t] \ {id}
    BY <1>1, <1>4, DeletedRow
  <2> QED
    BY <1>1, <1>2, <2>1 DEF OthersStay, KeyOf
<1>5. CASE r.op = "update"
  <2>1. OthersStay(db, db', t, id)
    BY <1>1, <1>5, UpdatedRow
  <2> QED
    BY <1>1, <1>2, <1>5, <2>1 DEF OthersStay, KeyOf
<1> QED
  BY <1>2, <1>3, <1>4, <1>5

\* Two files have two keys.
LEMMA KeysDiffer ==
  ASSUME NEW d, KeysHold(d, FieldUniqueKeys), NEW f \in DOMAIN d["file_objects"],
         NEW g \in DOMAIN d["file_objects"], KeyOf(d, f) = KeyOf(d, g)
  PROVE  f = g
<1>1. Unique("file_objects", {"storage_key"}) \in FieldUniqueKeys
  BY DEF FieldUniqueKeys
<1>2. ~Taken(d, "file_objects", f, {"storage_key"}, d["file_objects"][f])
  BY <1>1 DEF KeysHold, Unique
<1> QED
  BY <1>2 DEF Taken, KeyOf

\* Ids are given out in order.
LEMMA IdsGrow ==
  ASSUME TypeOK, NEW h \in Handlers, T!Write(h), NEW u \in FieldTables
  PROVE  1 .. lastId[u] \subseteq 1 .. lastId'[u]
<1>1. PICK r, t, new, id :
        r = handler[h].request /\ t = r.table /\ new = lastId[t] + 1 /\ id = r.id
  OBVIOUS
<1>2. /\ r.op \in {"create", "update", "delete"} /\ t \in FieldTables
      /\ lastId \in [FieldTables -> Nat]
  BY <1>1, RequestTables DEF T!Write, TypeOK
<1>3. lastId' = lastId \/ lastId' = [lastId EXCEPT ![t] = new]
  BY <1>1, <1>2, CreatedRow, UpdatedRow, DeletedRow
<1> QED
  BY <1>1, <1>2, <1>3

LEMMA BucketStep == TypeOK /\ BucketOK /\ [Next]_vars => BucketOK'
<1> SUFFICES ASSUME TypeOK, BucketOK, [Next]_vars PROVE BucketOK'
  OBVIOUS
<1> DEFINE files == "file_objects"
           Up(k, g) == k[g].at # "idle" /\ k[g].request.table = files /\ k[g].request.op = "create"
           Away(k, g) == /\ k[g].at = "checked" /\ k[g].request.table = files
                         /\ k[g].request.op = "delete"
           Key(k, g) == k[g].request.values.storage_key
           Own(d, k, o, g) ==
             Up(k, g) =>
               /\ \A f \in DOMAIN d[files] : KeyOf(d, f) # Key(k, g)
               /\ \A e \in Handlers \ {g} : Up(k, e) => Key(k, e) # Key(k, g)
               /\ k[g].at = "checked" => Key(k, g) \in o
           Gone(d, l, k, o, g) ==
             Away(k, g) =>
               /\ k[g].request.id \in 1 .. l[files]
               /\ k[g].request.id \in DOMAIN d[files] => KeyOf(d, k[g].request.id) \notin o
<1>1. /\ BucketOK <=>
           \A g \in Handlers : Own(db, handler, objects, g) /\ Gone(db, lastId, handler, objects, g)
      /\ BucketOK' <=>
           \A g \in Handlers :
             Own(db', handler', objects', g) /\ Gone(db', lastId', handler', objects', g)
  BY DEF BucketOK, Uploads, Removes, KeyOf
<1>2. \A g \in Handlers : Own(db, handler, objects, g) /\ Gone(db, lastId, handler, objects, g)
  BY <1>1
<1>3. SUFFICES ASSUME NEW g \in Handlers
               PROVE  /\ Own(db', handler', objects', g)
                      /\ Gone(db', lastId', handler', objects', g)
  BY <1>1
<1> DEFINE k == handler'
<1>4. DOMAIN handler = Handlers /\ files \in FieldTables
  BY DEF TypeOK, FieldTables
<1>5. ASSUME NEW h \in Handlers, NEW r \in Requests, T!Enter(h, r), FreshKey(r), UNCHANGED objects
      PROVE  Own(db', k, objects', g) /\ Gone(db', lastId', k, objects', g)
  <2>1. /\ k[h].at = "entered" /\ k[h].request = r
        /\ \A e \in Handlers \ {h} : k[e] = handler[e]
        /\ db' = db /\ lastId' = lastId /\ objects' = objects
    BY <1>4, <1>5 DEF T!Enter
  <2>2. Up(k, h) =>
          /\ \A f \in DOMAIN db[files] : KeyOf(db, f) # Key(k, h)
          /\ \A e \in Handlers : Up(handler, e) => Key(handler, e) # Key(k, h)
    BY <1>5, <2>1 DEF FreshKey, Uploading, Uploads
  <2> HIDE DEF k
  <2>3. CASE g = h
    BY <1>2, <2>1, <2>2, <2>3
  <2>4. CASE g # h
    BY <1>2, <2>1, <2>2, <2>4
  <2> QED
    BY <2>3, <2>4
<1>6. ASSUME NEW h \in Handlers, T!Check(h), objects' = Bucket(handler[h].request)
      PROVE  Own(db', k, objects', g) /\ Gone(db', lastId', k, objects', g)
  <2>1. PICK r : r = handler[h].request
    OBVIOUS
  <2>2. /\ handler[h].at = "entered" /\ k[h].at = "checked" /\ k[h].request = r
        /\ \A e \in Handlers \ {h} : k[e] = handler[e]
        /\ r.op = "create" \/ r.id \in DOMAIN db[r.table]
        /\ db' = db /\ lastId' = lastId
    BY <1>4, <1>6, <2>1, CheckFinds
  <2>3. \A e \in Handlers : (Up(k, e) <=> Up(handler, e)) /\ Key(k, e) = Key(handler, e)
    BY <2>1, <2>2
  <2>4. r \in Requests /\ DOMAIN db[files] \subseteq 1 .. lastId[files]
    BY <1>4, <2>1, <2>2 DEF TypeOK
  <2> HIDE DEF k
  <2>5. CASE r.table = files /\ r.op = "create"
    <3>1. objects' = objects \cup {Key(handler, h)} /\ Up(handler, h)
      BY <1>6, <2>1, <2>2, <2>5 DEF Bucket
    <3>2. \A f \in DOMAIN db[files] : KeyOf(db, f) # Key(handler, h)
      BY <1>2, <3>1
    <3>3. Own(db, k, objects', g)
      BY <1>2, <2>2, <2>3, <3>1
    <3>4. Gone(db, lastId, k, objects', g)
      BY <1>2, <2>2, <2>5, <3>1, <3>2
    <3> QED
      BY <2>2, <3>3, <3>4
  <2>6. CASE r.table = files /\ r.op # "create"
    <3>1. objects' = objects \ {KeyOf(db, r.id)} /\ r.id \in DOMAIN db[files]
      BY <1>6, <2>1, <2>2, <2>6 DEF Bucket
    <3>2. ~Up(k, h) /\ k[h].request.id = r.id
      BY <2>2, <2>6
    <3>3. Own(db, k, objects', g)
      BY <1>2, <2>2, <2>3, <3>1, <3>2
    <3>4. Gone(db, lastId, k, objects', g)
      BY <1>2, <2>2, <2>4, <3>1, <3>2
    <3> QED
      BY <2>2, <3>3, <3>4
  <2>7. CASE r.table # files
    <3>1. objects' = objects
      BY <1>6, <2>1, <2>7 DEF Bucket
    <3>2. Own(db, k, objects', g)
      BY <1>2, <2>2, <2>3, <2>7, <3>1
    <3>3. Gone(db, lastId, k, objects', g)
      BY <1>2, <2>2, <2>7, <3>1
    <3> QED
      BY <2>2, <3>2, <3>3
  <2> QED
    BY <2>5, <2>6, <2>7
<1>7. ASSUME NEW h \in Handlers, T!Refuse(h) \/ T!Fail(h) \/ Crash(h), UNCHANGED objects
      PROVE  Own(db', k, objects', g) /\ Gone(db', lastId', k, objects', g)
  <2>1. /\ k[h].at = "idle" /\ \A e \in Handlers \ {h} : k[e] = handler[e]
        /\ db' = db /\ lastId' = lastId /\ objects' = objects
    BY <1>4, <1>7 DEF T!Refuse, T!Fail, Crash, T!Idle
  <2> HIDE DEF k
  <2> QED
    BY <1>2, <2>1
<1>8. ASSUME NEW h \in Handlers, T!Write(h), UNCHANGED objects
      PROVE  Own(db', k, objects', g) /\ Gone(db', lastId', k, objects', g)
  <2>1. /\ k[h].at = "idle" /\ \A e \in Handlers \ {h} : k[e] = handler[e]
        /\ objects' = objects
    BY <1>4, <1>8 DEF T!Write, T!Idle
  <2>2. \A f \in DOMAIN db'[files] :
          \/ f \in DOMAIN db[files] /\ KeyOf(db', f) = KeyOf(db, f)
          \/ Up(handler, h) /\ f = lastId[files] + 1 /\ KeyOf(db', f) = Key(handler, h)
    BY <1>8, FilesKeepKeys DEF Uploads
  <2>3. 1 .. lastId[files] \subseteq 1 .. lastId'[files] /\ lastId[files] \in Nat
    BY <1>4, <1>8, IdsGrow DEF TypeOK
  <2> DEFINE e == db'
             l == lastId'
             K(f) == KeyOf(e, f)
  <2>4. \A f \in DOMAIN e[files] :
          \/ f \in DOMAIN db[files] /\ K(f) = KeyOf(db, f)
          \/ Up(handler, h) /\ f = lastId[files] + 1 /\ K(f) = Key(handler, h)
    BY <2>2
  <2> HIDE DEF k, e, l, K
  <2>5. CASE g = h
    BY <2>1, <2>5
  <2>6. CASE g # h
    <3>1. Up(k, g) => \A f \in DOMAIN e[files] : K(f) # Key(k, g)
      BY <1>2, <2>1, <2>4, <2>6
    <3>2. Own(db', k, objects', g)
      BY <1>2, <2>1, <2>6, <3>1 DEF K, e
    <3>3. Away(k, g) => /\ k[g].request.id \in 1 .. lastId[files]
                        /\ k[g].request.id \in DOMAIN e[files] => K(k[g].request.id) \notin objects
      BY <1>2, <2>1, <2>3, <2>4, <2>6
    <3>4. Gone(db', lastId', k, objects', g)
      BY <2>1, <2>3, <3>3 DEF K, e
    <3> QED
      BY <3>2, <3>4
  <2> QED
    BY <2>5, <2>6
<1>9. ASSUME UNCHANGED vars
      PROVE  Own(db', k, objects', g) /\ Gone(db', lastId', k, objects', g)
  BY <1>2, <1>9 DEF vars
<1> QED
  BY <1>5, <1>6, <1>7, <1>8, <1>9 DEF Next, Enter, Check, Finish

\* However many uploads and deletes of files are under way, and whenever they
\* die: the key of an upload is nobody else's, and what a delete removed from
\* the bucket does not come back before the row goes.
THEOREM BucketCorrect == Spec => []BucketOK
<1>1. Init => BucketOK
  BY DEF Init, T!StartWith, T!Idle, BucketOK, Uploads, Removes
<1> QED
  BY <1>1, BucketStep, FieldTypeCorrect, PTL DEF Spec

\* A row goes only with a deletion of its own.
LEMMA RowsGo ==
  ASSUME TypeOK, NEW h \in Handlers, T!Write(h), NEW r, r = handler[h].request,
         NEW u \in FieldTables, NEW i \in DOMAIN db[u], i \notin DOMAIN db'[u]
  PROVE  r.op = "delete" /\ r.table = u /\ r.id = i
<1>1. PICK t, new, id : t = r.table /\ new = lastId[t] + 1 /\ id = r.id
  OBVIOUS
<1>2. r.op \in {"create", "update", "delete"}
  BY RequestTables DEF T!Write, TypeOK
<1>3. CASE r.op = "create"
  <2>1. OthersStay(db, db', t, new) /\ DOMAIN db'[t] = DOMAIN db[t] \cup {new}
    BY <1>1, <1>3, CreatedRow
  <2> QED
    BY <2>1 DEF OthersStay
<1>4. CASE r.op = "delete"
  <2>1. OthersStay(db, db', t, id) /\ DOMAIN db'[t] = DOMAIN db[t] \ {id}
    BY <1>1, <1>4, DeletedRow
  <2> QED
    BY <1>1, <1>4, <2>1 DEF OthersStay
<1>5. CASE r.op = "update"
  <2>1. OthersStay(db, db', t, id) /\ DOMAIN db'[t] = DOMAIN db[t]
    BY <1>1, <1>5, UpdatedRow
  <2> QED
    BY <2>1 DEF OthersStay
<1> QED
  BY <1>2, <1>3, <1>4, <1>5

\* Every step but a write keeps the database.
LEMMA OnlyWritesChange ==
  ASSUME [Next]_vars, db' # db
  PROVE  \E h \in Handlers : T!Write(h) /\ objects' = objects
BY DEF Next, Enter, Check, Finish, Crash, T!Enter, T!Check, T!Refuse, T!Fail, vars

\* A row of a file goes only when its object has gone, however its delete is
\* interleaved with uploads and with other deletes, and whoever dies.
THEOREM NoRowForgets == Spec => NoRowForgetsItsObject
<1>1. TypeOK /\ BucketOK /\ [Next]_vars =>
        [\A f \in DOMAIN db["file_objects"] \ DOMAIN db'["file_objects"] :
           KeyOf(db, f) \notin objects']_vars
  <2> SUFFICES ASSUME TypeOK, BucketOK, [Next]_vars,
                      NEW f \in DOMAIN db["file_objects"] \ DOMAIN db'["file_objects"]
               PROVE  KeyOf(db, f) \notin objects'
    OBVIOUS
  <2>1. PICK h \in Handlers : T!Write(h) /\ objects' = objects
    BY OnlyWritesChange
  <2>2. /\ handler[h].request.op = "delete" /\ handler[h].request.table = "file_objects"
        /\ handler[h].request.id = f
    BY <2>1, RowsGo DEF FieldTables
  <2>3. Removes(h)
    BY <2>1, <2>2 DEF Removes, T!Write
  <2> QED
    BY <2>1, <2>2, <2>3 DEF BucketOK
<1> QED
  BY <1>1, FieldTypeCorrect, BucketCorrect, PTL DEF Spec, NoRowForgetsItsObject

\* The database refuses to delete a file only because of a picture.
LEMMA ShownFilesStay ==
  ASSUME TypeOK, NEW h \in Handlers, T!Fail(h), Removes(h),
         NEW f, f = handler[h].request.id, f \in DOMAIN db["file_objects"]
  PROVE  Shown(db, f)
<1> DEFINE files == "file_objects"
           after == Removed(db, FieldForeignKeys, files, f)
<1>1. PICK c, r, new :
        c = handler[h] /\ r = c.request /\ new = T!NextId(h)
  OBVIOUS
<1>2. r.table = files /\ r.id = f /\ r.op = "delete" /\ ~T!Inserts(r) /\ T!Deletes(r)
  BY <1>1 DEF Removes, T!Inserts, T!Deletes
<1>3. T!Flushed(db, c, new) = after
  BY <1>1, <1>2, SameTables DEF T!Flushed
<1>4. ~( /\ ReferencesHold(after, FieldForeignKeys) /\ KeysHold(after, FieldUniqueKeys)
        /\ RowsComplete(after, FieldRequired) )
  BY <1>1, <1>2, <1>3, SameTables DEF T!Fail, T!Accepted, Exists
<1>5. OthersStay(db, after, files, f) /\ DOMAIN after[files] = DOMAIN db[files] \ {f}
  <2>1. /\ DOMAIN db = FieldTables /\ files \in FieldTables
        /\ \A u \in FieldTables : \A i \in DOMAIN db[u] : IsRow(db[u][i])
    BY DEF TypeOK, FieldTables
  <2> QED
    BY <2>1, RemovedStays
<1> HIDE DEF after
<1>6. \A u \in FieldTables : \A i \in DOMAIN after[u] : i \in DOMAIN db[u] /\ after[u][i] = db[u][i]
  BY <1>5 DEF OthersStay
<1>7. KeysHold(after, FieldUniqueKeys)
  <2> SUFFICES ASSUME NEW k \in FieldUniqueKeys, NEW i \in DOMAIN after[k.table],
                      NEW j \in DOMAIN after[k.table] \ {i},
                      \A c1 \in k.columns : after[k.table][j][c1] = after[k.table][i][c1]
               PROVE  FALSE
    BY DEF KeysHold, Taken
  <2>1. /\ i \in DOMAIN db[k.table] /\ after[k.table][i] = db[k.table][i]
        /\ j \in DOMAIN db[k.table] /\ after[k.table][j] = db[k.table][j]
    BY <1>6, KeysOfTables
  <2>2. KeysHold(db, FieldUniqueKeys)
    BY DEF TypeOK
  <2> QED
    BY <2>1, <2>2 DEF KeysHold, Taken
<1>8. RowsComplete(after, FieldRequired)
  <2>1. DOMAIN FieldRequired \subseteq FieldTables
    BY DEF FieldRequired, FieldTables, VisitRecords
  <2>2. RowsComplete(db, FieldRequired)
    BY DEF TypeOK
  <2> QED
    BY <1>6, <2>1, <2>2 DEF RowsComplete
<1>9. PICK g \in FieldForeignKeys : \E i \in DOMAIN after[g.from] :
        after[g.from][i][g.column] \notin DOMAIN after[g.to] \cup {Null}
  BY <1>4, <1>7, <1>8 DEF ReferencesHold
<1>10. PICK i \in DOMAIN after[g.from] :
        after[g.from][i][g.column] \notin DOMAIN after[g.to] \cup {Null}
  BY <1>9
<1>11. /\ i \in DOMAIN db[g.from] /\ after[g.from][i] = db[g.from][i]
       /\ g.from \in FieldTables /\ g.to \in FieldTables
  BY <1>6, <1>10, KeysOfTables
<1>12. db[g.from][i][g.column] \in DOMAIN db[g.to] \cup {Null}
  BY <1>11 DEF TypeOK, ReferencesHold
<1>13. g.to = files /\ db[g.from][i][g.column] = f
  BY <1>5, <1>10, <1>11, <1>12 DEF OthersStay
<1>14. \/ g.from = "visit_photos" /\ g.column = "file_object_id"
       \/ g.from = "field_attendance_events" /\ g.column = "selfie_file_id"
  BY <1>13, ForeignKeysByTable
<1> QED
  BY <1>11, <1>13, <1>14 DEF Shown

\* Whatever dies between the bucket and the database: the row of a file keeps
\* its object but for its own delete, which leaves the row behind only by dying
\* or because a picture refers to the file.
THEOREM FilesAlwaysReadable == Spec => FilesReadable
<1>1. TypeOK /\ BucketOK /\ [Next]_vars =>
        [\A f \in DOMAIN db'["file_objects"] :
           \/ Readable(f)'
           \/ Deleting(f)'
           \/ f \in DOMAIN db["file_objects"] /\ ~Readable(f) /\ ~Deleting(f)
           \/ Deleting(f) /\ (Shown(db, f) \/ \E h \in Handlers : Crash(h))]_vars
  <2> DEFINE files == "file_objects"
  <2> SUFFICES ASSUME TypeOK, BucketOK, Next, NEW f \in DOMAIN db'[files],
                      f \in DOMAIN db[files] => Readable(f) \/ Deleting(f)
               PROVE  \/ Readable(f)'
                      \/ Deleting(f)'
                      \/ Deleting(f) /\ (Shown(db, f) \/ \E h \in Handlers : Crash(h))
    OBVIOUS
  <2>1. DOMAIN handler = Handlers
    BY DEF TypeOK
  <2>2. ASSUME NEW h \in Handlers, \A g \in Handlers \ {h} : handler'[g] = handler[g],
               ~(Removes(h) /\ handler[h].request.id = f), Deleting(f)
        PROVE  Deleting(f)'
    BY <2>2 DEF Deleting, Removes
  <2>3. CASE \E h \in Handlers : Enter(h)
    <3>1. PICK h \in Handlers : Enter(h)
      BY <2>3
    <3>2. /\ db' = db /\ objects' = objects /\ handler[h].at = "idle"
          /\ \A g \in Handlers \ {h} : handler'[g] = handler[g]
      BY <2>1, <3>1 DEF Enter, T!Enter
    <3> QED
      BY <2>2, <3>2 DEF Readable, Removes, KeyOf
  <2>4. CASE \E h \in Handlers : Check(h)
    <3>1. PICK h \in Handlers : Check(h)
      BY <2>4
    <3>2. PICK r : r = handler[h].request
      OBVIOUS
    <3>3. /\ handler[h].at = "entered" /\ handler'[h].at = "checked" /\ handler'[h].request = r
          /\ \A g \in Handlers \ {h} : handler'[g] = handler[g]
          /\ r.op = "create" \/ r.id \in DOMAIN db[r.table]
          /\ db' = db /\ objects' = Bucket(r) /\ r \in Requests
      BY <2>1, <3>1, <3>2, CheckFinds DEF Check, TypeOK
    <3>4. CASE Deleting(f)
      BY <2>2, <3>3, <3>4 DEF Removes
    <3>5. CASE Readable(f) /\ KeyOf(db, f) \in Bucket(r)
      BY <3>3, <3>5 DEF Readable, KeyOf
    <3>6. CASE Readable(f) /\ KeyOf(db, f) \notin Bucket(r)
      <4>1. r.table = files /\ r.op # "create" /\ KeyOf(db, f) = KeyOf(db, r.id)
        BY <3>6 DEF Readable, Bucket
      <4>2. r.op = "delete"
        BY <3>3, <4>1, RequestTables
      <4>3. r.id = f
        BY <3>3, <4>1, KeysDiffer DEF TypeOK
      <4> QED
        BY <3>3, <4>1, <4>2, <4>3 DEF Deleting, Removes
    <3> QED
      BY <3>3, <3>4, <3>5, <3>6
  <2>5. CASE \E h \in Handlers : T!Refuse(h) /\ UNCHANGED objects
    <3>1. PICK h \in Handlers : T!Refuse(h) /\ UNCHANGED objects
      BY <2>5
    <3>2. /\ db' = db /\ objects' = objects /\ handler[h].at = "entered"
          /\ \A g \in Handlers \ {h} : handler'[g] = handler[g]
      BY <2>1, <3>1 DEF T!Refuse
    <3> QED
      BY <2>2, <3>2 DEF Readable, Removes, KeyOf
  <2>6. CASE \E h \in Handlers : T!Write(h) /\ UNCHANGED objects
    <3>1. PICK h \in Handlers : T!Write(h) /\ UNCHANGED objects
      BY <2>6
    <3>2. \A g \in Handlers \ {h} : handler'[g] = handler[g]
      BY <2>1, <3>1 DEF T!Write
    <3>3. CASE f \in DOMAIN db[files] /\ KeyOf(db', f) = KeyOf(db, f)
      <4>1. ~(Removes(h) /\ handler[h].request.id = f)
        <5>1. ASSUME Removes(h), handler[h].request.id = f PROVE f \notin DOMAIN db'[files]
          BY <3>1, <5>1, DeletedRow DEF Removes
        <5> QED
          BY <5>1
      <4> QED
        BY <2>2, <3>1, <3>2, <3>3, <4>1 DEF Readable, KeyOf
    <3>4. CASE Uploads(h) /\ handler[h].at = "checked" /\
               KeyOf(db', f) = handler[h].request.values.storage_key
      BY <3>1, <3>4 DEF BucketOK, Readable, KeyOf
    <3> QED
      BY <3>1, <3>3, <3>4, FilesKeepKeys
  <2>7. CASE \E h \in Handlers : T!Fail(h) /\ UNCHANGED objects
    <3>1. PICK h \in Handlers : T!Fail(h) /\ UNCHANGED objects
      BY <2>7
    <3>2. /\ db' = db /\ objects' = objects
          /\ \A g \in Handlers \ {h} : handler'[g] = handler[g]
      BY <2>1, <3>1 DEF T!Fail
    <3>3. CASE Removes(h) /\ handler[h].request.id = f
      BY <3>1, <3>2, <3>3, ShownFilesStay DEF Deleting
    <3>4. CASE ~(Removes(h) /\ handler[h].request.id = f)
      BY <2>2, <3>2, <3>4 DEF Readable, KeyOf
    <3> QED
      BY <3>3, <3>4
  <2>8. CASE \E h \in Handlers : Crash(h) /\ UNCHANGED objects
    <3>1. db' = db /\ objects' = objects
      BY <2>8 DEF Crash
    <3> QED
      BY <2>8, <3>1 DEF Readable, KeyOf
  <2> QED
    BY <2>3, <2>4, <2>5, <2>6, <2>7, <2>8 DEF Next, Finish
<1> QED
  BY <1>1, FieldTypeCorrect, BucketCorrect, PTL DEF Spec, FilesReadable

-----------------------------------------------------------------------------
(* Writes that nobody overtook *)

\* The service finds no error, and the row as it loaded it.
LEMMA CurrentChecks ==
  ASSUME NEW h \in Handlers, T!Current(h), NEW r, r = handler[h].request
  PROVE  /\ FieldErrors(db, r) = {}
         /\ r.op # "create" =>
              r.id \in DOMAIN db[r.table] /\ handler[h].loaded = db[r.table][r.id]
BY SameTables DEF T!Current, T!Refused, T!Found, Exists

\* A record that is there has its visit there.
LEMMA RecordsHaveVisits ==
  ASSUME NEW d, ReferencesHold(d, FieldForeignKeys), RowsComplete(d, FieldRequired),
         NEW t \in VisitRecords, NEW i \in DOMAIN d[t], "visit_id" \in DOMAIN d[t][i]
  PROVE  d[t][i].visit_id \in DOMAIN d["visits"]
<1>1. t \in DOMAIN FieldRequired /\ "visit_id" \in FieldRequired[t]
  BY DEF FieldRequired, VisitRecords
<1>2. d[t][i].visit_id # Null
  BY <1>1 DEF RowsComplete, Complete
<1> QED
  BY <1>2, VisitsOfRecords DEF ReferencesHold, Reference

-----------------------------------------------------------------------------
(* What the services check is what the database will *)

\* The row may be stored under the id: its references exist, its keys are free.
Fits(d, t, id, row) ==
  /\ \A f \in FieldForeignKeys :
       f.from = t => row[f.column] \in DOMAIN d[f.to] \cup {Null}
  /\ \A k \in FieldUniqueKeys : k.table = t => ~Taken(d, t, id, k.columns, row)

\* A key is taken or not whatever else is in the row.
LEMMA TakenAlike ==
  ASSUME NEW d, NEW t, NEW id, NEW columns, NEW a, NEW b, \A k \in columns : a[k] = b[k]
  PROVE  Taken(d, t, id, columns, a) <=> Taken(d, t, id, columns, b)
BY DEF Taken

\* A statement keeps the constraints if the row it stores fits.
LEMMA FittingKeepsConstraints ==
  ASSUME NEW d, NEW t \in FieldTables, NEW id, NEW row,
         ReferencesHold(d, FieldForeignKeys), KeysHold(d, FieldUniqueKeys),
         Fits(d, t, id, row), NEW after, OthersStay(d, after, t, id),
         DOMAIN after[t] = DOMAIN d[t] \cup {id}, after[t][id] = row
  PROVE  ReferencesHold(after, FieldForeignKeys) /\ KeysHold(after, FieldUniqueKeys)
<1>1. \A u \in FieldTables : DOMAIN d[u] \subseteq DOMAIN after[u]
  BY DEF OthersStay
<1>2. ReferencesHold(after, FieldForeignKeys)
  <2> SUFFICES ASSUME NEW f \in FieldForeignKeys, NEW i \in DOMAIN after[f.from]
               PROVE  after[f.from][i][f.column] \in DOMAIN after[f.to] \cup {Null}
    BY DEF ReferencesHold
  <2>1. f.from \in FieldTables /\ DOMAIN d[f.to] \subseteq DOMAIN after[f.to]
    BY <1>1, KeysOfTables
  <2>2. CASE f.from = t /\ i = id
    BY <2>1, <2>2 DEF Fits
  <2>3. CASE ~(f.from = t /\ i = id)
    <3>1. i \in DOMAIN d[f.from] /\ after[f.from][i] = d[f.from][i]
      BY <2>1, <2>3 DEF OthersStay
    <3> QED
      BY <2>1, <3>1 DEF ReferencesHold
  <2> QED
    BY <2>2, <2>3
<1>3. KeysHold(after, FieldUniqueKeys)
  <2> SUFFICES ASSUME NEW k \in FieldUniqueKeys, NEW i \in DOMAIN after[k.table],
                      NEW j \in DOMAIN after[k.table] \ {i},
                      \A c \in k.columns : after[k.table][j][c] = after[k.table][i][c]
               PROVE  FALSE
    BY DEF KeysHold, Taken
  <2>1. k.table \in FieldTables
    BY KeysOfTables
  <2>2. CASE k.table # t \/ (i # id /\ j # id)
    <3>1. /\ i \in DOMAIN d[k.table] /\ after[k.table][i] = d[k.table][i]
          /\ j \in DOMAIN d[k.table] /\ after[k.table][j] = d[k.table][j]
      BY <2>1, <2>2 DEF OthersStay
    <3> QED
      BY <3>1 DEF KeysHold, Taken
  <2>3. CASE k.table = t /\ i = id
    <3>1. j \in DOMAIN d[t] \ {id} /\ \A c \in k.columns : d[t][j][c] = row[c]
      BY <2>3 DEF OthersStay
    <3> QED
      BY <2>3, <3>1 DEF Fits, Taken
  <2>4. CASE k.table = t /\ j = id
    <3>1. i \in DOMAIN d[t] \ {id} /\ \A c \in k.columns : d[t][i][c] = row[c]
      BY <2>4 DEF OthersStay
    <3> QED
      BY <2>4, <3>1 DEF Fits, Taken
  <2> QED
    BY <2>2, <2>3, <2>4
<1> QED
  BY <1>2, <1>3

\* And its NOT NULL columns stay filled if that row is complete.
LEMMA CompleteRowsStay ==
  ASSUME NEW d, NEW t \in FieldTables, NEW id, RowsComplete(d, FieldRequired),
         NEW after, OthersStay(d, after, t, id), DOMAIN after[t] = DOMAIN d[t] \cup {id},
         t \in DOMAIN FieldRequired, Complete(after[t][id], FieldRequired[t])
  PROVE  RowsComplete(after, FieldRequired)
<1> SUFFICES ASSUME NEW u \in DOMAIN FieldRequired, NEW i \in DOMAIN after[u]
             PROVE  Complete(after[u][i], FieldRequired[u])
  BY DEF RowsComplete
<1>1. u \in FieldTables
  BY DEF FieldRequired, FieldTables, VisitRecords
<1>2. CASE u = t /\ i = id
  BY <1>2
<1>3. CASE ~(u = t /\ i = id)
  <2>1. i \in DOMAIN d[u] /\ after[u][i] = d[u][i]
    BY <1>1, <1>3 DEF OthersStay
  <2> QED
    BY <2>1 DEF RowsComplete
<1> QED
  BY <1>2, <1>3

\* An update that sends no null for such a column leaves the row complete.
LEMMA PatchedComplete ==
  ASSUME NEW old, NEW v, NEW required, Complete(old, required), Complete(v, required)
  PROVE  Complete(Patched(old, Dirty(old, v)), required)
BY DEF Complete, Patched, Dirty

\* The row after an update that sends v, and what v must be for it to fit.
Updated(d, t, id, v, row) ==
  \A k \in Columns[t] : row[k] = IF k \in DOMAIN v THEN v[k] ELSE d[t][id][k]

SentFits(d, t, id, v, row) ==
  /\ \A f \in FieldForeignKeys :
       f.from = t /\ f.column \in DOMAIN v => v[f.column] \in DOMAIN d[f.to] \cup {Null}
  /\ \A k \in FieldUniqueKeys :
       k.table = t /\ k.columns \cap DOMAIN v # {} => ~Taken(d, t, id, k.columns, row)

\* An update fits if the columns it sends do: the others fitted before.
LEMMA UpdateFits ==
  ASSUME NEW d, NEW t, NEW id \in DOMAIN d[t], NEW v, NEW row,
         ReferencesHold(d, FieldForeignKeys), KeysHold(d, FieldUniqueKeys),
         Columns[t] \subseteq DOMAIN d[t][id],
         Updated(d, t, id, v, row), SentFits(d, t, id, v, row)
  PROVE  Fits(d, t, id, row)
<1>1. ASSUME NEW f \in FieldForeignKeys, f.from = t
      PROVE  row[f.column] \in DOMAIN d[f.to] \cup {Null}
  <2>1. f.column \in Columns[t]
    BY <1>1, KeysOfTables
  <2>2. d[t][id][f.column] \in DOMAIN d[f.to] \cup {Null}
    BY <1>1 DEF ReferencesHold
  <2> QED
    BY <1>1, <2>1, <2>2 DEF Updated, SentFits
<1>2. ASSUME NEW k \in FieldUniqueKeys, k.table = t, k.columns \cap DOMAIN v = {}
      PROVE  ~Taken(d, t, id, k.columns, row)
  <2>1. \A c \in k.columns : row[c] = d[t][id][c]
    BY <1>2, KeysOfTables DEF Updated
  <2>2. ~Taken(d, t, id, k.columns, d[t][id])
    BY <1>2 DEF KeysHold
  <2> QED
    BY <2>1, <2>2 DEF Taken
<1> QED
  BY <1>1, <1>2 DEF Fits, SentFits

\* A service raises nothing that its route does not turn into an answer, given
\* that records have their visits; deletions are left out.
LEMMA RoutesKnowErrors ==
  ASSUME NEW d, ReferencesHold(d, FieldForeignKeys), RowsComplete(d, FieldRequired),
         \A u \in VisitRecords : \A i \in DOMAIN d[u] : "visit_id" \in DOMAIN d[u][i],
         NEW r \in Requests, r.op = "create" \/ r.id \in DOMAIN d[r.table]
  PROVE  FieldErrors(d, r) \subseteq FieldRoutes(r)
<1> DEFINE t == r.table
<1>1. /\ t \in VisitRecords \cup {"store_types", "stores", "missions", "visits",
                                  "field_attendance_events", "file_objects"}
      /\ r.op \in {"create", "update", "delete"} /\ (r.op = "update" => t # "file_objects")
  BY RequestTables
<1>2. ASSUME t \in VisitRecords, r.op # "create"
      PROVE  OldRecord(d, r) \subseteq {"AuthorizationDenied"}
  <2>1. Exists(d, "visits", d[t][r.id].visit_id)
    BY <1>2, RecordsHaveVisits DEF Exists
  <2> QED
    BY <2>1 DEF OldRecord, OnVisit, Raise
<1>3. CASE r.op = "create"
  <2>1. FieldErrors(d, r) = CreateErrors(d, r)
    BY <1>3 DEF FieldErrors
  <2>2. NewRecord(d, r) \subseteq {"VisitNotFound", "AuthorizationDenied"}
    BY DEF NewRecord, OnVisit, Raise
  <2>3. CASE t = "store_types"
    BY <1>3, <2>1, <2>3 DEF CreateErrors, StoreTypeCreate, FieldRoutes, StoreTypeRoutes, Raise
  <2>4. CASE t = "stores"
    BY <1>3, <2>1, <2>4 DEF CreateErrors, StoreCreate, StoreReferences, FieldRoutes,
         StoreRoutes, Raise
  <2>5. CASE t = "missions"
    BY <1>3, <2>1, <2>5 DEF CreateErrors, MissionCreate, FieldRoutes, MissionRoutes, Raise
  <2>6. CASE t = "visits"
    BY <1>3, <2>1, <2>6 DEF CreateErrors, VisitCreate, MissionCreate, FieldRoutes,
         VisitRoutes, Raise
  <2>7. CASE t = "visit_photos"
    BY <1>3, <2>1, <2>2, <2>7 DEF CreateErrors, VisitPhotoCreate, FieldRoutes,
         VisitPhotoRoutes, Raise
  <2>8. CASE t = "surveys"
    BY <1>3, <2>1, <2>2, <2>8 DEF CreateErrors, SurveyCreate, FieldRoutes, SurveyRoutes, Raise
  <2>9. CASE t = "display_audits"
    BY <1>3, <2>1, <2>2, <2>9 DEF CreateErrors, DisplayAuditCreate, FieldRoutes,
         DisplayAuditRoutes
  <2>10. CASE t = "posm_audits"
    BY <1>3, <2>1, <2>2, <2>10 DEF CreateErrors, PosmAuditCreate, FieldRoutes, PosmAuditRoutes
  <2>11. CASE t = "competitor_activities"
    BY <1>3, <2>1, <2>2, <2>11 DEF CreateErrors, CompetitorActivityCreate, FieldRoutes,
         CompetitorActivityRoutes
  <2>12. CASE t = "field_attendance_events"
    BY <1>3, <2>1, <2>12 DEF CreateErrors, FieldAttendanceCreate, FieldRoutes,
         FieldAttendanceRoutes, Raise
  <2>13. CASE t = "file_objects"
    BY <1>3, <2>1, <2>13 DEF CreateErrors, Upload, FieldRoutes, FileRoutes, Raise
  <2> QED
    BY <1>1, <2>3, <2>4, <2>5, <2>6, <2>7, <2>8, <2>9, <2>10, <2>11, <2>12, <2>13
    DEF VisitRecords
<1>4. CASE r.op = "update"
  <2>1. FieldErrors(d, r) = UpdateErrors(d, r)
    BY <1>4 DEF FieldErrors
  <2>2. t \in VisitRecords => OldRecord(d, r) \subseteq {"AuthorizationDenied"}
    BY <1>4, <1>2
  <2>3. CASE t = "store_types"
    BY <1>4, <2>1, <2>3 DEF UpdateErrors, StoreTypeUpdate, FieldRoutes, StoreTypeRoutes, Raise
  <2>4. CASE t = "stores"
    BY <1>4, <2>1, <2>4 DEF UpdateErrors, StoreUpdate, StoreReferences, FieldRoutes,
         StoreRoutes, Raise
  <2>5. CASE t = "missions"
    BY <1>4, <2>1, <2>5 DEF UpdateErrors, MissionUpdate, FieldRoutes, MissionRoutes, Raise
  <2>6. CASE t = "visits"
    BY <1>4, <2>1, <2>6 DEF UpdateErrors, VisitUpdate, MissionUpdate, FieldRoutes,
         VisitRoutes, Raise
  <2>7. CASE t = "visit_photos"
    BY <1>4, <2>1, <2>2, <2>7 DEF UpdateErrors, VisitPhotoUpdate, FieldRoutes,
         VisitPhotoRoutes, Raise, VisitRecords
  <2>8. CASE t = "surveys"
    BY <1>4, <2>1, <2>2, <2>8 DEF UpdateErrors, SurveyUpdate, FieldRoutes, SurveyRoutes,
         VisitRecords
  <2>9. CASE t = "display_audits"
    BY <1>4, <2>1, <2>2, <2>9 DEF UpdateErrors, DisplayAuditUpdate, FieldRoutes,
         DisplayAuditRoutes, VisitRecords
  <2>10. CASE t = "posm_audits"
    BY <1>4, <2>1, <2>2, <2>10 DEF UpdateErrors, PosmAuditUpdate, FieldRoutes,
         PosmAuditRoutes, VisitRecords
  <2>11. CASE t = "competitor_activities"
    BY <1>4, <2>1, <2>2, <2>11 DEF UpdateErrors, CompetitorActivityUpdate, FieldRoutes,
         CompetitorActivityRoutes, VisitRecords
  <2>12. CASE t = "field_attendance_events"
    BY <1>4, <2>1, <2>12 DEF UpdateErrors, FieldAttendanceUpdate, FieldRoutes,
         FieldAttendanceRoutes, Raise
  <2> QED
    BY <1>1, <1>4, <2>3, <2>4, <2>5, <2>6, <2>7, <2>8, <2>9, <2>10, <2>11, <2>12
    DEF VisitRecords
<1>5. CASE r.op = "delete"
  <2>1. FieldErrors(d, r) = DeleteErrors(d, r)
    BY <1>5 DEF FieldErrors
  <2>2. CASE t \in VisitRecords
    <3>1. DeleteErrors(d, r) = OldRecord(d, r)
      BY <2>2 DEF DeleteErrors, VisitRecords, VisitPhotoDelete, SurveyDelete,
           DisplayAuditDelete, PosmAuditDelete, CompetitorActivityDelete
    <3>2. FieldRoutes(r) = {"AuthorizationDenied"}
      BY <1>5, <2>2 DEF FieldRoutes, VisitRecords, VisitPhotoRoutes, SurveyRoutes,
           DisplayAuditRoutes, PosmAuditRoutes, CompetitorActivityRoutes
    <3> QED
      BY <1>2, <1>5, <2>1, <2>2, <3>1, <3>2
  <2>3. CASE t \in {"store_types", "stores", "missions", "file_objects"}
    BY <2>1, <2>3 DEF DeleteErrors
  <2>4. CASE t = "visits"
    BY <1>5, <2>1, <2>4 DEF DeleteErrors, VisitDelete, FieldRoutes, VisitRoutes, Raise
  <2>5. CASE t = "field_attendance_events"
    BY <1>5, <2>1, <2>5 DEF DeleteErrors, FieldAttendanceDelete, FieldRoutes,
         FieldAttendanceRoutes, Raise
  <2> QED
    BY <1>1, <2>2, <2>3, <2>4, <2>5
<1> QED
  BY <1>1, <1>3, <1>4, <1>5

\* The rows that are inserted fit: what they refer to was looked up, and so was
\* what must be their own, but for the key of a file, which nobody else has.
LEMMA InsertFits ==
  ASSUME NEW d, NEW r \in Requests, r.op = "create", NEW t, t = r.table, FieldErrors(d, r) = {},
         NEW id, id \notin DOMAIN d[t], 0 \notin DOMAIN d[t],
         t = "file_objects" => \A f \in DOMAIN d[t] : KeyOf(d, f) # r.values.storage_key
  PROVE  Fits(d, t, id, r.values)
<1> DEFINE v == r.values
<1>1. \A columns : Taken(d, t, id, columns, v) <=> Taken(d, t, 0, columns, v)
  BY DEF Taken
<1>2. CreateErrors(d, r) = {}
  BY DEF FieldErrors
<1>3. NewRecord(d, r) = {} => v.visit_id \in DOMAIN d["visits"]
  BY DEF NewRecord, OnVisit, Exists
<1>4. CASE t = "store_types"
  <2>1. ~Taken(d, t, 0, {"code"}, v)
    BY <1>2, <1>4 DEF CreateErrors, StoreTypeCreate, Raise
  <2> QED
    BY <1>1, <1>4, <2>1, ForeignKeysByTable, UniqueKeysByTable DEF Fits, VisitRecords
<1>5. CASE t = "stores"
  <2>1. {"organization_id", "store_type_id"} \subseteq DOMAIN v
    <3>1. Columns[t] \subseteq DOMAIN v
      BY RequestAssumption
    <3> QED
      BY <1>5, <3>1 DEF Columns
  <2>2. ~Taken(d, t, 0, {"code"}, v) /\ StoreReferences(d, v) = {}
    BY <1>2, <1>5 DEF CreateErrors, StoreCreate, Raise
  <2>3. v.organization_id \in DOMAIN d["organizations"] /\ v.store_type_id \in DOMAIN d["store_types"]
    BY <2>1, <2>2 DEF StoreReferences, Dangling, Raise, Exists
  <2> QED
    BY <1>1, <1>5, <2>2, <2>3, ForeignKeysByTable, UniqueKeysByTable DEF Fits, VisitRecords
<1>6. CASE t \in {"missions", "visits"}
  <2>1. MissionCreate(d, v) = {}
    BY <1>2, <1>6 DEF CreateErrors, VisitCreate
  <2>2. v.employee_id \in DOMAIN d["hr_employees"] /\ v.store_id \in DOMAIN d["stores"]
    BY <2>1 DEF MissionCreate, Raise, Exists
  <2> QED
    BY <1>6, <2>2, ForeignKeysByTable, UniqueKeysByTable DEF Fits, VisitRecords
<1>7. CASE t = "visit_photos"
  <2>1. NewRecord(d, r) = {} /\ v.file_object_id \in DOMAIN d["file_objects"]
    BY <1>2, <1>7 DEF CreateErrors, VisitPhotoCreate, Raise, Exists
  <2> QED
    BY <1>3, <1>7, <2>1, ForeignKeysByTable, UniqueKeysByTable DEF Fits, VisitRecords
<1>8. CASE t = "surveys"
  <2>1. NewRecord(d, r) = {} /\ ~Taken(d, t, 0, {"visit_id"}, v)
    BY <1>2, <1>8 DEF CreateErrors, SurveyCreate, Raise
  <2> QED
    BY <1>1, <1>3, <1>8, <2>1, ForeignKeysByTable, UniqueKeysByTable DEF Fits, VisitRecords
<1>9. CASE t \in {"display_audits", "posm_audits", "competitor_activities"}
  <2>1. NewRecord(d, r) = {}
    BY <1>2, <1>9 DEF CreateErrors, DisplayAuditCreate, PosmAuditCreate, CompetitorActivityCreate
  <2> QED
    BY <1>3, <1>9, <2>1, ForeignKeysByTable, UniqueKeysByTable DEF Fits, VisitRecords
<1>10. CASE t = "field_attendance_events"
  <2>1. v.employee_id \in DOMAIN d["hr_employees"] /\ v.selfie_file_id \in DOMAIN d["file_objects"]
    BY <1>2, <1>10 DEF CreateErrors, FieldAttendanceCreate, Raise, Exists
  <2> QED
    BY <1>10, <2>1, ForeignKeysByTable, UniqueKeysByTable DEF Fits, VisitRecords
<1>11. CASE t = "file_objects"
  <2>1. ~Taken(d, t, id, {"storage_key"}, v)
    BY <1>11 DEF Taken, KeyOf
  <2> QED
    BY <1>11, <2>1, ForeignKeysByTable, UniqueKeysByTable DEF Fits, VisitRecords
<1> QED
  BY <1>4, <1>5, <1>6, <1>7, <1>8, <1>9, <1>10, <1>11, RequestTables DEF VisitRecords

\* The rows that are updated fit: what they refer to newly was looked up, and
\* so was a new code; a visit, and the key of a file, is not edited.
LEMMA UpdatedRowFits ==
  ASSUME NEW d, NEW r \in Requests, r.op = "update", NEW t, t = r.table,
         NEW id, id = r.id, FieldErrors(d, r) = {}, id \in DOMAIN d[t],
         Columns[t] \subseteq DOMAIN d[t][id],
         ReferencesHold(d, FieldForeignKeys), KeysHold(d, FieldUniqueKeys),
         NEW v, v = r.values, NEW row, row = Patched(d[t][id], Dirty(d[t][id], v))
  PROVE  Fits(d, t, id, row)
<1>1. Updated(d, t, id, v, row)
  BY DEF Patched, Dirty, Updated
<1>2. SUFFICES SentFits(d, t, id, v, row)
  BY <1>1, UpdateFits
<1>3. UpdateErrors(d, r) = {}
  BY DEF FieldErrors
<1>4. \A k \in Columns[t] \cap DOMAIN v :
        Taken(d, t, id, {k}, row) <=> Taken(d, t, id, {k}, v)
  BY <1>1, TakenAlike DEF Updated
<1>5. t \in VisitRecords => "visit_id" \notin DOMAIN v
  BY RequestAssumption
<1>6. CASE t = "store_types"
  <2>1. "code" \in DOMAIN v => ~Taken(d, t, id, {"code"}, v)
    BY <1>3, <1>6 DEF UpdateErrors, StoreTypeUpdate, Raise
  <2>2. "code" \in DOMAIN v => ~Taken(d, t, id, {"code"}, row)
    BY <1>4, <1>6, <2>1 DEF Columns
  <2> QED
    BY <1>6, <2>2, ForeignKeysByTable, UniqueKeysByTable DEF SentFits, VisitRecords
<1>7. CASE t = "stores"
  <2>1. ("code" \in DOMAIN v => ~Taken(d, t, id, {"code"}, v)) /\ StoreReferences(d, v) = {}
    BY <1>3, <1>7 DEF UpdateErrors, StoreUpdate, Raise
  <2>2. /\ "organization_id" \in DOMAIN v => v.organization_id \in DOMAIN d["organizations"]
        /\ "store_type_id" \in DOMAIN v => v.store_type_id \in DOMAIN d["store_types"]
    BY <2>1 DEF StoreReferences, Dangling, Raise, Exists
  <2>3. "code" \in DOMAIN v => ~Taken(d, t, id, {"code"}, row)
    BY <1>4, <1>7, <2>1 DEF Columns
  <2> QED
    BY <1>7, <2>2, <2>3, ForeignKeysByTable, UniqueKeysByTable DEF SentFits, VisitRecords
<1>8. CASE t \in {"missions", "visits"}
  <2>1. MissionUpdate(d, v) = {}
    BY <1>3, <1>8 DEF UpdateErrors, VisitUpdate
  <2>2. /\ "employee_id" \in DOMAIN v => v.employee_id \in DOMAIN d["hr_employees"]
        /\ "store_id" \in DOMAIN v => v.store_id \in DOMAIN d["stores"]
    BY <2>1 DEF MissionUpdate, Dangling, Raise, Exists
  <2> QED
    BY <1>8, <2>2, ForeignKeysByTable, UniqueKeysByTable DEF SentFits, VisitRecords
<1>9. CASE t = "visit_photos"
  <2>1. "file_object_id" \in DOMAIN v => v.file_object_id \in DOMAIN d["file_objects"]
    BY <1>3, <1>9 DEF UpdateErrors, VisitPhotoUpdate, Dangling, Raise, Exists
  <2> QED
    BY <1>5, <1>9, <2>1, ForeignKeysByTable, UniqueKeysByTable DEF SentFits, VisitRecords
<1>10. CASE t \in VisitRecords \ {"visit_photos"}
  BY <1>5, <1>10, ForeignKeysByTable, UniqueKeysByTable DEF SentFits, VisitRecords
<1>11. CASE t = "field_attendance_events"
  <2>1. /\ "employee_id" \in DOMAIN v => v.employee_id \in DOMAIN d["hr_employees"]
        /\ "selfie_file_id" \in DOMAIN v => v.selfie_file_id \in DOMAIN d["file_objects"]
    BY <1>3, <1>11 DEF UpdateErrors, FieldAttendanceUpdate, Dangling, Raise, Exists
  <2> QED
    BY <1>11, <2>1, ForeignKeysByTable, UniqueKeysByTable DEF SentFits, VisitRecords
<1> QED
  BY <1>6, <1>7, <1>8, <1>9, <1>10, <1>11, RequestTables

\* A row that no other refers to can be deleted: the keys and the NOT NULL columns
\* of the others hold as they did.
LEMMA DeleteIsAccepted ==
  ASSUME TypeOK, NEW h \in Handlers, handler[h].at = "checked", NEW r, r = handler[h].request,
         T!Deletes(r), NEW t \in FieldTables, t = r.table, NEW id \in DOMAIN db[t], id = r.id,
         ~StillReferred(db, FieldForeignKeys, t, id)
  PROVE  T!Accepted(db, handler[h], T!NextId(h))
<1> DEFINE after == Removed(db, FieldForeignKeys, t, id)
<1>1. T!Flushed(db, handler[h], T!NextId(h)) = after
  BY SameTables DEF T!Flushed, T!Inserts, T!Deletes
<1>2. ReferencesHold(after, FieldForeignKeys)
  BY DEF StillReferred
<1>3. OthersStay(db, after, t, id) /\ DOMAIN after[t] = DOMAIN db[t] \ {id}
  BY RemovedStays DEF TypeOK
<1> HIDE DEF after
<1>4. \A u \in FieldTables : \A i \in DOMAIN after[u] :
        i \in DOMAIN db[u] /\ after[u][i] = db[u][i]
  BY <1>3 DEF OthersStay
<1>5. KeysHold(after, FieldUniqueKeys)
  <2>1. KeysHold(db, FieldUniqueKeys)
    BY DEF TypeOK
  <2> QED
    BY <1>4, <2>1, KeysOfTables DEF KeysHold, Taken
<1>6. RowsComplete(after, FieldRequired)
  <2>1. RowsComplete(db, FieldRequired) /\ DOMAIN FieldRequired \subseteq FieldTables
    BY DEF TypeOK, FieldRequired, FieldTables, VisitRecords
  <2> QED
    BY <1>4, <2>1 DEF RowsComplete
<1>7. T!Exists(db, t, id)
  BY DEF T!Exists
<1> QED
  BY <1>1, <1>2, <1>5, <1>6, <1>7, SameTables DEF T!Accepted

\* The database takes an INSERT and an UPDATE of a request that nobody overtook,
\* but for a null in a NOT NULL column.
LEMMA InsertOrUpdateIsAccepted ==
  ASSUME TypeOK, BucketOK, NEW h \in Handlers, handler[h].at = "checked", T!Current(h),
         handler[h].request.op # "delete", ~T!SendsNull(db, handler[h].request)
  PROVE  T!Accepted(db, handler[h], T!NextId(h))
<1>1. PICK r, c, t, id, new :
        /\ r = handler[h].request /\ c = handler[h] /\ t = r.table /\ id = r.id
        /\ new = lastId[t] + 1
  OBVIOUS
<1> DEFINE after == T!Flushed(db, c, new)
<1>2. /\ r \in Requests /\ t \in FieldTables /\ c.values = r.values
      /\ r.op \in {"create", "update"}
  BY <1>1, RequestTables DEF TypeOK
<1>3. /\ FieldErrors(db, r) = {}
      /\ r.op # "create" => id \in DOMAIN db[t] /\ c.loaded = db[t][id]
  BY <1>1, CurrentChecks
<1>4. /\ DOMAIN db = FieldTables /\ lastId[t] \in Nat /\ DOMAIN db[t] \subseteq 1 .. lastId[t]
      /\ ReferencesHold(db, FieldForeignKeys) /\ KeysHold(db, FieldUniqueKeys)
      /\ RowsComplete(db, FieldRequired)
      /\ \A i \in DOMAIN db[t] : Columns[t] \subseteq DOMAIN db[t][i]
  BY <1>2 DEF TypeOK
<1>5. SUFFICES /\ T!Inserts(r) \/ id \in DOMAIN db[t]
               /\ ReferencesHold(after, FieldForeignKeys)
               /\ KeysHold(after, FieldUniqueKeys)
               /\ RowsComplete(after, FieldRequired)
  BY <1>1, SameTables DEF T!Accepted, T!NextId, Exists
<1>6. t \in DOMAIN FieldRequired
  BY <1>1, <1>2, RequestTables DEF FieldRequired, VisitRecords
<1>7. Complete(r.values, FieldRequired[t])
  BY <1>1, <1>2, SameTables DEF T!SendsNull, T!Deletes, FieldAssigned
<1>8. CASE r.op = "create"
  <2>1. after = Stored(db, t, new, r.values) /\ T!Inserts(r)
    BY <1>1, <1>2, <1>8, SameTables DEF T!Flushed, T!Inserts
  <2>2. new \notin DOMAIN db[t] /\ 0 \notin DOMAIN db[t]
    BY <1>1, <1>4
  <2>3. t = "file_objects" => \A f \in DOMAIN db[t] : KeyOf(db, f) # r.values.storage_key
    BY <1>1, <1>8 DEF BucketOK, Uploads
  <2>4. Fits(db, t, new, r.values)
    BY <1>1, <1>2, <1>3, <1>8, <2>2, <2>3, InsertFits
  <2> HIDE DEF after
  <2>5. /\ OthersStay(db, after, t, new) /\ DOMAIN after[t] = DOMAIN db[t] \cup {new}
        /\ after[t][new] = r.values
    BY <1>2, <1>4, <2>1, StoredStays
  <2>6. ReferencesHold(after, FieldForeignKeys) /\ KeysHold(after, FieldUniqueKeys)
    BY <1>2, <1>4, <2>4, <2>5, FittingKeepsConstraints
  <2>7. RowsComplete(after, FieldRequired)
    BY <1>2, <1>4, <1>6, <1>7, <2>5, CompleteRowsStay
  <2> QED
    BY <2>1, <2>6, <2>7
<1>9. CASE r.op = "update"
  <2> DEFINE row == Patched(db[t][id], Dirty(c.loaded, r.values))
  <2>1. ~T!Inserts(r) /\ ~T!Deletes(r) /\ id \in DOMAIN db[t] /\ c.loaded = db[t][id]
    BY <1>3, <1>9 DEF T!Inserts, T!Deletes
  <2>2. Fits(db, t, id, row)
    BY <1>1, <1>2, <1>3, <1>4, <1>9, <2>1, UpdatedRowFits
  <2>3. after = Stored(db, t, id, row)
    <3>1. after = T!Stored(db, t, id, T!Patched(db[t][id], T!Dirty(c.loaded, r.values)))
      BY <1>1, <1>2, <2>1 DEF T!Flushed
    <3> QED
      BY <3>1, SameTables
  <2> HIDE DEF row, after
  <2>4. /\ OthersStay(db, after, t, id) /\ DOMAIN after[t] = DOMAIN db[t] \cup {id}
        /\ after[t][id] = row
    BY <1>2, <1>4, <2>3, StoredStays
  <2>5. ReferencesHold(after, FieldForeignKeys) /\ KeysHold(after, FieldUniqueKeys)
    BY <1>2, <1>4, <2>2, <2>4, FittingKeepsConstraints
  <2>6. Complete(row, FieldRequired[t])
    <3>1. Complete(db[t][id], FieldRequired[t])
      BY <1>4, <1>6, <2>1 DEF RowsComplete
    <3> QED
      BY <1>7, <2>1, <3>1, PatchedComplete DEF row
  <2>7. RowsComplete(after, FieldRequired)
    BY <1>2, <1>4, <1>6, <2>4, <2>6, CompleteRowsStay
  <2> QED
    BY <2>1, <2>5, <2>7
<1> QED
  BY <1>2, <1>8, <1>9

\* The same for every write, but for the deletion of a row that others refer to.
LEMMA CurrentIsAccepted ==
  ASSUME TypeOK, BucketOK, NEW h \in Handlers, handler[h].at = "checked", T!Current(h),
         ~T!SendsNull(db, handler[h].request),
         ~(/\ handler[h].request.op = "delete"
           /\ StillReferred(db, FieldForeignKeys, handler[h].request.table, handler[h].request.id))
  PROVE  T!Accepted(db, handler[h], T!NextId(h))
<1>1. CASE handler[h].request.op = "delete"
  <2>1. /\ handler[h].request \in Requests /\ handler[h].request.table \in FieldTables
        /\ handler[h].request.id \in DOMAIN db[handler[h].request.table]
    BY <1>1, CurrentChecks, RequestTables DEF TypeOK
  <2> QED
    BY <1>1, <2>1, DeleteIsAccepted DEF T!Deletes
<1>2. CASE handler[h].request.op # "delete"
  BY <1>2, InsertOrUpdateIsAccepted
<1> QED
  BY <1>1, <1>2

\* Every request that nobody overtook gets an answer, but for the deletion of a
\* row that others refer to and an update that sends null for a NOT NULL column:
\* the services check all that the keys of their tables will, a record always has
\* its visit, and no key of a file is drawn twice.
THEOREM FieldAnswers == Spec => []AnsweredUnlessOvertaken
<1>1. TypeOK /\ BucketOK => AnsweredUnlessOvertaken
  <2> SUFFICES ASSUME TypeOK, BucketOK, NEW h \in Handlers, T!Unanswered(h),
                      ~T!SendsNull(db, handler[h].request),
                      ~(/\ handler[h].request.op = "delete"
                        /\ StillReferred(db, FieldForeignKeys, handler[h].request.table,
                                         handler[h].request.id))
               PROVE  FALSE
    BY DEF AnsweredUnlessOvertaken
  <2>1. CASE handler[h].at = "entered"
    <3>1. PICK r : r = handler[h].request
      OBVIOUS
    <3>2. /\ r \in Requests /\ ReferencesHold(db, FieldForeignKeys)
          /\ RowsComplete(db, FieldRequired)
          /\ ~(FieldErrors(db, r) \subseteq FieldRoutes(r))
          /\ r.op = "create" \/ r.id \in DOMAIN db[r.table]
      BY <2>1, <3>1, SameTables DEF TypeOK, T!Unanswered, T!Found, Exists
    <3>3. \A u \in VisitRecords : \A i \in DOMAIN db[u] : "visit_id" \in DOMAIN db[u][i]
      BY DEF TypeOK, Columns, FieldTables, VisitRecords
    <3> QED
      BY <3>1, <3>2, <3>3, RoutesKnowErrors
  <2>2. CASE handler[h].at = "checked"
    BY <2>2, CurrentIsAccepted DEF T!Unanswered
  <2> QED
    BY <2>1, <2>2 DEF T!Unanswered
<1> QED
  BY <1>1, FieldTypeCorrect, BucketCorrect, PTL


-----------------------------------------------------------------------------
(* The records of the others *)

Theirs == VisitRecords \cup {"visits", "field_attendance_events"}

\* The employee a row is about: a record is about the employee of its visit.
EmployeeOf(d, t, i) ==
  IF t \in VisitRecords THEN d["visits"][d[t][i].visit_id].employee_id
  ELSE d[t][i].employee_id

LEMMA ListedByEmployee ==
  ASSUME NEW d, NEW employee, NEW t
  PROVE  Listed(d, employee, t) = {i \in DOMAIN d[t] : EmployeeOf(d, t, i) = employee}
BY DEF Listed, EmployeeOf

\* The step that changes the database and frees the handler is its write.
LEMMA OnlyWrites ==
  ASSUME NEW h \in Handlers, T!Writes(h), Next, DOMAIN handler = Handlers
  PROVE  T!Write(h)
<1>1. PICK g \in Handlers : T!Write(g)
  BY OnlyWritesChange DEF T!Writes
<1>2. g = h
  BY <1>1 DEF T!Writes, T!Write, T!Idle
<1> QED
  BY <1>1, <1>2

\* An owner is one employee.
LEMMA OneOwner ==
  ASSUME NEW d, NEW r, NEW a, NEW b, Owner(d, r, a)
  PROVE  Owner(d, r, b) <=> a = b
BY DEF Owner

\* Whoever writes what belongs to an employee, unless overtaken, is that employee.
LEMMA CurrentOwner ==
  ASSUME TypeOK, NEW h \in Handlers, T!Write(h), T!Current(h), NEW r, r = handler[h].request,
         NEW t, t = r.table, NEW id, id = r.id, t \in Theirs
  PROVE  /\ r.op # "create" => id \in DOMAIN db[t] /\ Owner(db, r, EmployeeOf(db, t, id))
         /\ r.op = "create" /\ t \notin VisitRecords => Owner(db, r, r.values.employee_id)
         /\ r.op = "create" /\ t \in VisitRecords =>
              /\ r.values.visit_id \in DOMAIN db["visits"]
              /\ Owner(db, r, db["visits"][r.values.visit_id].employee_id)
<1>1. /\ r \in Requests /\ r.op \in {"create", "update", "delete"} /\ r.table = t /\ r.id = id
      /\ FieldErrors(db, r) = {}
      /\ r.op # "create" => id \in DOMAIN db[t]
  BY CurrentChecks, RequestTables DEF T!Write, TypeOK
<1>2. /\ r.op = "create" => CreateErrors(db, r) = {}
      /\ r.op = "update" => UpdateErrors(db, r) = {}
      /\ r.op = "delete" => DeleteErrors(db, r) = {}
  BY <1>1 DEF FieldErrors
<1>3. CASE t \notin VisitRecords
  <2>1. VisitOwner(db, r)
    <3>1. CASE t = "visits"
      <4>1. /\ r.op = "create" => VisitCreate(db, r) = {}
            /\ r.op = "update" => VisitUpdate(db, r) = {}
            /\ r.op = "delete" => VisitDelete(db, r) = {}
        BY <1>1, <1>2, <3>1 DEF CreateErrors, UpdateErrors, DeleteErrors
      <4> QED
        BY <1>1, <4>1 DEF VisitCreate, VisitUpdate, VisitDelete, Raise
    <3>2. CASE t = "field_attendance_events"
      <4>1. /\ r.op = "create" => FieldAttendanceCreate(db, r) = {}
            /\ r.op = "update" => FieldAttendanceUpdate(db, r) = {}
            /\ r.op = "delete" => FieldAttendanceDelete(db, r) = {}
        BY <1>1, <1>2, <3>2 DEF CreateErrors, UpdateErrors, DeleteErrors
      <4> QED
        BY <1>1, <4>1
        DEF FieldAttendanceCreate, FieldAttendanceUpdate, FieldAttendanceDelete, Raise
    <3> QED
      BY <1>3, <3>1, <3>2 DEF Theirs
  <2> QED
    BY <1>1, <1>3, <2>1 DEF VisitOwner, EmployeeOf
<1>4. CASE t \in VisitRecords
  <2>1. r.op = "create" => NewRecord(db, r) = {}
    BY <1>1, <1>2, <1>4 DEF CreateErrors, VisitRecords, SurveyCreate, VisitPhotoCreate,
       DisplayAuditCreate, PosmAuditCreate, CompetitorActivityCreate
  <2>2. r.op # "create" => OldRecord(db, r) = {}
    <3>1. r.op = "update" => OldRecord(db, r) = {}
      BY <1>1, <1>2, <1>4 DEF UpdateErrors, VisitRecords, SurveyUpdate, VisitPhotoUpdate,
         DisplayAuditUpdate, PosmAuditUpdate, CompetitorActivityUpdate
    <3>2. r.op = "delete" => OldRecord(db, r) = {}
      BY <1>1, <1>2, <1>4 DEF DeleteErrors, VisitRecords, SurveyDelete, VisitPhotoDelete,
         DisplayAuditDelete, PosmAuditDelete, CompetitorActivityDelete
    <3> QED
      BY <1>1, <3>1, <3>2
  <2>3. ASSUME NEW visit, OnVisit(db, r, visit) = {}
        PROVE  visit \in DOMAIN db["visits"] /\ Owner(db, r, db["visits"][visit].employee_id)
    BY <2>3 DEF OnVisit, Exists, Raise
  <2>4. /\ r.op = "create" => OnVisit(db, r, r.values.visit_id) = {}
        /\ r.op # "create" => OnVisit(db, r, db[t][id].visit_id) = {}
    BY <1>1, <2>1, <2>2 DEF NewRecord, OldRecord
  <2> QED
    BY <1>1, <1>4, <2>3, <2>4 DEF EmployeeOf
<1> QED
  BY <1>3, <1>4

\* What a write leaves of a table, the rows it adds or changes aside.
LEMMA RowsBefore ==
  ASSUME TypeOK, NEW h \in Handlers, T!Write(h), NEW r, r = handler[h].request,
         NEW u \in FieldTables
  PROVE  /\ \A i \in DOMAIN db[u] :
              \/ i \in DOMAIN db'[u] /\ db'[u][i] = db[u][i]
              \/ r.table = u /\ r.id = i /\ r.op # "create"
         /\ \A i \in DOMAIN db'[u] :
              \/ i \in DOMAIN db[u] /\ db'[u][i] = db[u][i]
              \/ r.table = u /\ r.op = "create" /\ db'[u][i] = r.values
              \/ /\ r.table = u /\ r.op = "update" /\ i = r.id /\ i \in DOMAIN db[u]
                 /\ \A k \in Columns[u] :
                      \/ db'[u][i][k] = db[u][i][k]
                      \/ k \in DOMAIN r.values /\ db'[u][i][k] = r.values[k]
<1>1. PICK t, new, id : t = r.table /\ new = lastId[t] + 1 /\ id = r.id
  OBVIOUS
<1>2. r.op \in {"create", "update", "delete"}
  BY RequestTables DEF T!Write, TypeOK
<1>3. CASE r.op = "create"
  <2>1. /\ OthersStay(db, db', t, new) /\ new \notin DOMAIN db[t]
        /\ DOMAIN db'[t] = DOMAIN db[t] \cup {new} /\ db'[t][new] = r.values
    BY <1>1, <1>3, CreatedRow
  <2> QED
    BY <1>1, <1>3, <2>1 DEF OthersStay
<1>4. CASE r.op = "update"
  <2>1. /\ id \in DOMAIN db[t] /\ OthersStay(db, db', t, id) /\ DOMAIN db'[t] = DOMAIN db[t]
        /\ \A k \in Columns[t] :
             db'[t][id][k] = db[t][id][k] \/ (k \in DOMAIN r.values /\ db'[t][id][k] = r.values[k])
    BY <1>1, <1>4, UpdatedRow
  <2> QED
    BY <1>1, <1>4, <2>1 DEF OthersStay
<1>5. CASE r.op = "delete"
  <2>1. OthersStay(db, db', t, id) /\ DOMAIN db'[t] = DOMAIN db[t] \ {id}
    BY <1>1, <1>5, DeletedRow
  <2> QED
    BY <1>1, <1>5, <2>1 DEF OthersStay
<1> QED
  BY <1>2, <1>3, <1>4, <1>5

\* The row of somebody else stays.
LEMMA RowStands ==
  ASSUME TypeOK, NEW h \in Handlers, T!Write(h), T!Current(h), NEW r, r = handler[h].request,
         NEW u \in Theirs, NEW i \in DOMAIN db[u], ~Owner(db, r, EmployeeOf(db, u, i))
  PROVE  i \in DOMAIN db'[u] /\ db'[u][i] = db[u][i]
<1>1. PICK t, id : t = r.table /\ id = r.id
  OBVIOUS
<1>2. u \in FieldTables
  BY DEF Theirs, FieldTables
<1>3. ~(t = u /\ id = i /\ r.op # "create")
  BY <1>1, CurrentOwner
<1> QED
  BY <1>1, <1>2, <1>3, RowsBefore

\* So does a record with its visit, and it stays theirs.
LEMMA TheirRowStays ==
  ASSUME TypeOK, NEW h \in Handlers, T!Write(h), T!Current(h), NEW r, r = handler[h].request,
         NEW u \in Theirs, NEW i \in DOMAIN db[u], ~Owner(db, r, EmployeeOf(db, u, i))
  PROVE  /\ i \in DOMAIN db'[u] /\ db'[u][i] = db[u][i]
         /\ EmployeeOf(db', u, i) = EmployeeOf(db, u, i)
<1>1. i \in DOMAIN db'[u] /\ db'[u][i] = db[u][i]
  BY RowStands
<1>2. CASE u \in VisitRecords
  <2>1. PICK v, visits : v = db[u][i].visit_id /\ visits = "visits"
    OBVIOUS
  <2>2. v \in DOMAIN db[visits]
    <3>1. "visit_id" \in DOMAIN db[u][i]
      BY <1>2 DEF TypeOK, Columns, FieldTables, VisitRecords
    <3> QED
      BY <1>2, <2>1, <3>1, RecordsHaveVisits DEF TypeOK
  <2>3. visits \in Theirs /\ EmployeeOf(db, u, i) = EmployeeOf(db, visits, v)
    BY <1>2, <2>1 DEF Theirs, EmployeeOf, VisitRecords
  <2>4. db'[visits][v] = db[visits][v]
    BY <2>2, <2>3, RowStands
  <2> QED
    BY <1>1, <1>2, <2>1, <2>4 DEF EmployeeOf
<1>3. CASE u \notin VisitRecords
  BY <1>1, <1>3 DEF EmployeeOf
<1> QED
  BY <1>1, <1>2, <1>3

HandedOver(r, employee) ==
  r.op = "update" /\ "employee_id" \in DOMAIN r.values /\ r.values.employee_id = employee

\* A visit, or an attendance event, becomes somebody else's by being handed over.
LEMMA RowComes ==
  ASSUME TypeOK, NEW h \in Handlers, T!Write(h), T!Current(h), NEW r, r = handler[h].request,
         NEW u \in {"visits", "field_attendance_events"}, NEW i \in DOMAIN db'[u],
         NEW employee, employee = db'[u][i].employee_id, ~Owner(db, r, employee)
  PROVE  \/ i \in DOMAIN db[u] /\ db[u][i].employee_id = employee
         \/ HandedOver(r, employee)
<1>1. u \in FieldTables /\ u \in Theirs /\ u \notin VisitRecords /\ "employee_id" \in Columns[u]
  BY DEF Theirs, FieldTables, VisitRecords, Columns
<1>2. ~(r.table = u /\ r.op = "create" /\ db'[u][i] = r.values)
  BY <1>1, CurrentOwner
<1> QED
  BY <1>1, <1>2, RowsBefore DEF HandedOver

\* And a record by its visit.
LEMMA TheirRowComes ==
  ASSUME TypeOK, NEW h \in Handlers, T!Write(h), T!Current(h), NEW r, r = handler[h].request,
         NEW u \in Theirs, NEW i \in DOMAIN db'[u],
         NEW employee, employee = EmployeeOf(db', u, i), ~Owner(db, r, employee)
  PROVE  \/ i \in DOMAIN db[u] /\ EmployeeOf(db, u, i) = employee
         \/ HandedOver(r, employee)
<1>1. CASE u \notin VisitRecords
  BY <1>1, RowComes DEF Theirs, EmployeeOf
<1>2. CASE u \in VisitRecords
  <2>1. PICK v, visits : v = db'[u][i].visit_id /\ visits = "visits"
    OBVIOUS
  <2>2. v \in DOMAIN db'[visits]
    <3>1. PICK d : d = db'
      OBVIOUS
    <3>2. PICK t, c, new : t = r.table /\ c = handler[h] /\ new = lastId[t] + 1
      OBVIOUS
    <3>3. ReferencesHold(d, FieldForeignKeys) /\ RowsComplete(d, FieldRequired)
      BY <3>1, <3>2, WrittenRows
    <3>4. "visit_id" \in DOMAIN d[u][i]
      BY <1>2, <3>1, WrittenTables DEF Columns, FieldTables, VisitRecords
    <3> QED
      BY <1>2, <2>1, <3>1, <3>3, <3>4, RecordsHaveVisits
  <2>3. employee = db'[visits][v].employee_id
    BY <1>2, <2>1 DEF EmployeeOf
  <2>4. \/ v \in DOMAIN db[visits] /\ db[visits][v].employee_id = employee
        \/ HandedOver(r, employee)
    BY <2>1, <2>2, <2>3, RowComes
  <2>5. CASE v \in DOMAIN db[visits] /\ db[visits][v].employee_id = employee
    <3>1. \/ i \in DOMAIN db[u] /\ v = db[u][i].visit_id
          \/ r.op = "create" /\ r.table = u /\ v = r.values.visit_id
      BY <1>2, <2>1, RecordsKeepVisits
    <3>2. CASE i \in DOMAIN db[u] /\ v = db[u][i].visit_id
      BY <1>2, <2>1, <2>5, <3>2 DEF EmployeeOf
    <3>3. CASE r.op = "create" /\ r.table = u /\ v = r.values.visit_id
      <4>1. PICK t, id : t = r.table /\ id = r.id
        OBVIOUS
      <4>2. Owner(db, r, db[visits][v].employee_id)
        BY <1>2, <2>1, <3>3, <4>1, CurrentOwner
      <4> QED
        BY <2>5, <4>2
    <3> QED
      BY <3>1, <3>2, <3>3
  <2> QED
    BY <2>4, <2>5
<1> QED
  BY <1>1, <1>2

\* Nobody but an employee changes what is theirs, by a request that was not
\* overtaken: the lists of the others lose no row and show the same, and gain
\* only what is handed over to them.
THEOREM OthersAlwaysStand == Spec => OthersRecordsStand
<1>1. TypeOK /\ [Next]_vars =>
        [\A h \in Handlers : T!Writes(h) /\ T!Current(h) =>
           LET r == handler[h].request IN
           \A employee \in {e \in DOMAIN db["hr_employees"] : ~Owner(db, r, e)} :
             \A t \in VisitRecords \cup {"visits", "field_attendance_events"} :
               /\ \A id \in Listed(db, employee, t) :
                    id \in Listed(db', employee, t) /\ db'[t][id] = db[t][id]
               /\ \A id \in Listed(db', employee, t) \ Listed(db, employee, t) :
                    /\ r.op = "update" /\ "employee_id" \in DOMAIN r.values
                    /\ r.values.employee_id = employee]_vars
  <2> SUFFICES ASSUME TypeOK, Next, NEW h \in Handlers, T!Writes(h), T!Current(h),
                      NEW r, r = handler[h].request,
                      NEW employee, ~Owner(db, r, employee), NEW t \in Theirs
               PROVE  /\ \A id \in Listed(db, employee, t) :
                           id \in Listed(db', employee, t) /\ db'[t][id] = db[t][id]
                      /\ \A id \in Listed(db', employee, t) \ Listed(db, employee, t) :
                           HandedOver(r, employee)
    BY DEF Theirs, HandedOver, T!Writes, vars
  <2>1. T!Write(h)
    BY OnlyWrites DEF TypeOK
  <2>2. ASSUME NEW id \in Listed(db, employee, t)
        PROVE  id \in Listed(db', employee, t) /\ db'[t][id] = db[t][id]
    <3>1. id \in DOMAIN db[t] /\ EmployeeOf(db, t, id) = employee
      BY ListedByEmployee
    <3>2. /\ id \in DOMAIN db'[t] /\ db'[t][id] = db[t][id]
          /\ EmployeeOf(db', t, id) = employee
      BY <2>1, <3>1, TheirRowStays
    <3> QED
      BY <3>2, ListedByEmployee
  <2>3. ASSUME NEW id \in Listed(db', employee, t) \ Listed(db, employee, t)
        PROVE  HandedOver(r, employee)
    <3>1. id \in DOMAIN db'[t] /\ EmployeeOf(db', t, id) = employee
      BY ListedByEmployee
    <3>2. ~(id \in DOMAIN db[t] /\ EmployeeOf(db, t, id) = employee)
      BY ListedByEmployee
    <3> QED
      BY <2>1, <3>1, <3>2, TheirRowComes
  <2> QED
    BY <2>2, <2>3
<1> QED
  BY <1>1, FieldTypeCorrect, PTL DEF Spec, OthersRecordsStand

=============================================================================
