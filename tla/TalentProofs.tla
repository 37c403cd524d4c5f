---------------------------- MODULE TalentProofs ----------------------------
(***************************************************************************)
(* Whatever the database starts with, the number of handlers and what they *)
(* are asked: what an achievement measures is fixed, and no write that was *)
(* not overtaken leaves the funnel, rewrites a finalized review or is met  *)
(* by a constraint that its service did not check.                         *)
(***************************************************************************)
EXTENDS Talent, FiniteSetTheorems, TLAPS

-----------------------------------------------------------------------------
(* Statements *)

\* Transactions has the same tables: its definitions are those of Tables.
LEMMA SameTables ==
  ASSUME NEW d, NEW t, NEW id, NEW row, NEW values, NEW references, NEW keys, NEW required
  PROVE  /\ T!Stored(d, t, id, row) = Stored(d, t, id, row)
         /\ T!Removed(d, references, t, id) = Removed(d, references, t, id)
         /\ T!Patched(row, values) = Patched(row, values)
         /\ T!Dirty(row, values) = Dirty(row, values)
         /\ T!Exists(d, t, id) <=> Exists(d, t, id)
         /\ T!ReferencesHold(d, references) <=> ReferencesHold(d, references)
         /\ T!KeysHold(d, keys) <=> KeysHold(d, keys)
         /\ T!RowsComplete(d, required) <=> RowsComplete(d, required)
         /\ T!Complete(row, required) <=> Complete(row, required)
<1>1. T!Stored(d, t, id, row) = Stored(d, t, id, row)
  BY DEF T!Stored, Stored
<1>2. T!Removed(d, references, t, id) = Removed(d, references, t, id)
  BY DEF T!Removed, T!Dependents, Removed, Dependents
<1>3. T!Patched(row, values) = Patched(row, values) /\ T!Dirty(row, values) = Dirty(row, values)
  BY DEF T!Patched, Patched, T!Dirty, Dirty
<1>4. T!Exists(d, t, id) <=> Exists(d, t, id)
  BY DEF T!Exists, Exists
<1>5. T!ReferencesHold(d, references) <=> ReferencesHold(d, references)
  BY DEF T!ReferencesHold, ReferencesHold
<1>6. T!KeysHold(d, keys) <=> KeysHold(d, keys)
  BY DEF T!KeysHold, KeysHold, T!Taken, Taken
<1>7. T!Complete(row, required) <=> Complete(row, required)
  BY DEF T!Complete, Complete
<1>8. T!RowsComplete(d, required) <=> RowsComplete(d, required)
  BY DEF T!RowsComplete, RowsComplete, T!Complete, Complete
<1> QED
  BY <1>1, <1>2, <1>3, <1>4, <1>5, <1>6, <1>7, <1>8

\* The foreign keys, table by table.
LEMMA ForeignKeysByTable ==
  ASSUME NEW f \in TalentForeignKeys
  PROVE  /\ f.onDelete = "restrict"
         /\ \/ f.from = "job_requisitions" /\ f.column = "organization_id" /\ f.to = "organizations"
            \/ f.from = "job_requisitions" /\ f.column = "department_id" /\ f.to = "departments"
            \/ f.from = "job_requisitions" /\ f.column = "position_id" /\ f.to = "positions"
            \/ f.from = "applications" /\ f.column = "candidate_id" /\ f.to = "candidates"
            \/ /\ f.from = "applications" /\ f.column = "job_requisition_id"
               /\ f.to = "job_requisitions"
            \/ /\ f.from \in {"interviews", "offers"}
               /\ f.column = "application_id" /\ f.to = "applications"
            \/ /\ f.from \in {"performance_reviews", "targets"}
               /\ f.column = "employee_id" /\ f.to = "hr_employees"
            \/ f.from = "targets" /\ f.column = "kpi_id" /\ f.to = "kpis"
            \/ f.from = "achievements" /\ f.column = "target_id" /\ f.to = "targets"
<1>1. \A from, columns, to, onDelete : \A g \in References(from, columns, to, onDelete) :
        g.from = from /\ g.column \in columns /\ g.to = to /\ g.onDelete = onDelete
  BY DEF References, Reference
<1> QED
  BY <1>1 DEF TalentForeignKeys, JobRequisitionKeys, ApplicationKeys, InterviewKeys,
       OfferKeys, ReviewKeys, TargetKeys, AchievementKeys

\* The unique keys, table by table.
LEMMA UniqueKeysByTable ==
  ASSUME NEW k \in TalentUniqueKeys
  PROVE  \/ k.table = "candidates" /\ k.columns = {"email"}
         \/ k.table \in {"job_requisitions", "kpis"} /\ k.columns = {"code"}
         \/ k.table = "applications" /\ k.columns = ApplicationPair
         \/ k.table = "targets" /\ k.columns = TargetIdentity
         \/ k.table = "achievements" /\ k.columns = {"target_id"}
BY DEF TalentUniqueKeys, Unique

\* Every key is of a table, and names columns that the table's rows have.
LEMMA KeysOfTables ==
  /\ \A f \in TalentForeignKeys :
       f.from \in TalentTables /\ f.to \in TalentTables /\ f.column \in Columns[f.from]
  /\ \A k \in TalentUniqueKeys : k.table \in TalentTables /\ k.columns \subseteq Columns[k.table]
<1>1. \A f \in TalentForeignKeys : f.from \in TalentTables /\ f.to \in TalentTables
  BY ForeignKeysByTable DEF TalentTables
<1>2. \A f \in TalentForeignKeys : f.column \in Columns[f.from]
  BY ForeignKeysByTable DEF Columns, ApplicationPair, TargetIdentity
<1>3. \A k \in TalentUniqueKeys : k.table \in TalentTables
  BY UniqueKeysByTable DEF TalentTables
<1>4. \A k \in TalentUniqueKeys : k.columns \subseteq Columns[k.table]
  BY UniqueKeysByTable DEF Columns, ApplicationPair, TargetIdentity
<1> QED
  BY <1>1, <1>2, <1>3, <1>4

\* The tables that requests are about, and what may be done to them.
LEMMA RequestTables ==
  ASSUME NEW r \in Requests, NEW t, t = r.table
  PROVE  /\ t \in {"candidates", "job_requisitions", "applications", "interviews", "offers",
                   "performance_reviews", "kpis", "targets", "achievements"}
         /\ t \in TalentTables
         /\ r.op \in {"create", "update", "delete", "transition", "finalize"}
         /\ r.op = "transition" => t = "applications"
         /\ r.op = "finalize" => t = "performance_reviews"
BY RequestAssumption DEF Operations, UpdateColumns, TalentTables

\* Every row but one is as it was.
OthersStay(d, after, t, id) ==
  /\ after = [u \in TalentTables |-> after[u]]
  /\ \A u \in TalentTables \ {t} : DOMAIN after[u] = DOMAIN d[u]
  /\ DOMAIN after[t] \ {id} = DOMAIN d[t] \ {id}
  /\ \A u \in TalentTables : \A i \in DOMAIN d[u] :
       u # t \/ i # id => after[u][i] = d[u][i]

LEMMA StoredStays ==
  ASSUME NEW d, DOMAIN d = TalentTables, NEW t \in TalentTables, NEW id, NEW row
  PROVE  /\ OthersStay(d, Stored(d, t, id, row), t, id)
         /\ DOMAIN Stored(d, t, id, row)[t] = DOMAIN d[t] \cup {id}
         /\ Stored(d, t, id, row)[t][id] = row
BY DEF Stored, OthersStay

\* No row goes with another: all references restrict.
LEMMA RemovedStays ==
  ASSUME NEW d, DOMAIN d = TalentTables, NEW t \in TalentTables, NEW id,
         \A u \in TalentTables : \A i \in DOMAIN d[u] : IsRow(d[u][i])
  PROVE  /\ OthersStay(d, Removed(d, TalentForeignKeys, t, id), t, id)
         /\ DOMAIN Removed(d, TalentForeignKeys, t, id)[t] = DOMAIN d[t] \ {id}
<1> DEFINE after == Removed(d, TalentForeignKeys, t, id)
<1>1. \A f \in TalentForeignKeys : f.onDelete # "cascade" /\ f.onDelete # "set null"
  BY ForeignKeysByTable
<1>2. \A u : Dependents(d, TalentForeignKeys, t, id, u, "cascade") = {}
  BY <1>1 DEF Dependents
<1>3. after = [u \in TalentTables |-> after[u]]
  BY DEF Removed
<1>4. \A u \in TalentTables : DOMAIN after[u] = DOMAIN d[u] \ (IF u = t THEN {id} ELSE {})
  BY <1>2 DEF Removed
<1>5. \A u \in TalentTables : \A i \in DOMAIN after[u] :
        after[u][i] = [c \in DOMAIN d[u][i] |-> d[u][i][c]]
  BY <1>1, <1>4 DEF Removed
<1>6. \A u \in TalentTables : \A i \in DOMAIN after[u] : after[u][i] = d[u][i]
  BY <1>4, <1>5 DEF IsRow
<1> QED
  BY <1>3, <1>4, <1>6 DEF OthersStay

\* The write of a request: one row of its table, and no constraint broken.
LEMMA WrittenRows ==
  ASSUME TypeOK, NEW h \in Handlers, T!Write(h),
         NEW r, r = handler[h].request, NEW c, c = handler[h],
         NEW t, t = r.table, NEW new, new = lastId[t] + 1
  PROVE  /\ T!Inserts(r) =>
              /\ OthersStay(db, db', t, new) /\ new \notin DOMAIN db[t]
              /\ DOMAIN db'[t] = DOMAIN db[t] \cup {new} /\ db'[t][new] = c.values
              /\ lastId' = [lastId EXCEPT ![t] = new]
         /\ ~T!Inserts(r) => r.id \in DOMAIN db[t] /\ lastId' = lastId
         /\ T!Deletes(r) =>
              OthersStay(db, db', t, r.id) /\ DOMAIN db'[t] = DOMAIN db[t] \ {r.id}
         /\ ~T!Inserts(r) /\ ~T!Deletes(r) =>
              /\ OthersStay(db, db', t, r.id) /\ DOMAIN db'[t] = DOMAIN db[t]
              /\ db'[t][r.id] = Patched(db[t][r.id], Dirty(c.loaded, c.values))
         /\ ReferencesHold(db', TalentForeignKeys)
         /\ KeysHold(db', TalentUniqueKeys)
         /\ RowsComplete(db', TalentRequired)
<1>1. /\ T!Accepted(db, c, new) /\ db' = T!Flushed(db, c, new)
      /\ lastId' = IF T!Inserts(r) THEN [lastId EXCEPT ![t] = @ + 1] ELSE lastId
      /\ c.request = r
  BY DEF T!Write, T!NextId
<1>2. /\ t \in TalentTables /\ DOMAIN db = TalentTables
      /\ lastId[t] \in Nat /\ DOMAIN db[t] \subseteq 1 .. lastId[t]
      /\ \A u \in TalentTables : \A i \in DOMAIN db[u] : IsRow(db[u][i])
  BY RequestTables DEF T!Write, TypeOK
<1>3. ~(T!Inserts(r) /\ T!Deletes(r))
  BY DEF T!Inserts, T!Deletes
<1>4. ASSUME T!Inserts(r)
      PROVE  /\ OthersStay(db, db', t, new) /\ new \notin DOMAIN db[t]
             /\ DOMAIN db'[t] = DOMAIN db[t] \cup {new} /\ db'[t][new] = c.values
             /\ lastId' = [lastId EXCEPT ![t] = new]
  <2> DEFINE row == c.values
             id == new
  <2>1. db' = Stored(db, t, id, row)
    BY <1>1, <1>4, SameTables DEF T!Flushed
  <2>2. id \notin DOMAIN db[t]
    BY <1>2
  <2>3. lastId' = [lastId EXCEPT ![t] = id]
    BY <1>1, <1>4
  <2> HIDE DEF row, id
  <2>4. OthersStay(db, db', t, id) /\ DOMAIN db'[t] = DOMAIN db[t] \cup {id} /\ db'[t][id] = row
    BY <1>2, <2>1, StoredStays
  <2> QED
    BY <2>2, <2>3, <2>4 DEF row, id
<1>5. ASSUME ~T!Inserts(r) PROVE r.id \in DOMAIN db[t] /\ lastId' = lastId
  BY <1>1, <1>5, SameTables DEF T!Accepted, Exists
<1>6. ASSUME T!Deletes(r)
      PROVE  OthersStay(db, db', t, r.id) /\ DOMAIN db'[t] = DOMAIN db[t] \ {r.id}
  <2>1. db' = Removed(db, TalentForeignKeys, t, r.id)
    BY <1>1, <1>3, <1>6, SameTables DEF T!Flushed
  <2> QED
    BY <1>2, <2>1, RemovedStays
<1>7. ASSUME ~T!Inserts(r), ~T!Deletes(r)
      PROVE  /\ OthersStay(db, db', t, r.id) /\ DOMAIN db'[t] = DOMAIN db[t]
             /\ db'[t][r.id] = Patched(db[t][r.id], Dirty(c.loaded, c.values))
  <2> DEFINE row == Patched(db[t][r.id], Dirty(c.loaded, c.values))
             id == r.id
  <2>1. db' = T!Stored(db, t, id, T!Patched(db[t][id], T!Dirty(c.loaded, c.values)))
    BY <1>1, <1>7 DEF T!Flushed
  <2>2. db' = Stored(db, t, id, row)
    BY <2>1, SameTables
  <2>3. id \in DOMAIN db[t]
    BY <1>5, <1>7
  <2> HIDE DEF row, id
  <2>4. OthersStay(db, db', t, id) /\ DOMAIN db'[t] = DOMAIN db[t] \cup {id} /\ db'[t][id] = row
    BY <1>2, <2>2, StoredStays
  <2>5. DOMAIN db'[t] = DOMAIN db[t]
    BY <2>3, <2>4
  <2> QED
    BY <2>4, <2>5 DEF row, id
<1>8. /\ ReferencesHold(db', TalentForeignKeys) /\ KeysHold(db', TalentUniqueKeys)
      /\ RowsComplete(db', TalentRequired)
  BY <1>1, SameTables DEF T!Accepted
<1> QED
  BY <1>4, <1>5, <1>6, <1>7, <1>8

\* A deletion takes its own row, and no other goes with it.
LEMMA DeletedRow ==
  ASSUME TypeOK, NEW h \in Handlers, T!Write(h), NEW r, r = handler[h].request,
         NEW t, t = r.table, T!Deletes(r)
  PROVE  OthersStay(db, db', t, r.id) /\ DOMAIN db'[t] = DOMAIN db[t] \ {r.id} /\ lastId' = lastId
<1>1. ~T!Inserts(r)
  BY DEF T!Inserts, T!Deletes
<1>2. OthersStay(db, db', t, r.id)
  BY WrittenRows
<1>3. DOMAIN db'[t] = DOMAIN db[t] \ {r.id}
  BY WrittenRows
<1>4. lastId' = lastId
  BY <1>1, WrittenRows
<1> QED
  BY <1>2, <1>3, <1>4

-----------------------------------------------------------------------------
(* What a checked request writes *)

\* What a service assigns depends on the request alone.
LEMMA AssignedAlone ==
  ASSUME NEW r, NEW d, NEW e
  PROVE  TalentAssigned(d, r) = TalentAssigned(e, r)
BY DEF TalentAssigned

\* The rows that are inserted: what was sent, and the first status.
LEMMA InsertedRows ==
  ASSUME NEW d, NEW r \in Requests, T!Inserts(r), NEW t, t = r.table,
         NEW row, row = TalentAssigned(d, r)
  PROVE  /\ r.op = "create" /\ IsRow(row) /\ Columns[t] \subseteq DOMAIN row
         /\ \A k \in Columns[t] \ {"status"} : k \in DOMAIN r.values /\ row[k] = r.values[k]
         /\ t = "applications" => row.status = "applied"
<1>1. r.op = "create"
  BY RequestTables DEF T!Inserts
<1>2. IsRow(r.values) /\ Columns[t] \ {"status"} \subseteq DOMAIN r.values
  BY <1>1, RequestAssumption
<1>3. CASE t = "applications"
  <2>1. row = Patched(r.values, [status |-> "applied"])
    BY <1>1, <1>3 DEF TalentAssigned
  <2> QED
    BY <1>1, <1>2, <2>1 DEF Patched, IsRow
<1>4. CASE t = "performance_reviews"
  <2>1. row = Patched(r.values, [status |-> "draft"])
    BY <1>1, <1>4 DEF TalentAssigned
  <2> QED
    BY <1>1, <1>2, <1>4, <2>1 DEF Patched, IsRow
<1>5. CASE t \notin {"applications", "performance_reviews"}
  <2>1. row = r.values
    BY <1>1, <1>5 DEF TalentAssigned
  <2>2. "status" \notin Columns[t]
    BY <1>5, RequestTables DEF Columns, TargetIdentity
  <2> QED
    BY <1>1, <1>2, <1>5, <2>1, <2>2
<1> QED
  BY <1>3, <1>4, <1>5

\* The columns that an update assigns, and those of a new status.
LEMMA UpdatedColumns ==
  ASSUME NEW d, NEW r \in Requests, ~T!Inserts(r), ~T!Deletes(r),
         NEW v, v = TalentAssigned(d, r)
  PROVE  \/ /\ r.op = "update" /\ v = Sent(r)
            /\ DOMAIN v = DOMAIN r.values \cap UpdateColumns[r.table]
         \/ /\ r.op = "transition" /\ r.table = "applications" /\ v = r.values
            /\ DOMAIN v = {"status"} /\ v.status \in DOMAIN ValidTransitions
         \/ /\ r.op = "finalize" /\ r.table = "performance_reviews"
            /\ v = [status |-> "finalized"]
<1>1. r.op \in {"update", "transition", "finalize"}
  BY RequestTables DEF T!Inserts, T!Deletes
<1>2. CASE r.op = "update"
  BY <1>2 DEF TalentAssigned, Sent
<1>3. CASE r.op = "transition"
  BY <1>3, RequestTables, RequestAssumption DEF TalentAssigned
<1>4. CASE r.op = "finalize"
  BY <1>4, RequestTables DEF TalentAssigned
<1> QED
  BY <1>1, <1>2, <1>3, <1>4

\* An update changes no column but those it sends of its schema; a transition
\* and the end of a review change the status.
MayChange(r, column, value) ==
  \/ r.op = "update" /\ column \in UpdateColumns[r.table] \cap DOMAIN r.values
  \/ /\ r.op = "transition" /\ r.table = "applications" /\ column = "status"
     /\ value \in DOMAIN ValidTransitions
  \/ r.op = "finalize" /\ r.table = "performance_reviews" /\ column = "status"

LEMMA PatchedColumns ==
  ASSUME NEW row, NEW loaded, NEW v, NEW k \in DOMAIN row,
         NEW after, after = Patched(row, Dirty(loaded, v))
  PROVE  after[k] = row[k] \/ (k \in DOMAIN v /\ after[k] = v[k])
BY DEF Patched, Dirty

LEMMA ChangedColumns ==
  ASSUME TypeOK, NEW h \in Handlers, T!Write(h), NEW r, r = handler[h].request,
         ~T!Inserts(r), ~T!Deletes(r), NEW t, t = r.table
  PROVE  /\ OthersStay(db, db', t, r.id) /\ DOMAIN db'[t] = DOMAIN db[t] /\ r.id \in DOMAIN db[t]
         /\ \A k \in Columns[t] :
              db'[t][r.id][k] = db[t][r.id][k] \/ MayChange(r, k, db'[t][r.id][k])
<1> DEFINE c == handler[h]
           v == c.values
           id == r.id
           old == db[t][id]
           row == db'[t][id]
<1>1. r \in Requests /\ t \in TalentTables /\ v = TalentAssigned(db, r)
  BY RequestTables DEF T!Write, TypeOK
<1>2. /\ OthersStay(db, db', t, id) /\ DOMAIN db'[t] = DOMAIN db[t] /\ id \in DOMAIN db[t]
      /\ row = Patched(old, Dirty(c.loaded, v))
  BY WrittenRows
<1>3. Columns[t] \subseteq DOMAIN old
  BY <1>1, <1>2 DEF TypeOK
<1> HIDE DEF row, old, v
<1>4. \A k \in Columns[t] : row[k] = old[k] \/ (k \in DOMAIN v /\ row[k] = v[k])
  BY <1>2, <1>3, PatchedColumns
<1>5. \/ r.op = "update" /\ DOMAIN v = DOMAIN r.values \cap UpdateColumns[t]
      \/ /\ r.op = "transition" /\ t = "applications"
         /\ DOMAIN v = {"status"} /\ v.status \in DOMAIN ValidTransitions
      \/ /\ r.op = "finalize" /\ t = "performance_reviews" /\ DOMAIN v = {"status"}
  BY <1>1, UpdatedColumns
<1>6. \A k \in Columns[t] : row[k] = old[k] \/ MayChange(r, k, row[k])
  BY <1>4, <1>5 DEF MayChange
<1> QED
  BY <1>2, <1>6 DEF row, old

-----------------------------------------------------------------------------
(* The types *)

\* Every row has the columns of its table, and an id that was given out.
LEMMA WrittenTables ==
  ASSUME TypeOK, NEW h \in Handlers, T!Write(h)
  PROVE  /\ db' = [t \in TalentTables |-> db'[t]]
         /\ lastId' \in [TalentTables -> Nat]
         /\ \A t \in TalentTables : DOMAIN db'[t] \subseteq 1 .. lastId'[t]
         /\ \A t \in TalentTables : \A id \in DOMAIN db'[t] :
              IsRow(db'[t][id]) /\ Columns[t] \subseteq DOMAIN db'[t][id]
<1> DEFINE r == handler[h].request
           c == handler[h]
           t == r.table
           new == lastId[t] + 1
<1>1. /\ r \in Requests /\ c.values = TalentAssigned(db, r) /\ t \in TalentTables
      /\ lastId \in [TalentTables -> Nat] /\ lastId[t] \in Nat
      /\ \A u \in TalentTables : DOMAIN db[u] \subseteq 1 .. lastId[u]
      /\ \A u \in TalentTables : \A i \in DOMAIN db[u] :
           IsRow(db[u][i]) /\ Columns[u] \subseteq DOMAIN db[u][i]
  BY RequestTables DEF T!Write, TypeOK
<1>2. CASE T!Inserts(r)
  <2>1. /\ OthersStay(db, db', t, new)
        /\ DOMAIN db'[t] = DOMAIN db[t] \cup {new} /\ db'[t][new] = c.values
        /\ lastId' = [lastId EXCEPT ![t] = new]
    BY <1>2, WrittenRows
  <2>2. IsRow(c.values) /\ Columns[t] \subseteq DOMAIN c.values
    BY <1>1, <1>2, InsertedRows
  <2>3. \A u \in TalentTables : DOMAIN db'[u] \subseteq 1 .. lastId'[u]
    BY <1>1, <2>1 DEF OthersStay
  <2>4. lastId' \in [TalentTables -> Nat]
    BY <1>1, <2>1
  <2> HIDE DEF new
  <2>5. ASSUME NEW u \in TalentTables, NEW i \in DOMAIN db'[u]
        PROVE  IsRow(db'[u][i]) /\ Columns[u] \subseteq DOMAIN db'[u][i]
    <3>1. CASE u = t /\ i = new
      BY <2>1, <2>2, <3>1
    <3>2. CASE ~(u = t /\ i = new)
      BY <1>1, <2>1, <3>2 DEF OthersStay
    <3> QED
      BY <3>1, <3>2
  <2> QED
    BY <2>1, <2>3, <2>4, <2>5 DEF OthersStay
<1>3. CASE T!Deletes(r)
  <2>1. OthersStay(db, db', t, r.id) /\ DOMAIN db'[t] = DOMAIN db[t] \ {r.id} /\ lastId' = lastId
    BY <1>3, DeletedRow
  <2> QED
    BY <1>1, <2>1 DEF OthersStay
<1>4. CASE ~T!Inserts(r) /\ ~T!Deletes(r)
  <2> DEFINE row == Patched(db[t][r.id], Dirty(c.loaded, c.values))
             id == r.id
  <2>1. /\ OthersStay(db, db', t, id) /\ DOMAIN db'[t] = DOMAIN db[t] /\ lastId' = lastId
        /\ db'[t][id] = row /\ id \in DOMAIN db[t]
    BY <1>4, WrittenRows
  <2>2. IsRow(row) /\ DOMAIN db[t][id] \subseteq DOMAIN row
    BY DEF Patched, IsRow
  <2> HIDE DEF row, id
  <2>3. ASSUME NEW u \in TalentTables, NEW i \in DOMAIN db'[u]
        PROVE  IsRow(db'[u][i]) /\ Columns[u] \subseteq DOMAIN db'[u][i]
    <3>1. CASE u = t /\ i = id
      BY <1>1, <2>1, <2>2, <3>1
    <3>2. CASE ~(u = t /\ i = id)
      BY <1>1, <2>1, <3>2 DEF OthersStay
    <3> QED
      BY <3>1, <3>2
  <2> QED
    BY <1>1, <2>1, <2>3 DEF OthersStay
<1> QED
  BY <1>2, <1>3, <1>4

\* Every status is one of the funnel's.
LEMMA RowsStaySound ==
  ASSUME TypeOK, NEW h \in Handlers, T!Write(h)
  PROVE  RowsAreSound(db')
<1> DEFINE r == handler[h].request
           c == handler[h]
           t == r.table
           new == lastId[t] + 1
           apps == "applications"
           Sound(row) == row.status \in DOMAIN ValidTransitions
<1>1. /\ r \in Requests /\ c.values = TalentAssigned(db, r) /\ t \in TalentTables
      /\ apps \in TalentTables /\ \A i \in DOMAIN db[apps] : Sound(db[apps][i])
  BY RequestTables DEF T!Write, TypeOK, RowsAreSound, TalentTables
<1>2. SUFFICES ASSUME NEW i \in DOMAIN db'[apps] PROVE Sound(db'[apps][i])
  BY DEF RowsAreSound
<1>3. CASE i \in DOMAIN db[apps] /\ db'[apps][i] = db[apps][i]
  BY <1>1, <1>3
<1>4. CASE apps # t
  <2>1. \E id : OthersStay(db, db', t, id)
    BY WrittenRows
  <2> QED
    BY <1>1, <1>3, <1>4, <2>1 DEF OthersStay
<1>5. CASE apps = t /\ T!Inserts(r)
  <2>1. /\ OthersStay(db, db', t, new) /\ DOMAIN db'[t] = DOMAIN db[t] \cup {new}
        /\ db'[t][new] = c.values
    BY <1>5, WrittenRows
  <2>2. Sound(c.values)
    BY <1>1, <1>5, InsertedRows DEF ValidTransitions
  <2> HIDE DEF new, Sound
  <2> QED
    BY <1>1, <1>3, <1>5, <2>1, <2>2 DEF OthersStay
<1>6. CASE apps = t /\ T!Deletes(r)
  <2>1. OthersStay(db, db', t, r.id) /\ DOMAIN db'[t] = DOMAIN db[t] \ {r.id}
    BY <1>6, DeletedRow
  <2> QED
    BY <1>1, <1>3, <1>6, <2>1 DEF OthersStay
<1>7. CASE apps = t /\ ~T!Inserts(r) /\ ~T!Deletes(r)
  <2>1. /\ OthersStay(db, db', t, r.id) /\ DOMAIN db'[t] = DOMAIN db[t]
        /\ \A k \in Columns[t] :
             db'[t][r.id][k] = db[t][r.id][k] \/ MayChange(r, k, db'[t][r.id][k])
    BY <1>7, ChangedColumns
  <2>2. CASE i # r.id
    BY <1>1, <1>3, <1>7, <2>1, <2>2 DEF OthersStay
  <2>3. CASE i = r.id
    <3>1. "status" \in Columns[t] /\ "status" \notin UpdateColumns[t]
      BY <1>7 DEF Columns, UpdateColumns, ApplicationPair
    <3>2. db'[t][r.id].status = db[t][r.id].status \/ db'[t][r.id].status \in DOMAIN ValidTransitions
      BY <1>7, <2>1, <3>1 DEF MayChange
    <3> QED
      BY <1>1, <1>7, <2>1, <2>3, <3>2
  <2> QED
    BY <2>2, <2>3
<1> QED
  BY <1>4, <1>5, <1>6, <1>7

LEMMA TalentTypeStep == TypeOK /\ [Next]_vars => TypeOK'
<1> SUFFICES ASSUME TypeOK, [Next]_vars PROVE TypeOK'
  OBVIOUS
<1> DEFINE Asked(g, k) == k[g].at # "idle" => k[g].request \in Requests
           Ready(g, k, d) == k[g].at = "checked" => k[g].values = TalentAssigned(d, k[g].request)
<1>1. ASSUME NEW h \in Handlers, NEW r \in Requests, T!Enter(h, r) PROVE TypeOK'
  <2>1. /\ handler' = [handler EXCEPT ![h] = [at |-> "entered", request |-> r]]
        /\ db' = db /\ lastId' = lastId
    BY <1>1 DEF T!Enter
  <2>2. \A g \in Handlers : Asked(g, handler') /\ Ready(g, handler', db')
    BY <2>1 DEF TypeOK
  <2> QED
    BY <2>1, <2>2 DEF TypeOK
<1>2. ASSUME NEW h \in Handlers, T!Check(h) PROVE TypeOK'
  <2> DEFINE r == handler[h].request
             c == [at |-> "checked", request |-> r, values |-> TalentAssigned(db, r),
                   loaded |-> IF r.op = "create" THEN T!NoRow ELSE db[r.table][r.id]]
  <2>1. /\ handler' = [handler EXCEPT ![h] = c] /\ handler[h].at = "entered"
        /\ db' = db /\ lastId' = lastId
    BY <1>2 DEF T!Check
  <2>2. c.request = r /\ c.values = TalentAssigned(db, r)
    OBVIOUS
  <2>3. r \in Requests
    BY <2>1 DEF TypeOK
  <2> HIDE DEF c
  <2>4. \A g \in Handlers : Asked(g, handler') /\ Ready(g, handler', db)
    BY <2>1, <2>2, <2>3 DEF TypeOK
  <2> QED
    BY <2>1, <2>4 DEF TypeOK
<1>3. ASSUME NEW h \in Handlers, T!Refuse(h) \/ T!Fail(h) PROVE TypeOK'
  <2>1. handler' = [handler EXCEPT ![h] = T!Idle] /\ db' = db /\ lastId' = lastId
    BY <1>3 DEF T!Refuse, T!Fail
  <2>2. \A g \in Handlers : Asked(g, handler') /\ Ready(g, handler', db)
    BY <2>1 DEF TypeOK, T!Idle
  <2> QED
    BY <2>1, <2>2 DEF TypeOK
<1>4. ASSUME NEW h \in Handlers, T!Write(h) PROVE TypeOK'
  <2>1. /\ ReferencesHold(db', TalentForeignKeys) /\ KeysHold(db', TalentUniqueKeys)
        /\ RowsComplete(db', TalentRequired)
    BY <1>4, WrittenRows
  <2>2. handler' = [handler EXCEPT ![h] = T!Idle]
    BY <1>4 DEF T!Write
  <2>3. \A g \in Handlers : Asked(g, handler') /\ Ready(g, handler', db)
    BY <2>2 DEF TypeOK, T!Idle
  <2>4. \A g \in Handlers : Ready(g, handler', db')
    BY <2>3, AssignedAlone
  <2>5. RowsAreSound(db')
    BY <1>4, RowsStaySound
  <2>6. DOMAIN handler' = Handlers
    BY <2>2 DEF TypeOK
  <2> QED
    BY <1>4, <2>1, <2>3, <2>4, <2>5, <2>6, WrittenTables DEF TypeOK
<1>5. CASE UNCHANGED vars
  BY <1>5 DEF vars, TypeOK
<1> QED
  BY <1>1, <1>2, <1>3, <1>4, <1>5 DEF Next, T!Next, T!Step

\* The tables stay sound and what a handler is about to write is its own,
\* whatever the database starts with and however the requests interleave.
THEOREM TalentTypeCorrect == Spec => []TypeOK
<1>1. Init => TypeOK
  <2> SUFFICES ASSUME Init PROVE TypeOK
    OBVIOUS
  <2>1. /\ db = Database /\ lastId = [t \in TalentTables |-> Cardinality(DOMAIN Database[t])]
        /\ handler = [h \in Handlers |-> T!Idle]
    <3>1. DOMAIN Database = TalentTables
      BY DatabaseAssumption
    <3>2. \A S : T!Cardinality(S) = Cardinality(S)
      BY DEF T!Cardinality, Cardinality
    <3>3. /\ db = Database /\ lastId = [t \in DOMAIN Database |-> Cardinality(DOMAIN Database[t])]
          /\ handler = [h \in Handlers |-> T!Idle]
      BY <3>2 DEF Init, T!StartWith
    <3> QED
      BY <3>1, <3>3, Zenon
  <2>2. ASSUME NEW t \in TalentTables
        PROVE  lastId[t] \in Nat /\ DOMAIN db[t] = 1 .. lastId[t]
    BY <2>1, FS_CardinalityType, DatabaseAssumption
  <2> QED
    BY <2>1, <2>2, DatabaseAssumption DEF TypeOK, T!Idle
<1> QED
  BY <1>1, TalentTypeStep, PTL DEF Spec

-----------------------------------------------------------------------------
(* What achievements measure *)

\* A row goes only with a deletion of its own.
LEMMA RowsGo ==
  ASSUME TypeOK, NEW h \in Handlers, T!Write(h), NEW r, r = handler[h].request,
         NEW u \in TalentTables, NEW i \in DOMAIN db[u], i \notin DOMAIN db'[u]
  PROVE  r.op = "delete" /\ r.table = u /\ r.id = i
<1> DEFINE t == r.table
           new == lastId[t] + 1
<1>1. CASE T!Inserts(r)
  <2>1. OthersStay(db, db', t, new) /\ DOMAIN db'[t] = DOMAIN db[t] \cup {new}
    BY <1>1, WrittenRows
  <2> QED
    BY <2>1 DEF OthersStay
<1>2. CASE T!Deletes(r)
  <2>1. OthersStay(db, db', t, r.id) /\ DOMAIN db'[t] = DOMAIN db[t] \ {r.id}
    BY <1>2, DeletedRow
  <2> QED
    BY <1>2, <2>1 DEF OthersStay, T!Deletes
<1>3. CASE ~T!Inserts(r) /\ ~T!Deletes(r)
  <2>1. OthersStay(db, db', t, r.id) /\ DOMAIN db'[t] = DOMAIN db[t]
    BY <1>3, ChangedColumns
  <2> QED
    BY <2>1 DEF OthersStay
<1> QED
  BY <1>1, <1>2, <1>3

\* A column that no update may send and that is no status is there for good.
LEMMA ColumnsKept ==
  ASSUME TypeOK, NEW h \in Handlers, T!Write(h), NEW u \in {"targets", "achievements"},
         NEW i \in DOMAIN db[u], i \in DOMAIN db'[u], NEW k \in Columns[u] \ UpdateColumns[u]
  PROVE  db'[u][i][k] = db[u][i][k]
<1> DEFINE r == handler[h].request
           t == r.table
           new == lastId[t] + 1
<1>1. u \in TalentTables /\ k # "status"
  BY DEF TalentTables, Columns, TargetIdentity
<1>2. CASE T!Inserts(r)
  <2>1. OthersStay(db, db', t, new) /\ new \notin DOMAIN db[t]
    BY <1>2, WrittenRows
  <2> HIDE DEF new
  <2> QED
    BY <1>1, <2>1 DEF OthersStay
<1>3. CASE T!Deletes(r)
  <2>1. OthersStay(db, db', t, r.id) /\ DOMAIN db'[t] = DOMAIN db[t] \ {r.id}
    BY <1>3, DeletedRow
  <2> QED
    BY <1>1, <2>1 DEF OthersStay
<1>4. CASE ~T!Inserts(r) /\ ~T!Deletes(r)
  <2>1. /\ OthersStay(db, db', t, r.id)
        /\ \A c \in Columns[t] :
             db'[t][r.id][c] = db[t][r.id][c] \/ MayChange(r, c, db'[t][r.id][c])
    BY <1>4, ChangedColumns
  <2>2. CASE u = t /\ i = r.id
    BY <1>1, <2>1, <2>2 DEF MayChange
  <2>3. CASE ~(u = t /\ i = r.id)
    BY <1>1, <2>1, <2>3 DEF OthersStay
  <2> QED
    BY <2>2, <2>3
<1> QED
  BY <1>2, <1>3, <1>4

\* An achievement that stays keeps its target, and the target what identifies it.
LEMMA TargetKept ==
  ASSUME TypeOK, NEW h \in Handlers, T!Write(h), NEW a \in DOMAIN db["achievements"],
         a \in DOMAIN db'["achievements"], NEW target, target = db["achievements"][a].target_id
  PROVE  /\ db'["achievements"][a].target_id = target
         /\ \A c \in TargetIdentity : db'["targets"][target][c] = db["targets"][target][c]
<1>1. "target_id" \in Columns["achievements"] \ UpdateColumns["achievements"]
  BY DEF Columns, UpdateColumns
<1>2. db'["achievements"][a].target_id = target
  BY <1>1, ColumnsKept
<1>3. Reference("achievements", "target_id", "targets", "restrict") \in TalentForeignKeys
  BY DEF TalentForeignKeys, AchievementKeys, References
<1>4. target # Null
  <2>1. /\ "achievements" \in DOMAIN TalentRequired /\ "achievements" \in TalentTables
        /\ "target_id" \in TalentRequired["achievements"]
    BY DEF TalentRequired, TalentTables
  <2>2. "target_id" \in DOMAIN db["achievements"][a]
    BY <2>1 DEF TypeOK, Columns
  <2> QED
    BY <2>1, <2>2 DEF TypeOK, RowsComplete, Complete
<1>5. target \in DOMAIN db["targets"]
  BY <1>3, <1>4 DEF TypeOK, ReferencesHold, Reference
<1>6. target \in DOMAIN db'["targets"]
  <2>1. ReferencesHold(db', TalentForeignKeys)
    BY WrittenRows
  <2> QED
    BY <1>2, <1>3, <1>4, <2>1 DEF ReferencesHold, Reference
<1>7. TargetIdentity \subseteq Columns["targets"] \ UpdateColumns["targets"]
  BY DEF Columns, UpdateColumns, TargetIdentity
<1> QED
  BY <1>2, <1>5, <1>6, <1>7, ColumnsKept

\* Whom and what an achievement measures is fixed until it is deleted, however
\* many handlers there are: its target cannot go while it is there, and no
\* update sends what identifies a target.
THEOREM MeasuredAlwaysStands == Spec => MeasuredStands
<1>1. TypeOK /\ [Next]_vars =>
        [\A a \in DOMAIN db["achievements"] :
           LET target == db["achievements"][a].target_id IN
           \/ /\ a \in DOMAIN db'["achievements"]
              /\ db'["achievements"][a].target_id = target
              /\ \A c \in TargetIdentity : db'["targets"][target][c] = db["targets"][target][c]
           \/ \E h \in Handlers :
                /\ T!Writes(h) /\ handler[h].request.op = "delete"
                /\ handler[h].request.table = "achievements" /\ handler[h].request.id = a]_vars
  <2> SUFFICES ASSUME TypeOK, Next, NEW a \in DOMAIN db["achievements"],
                      NEW target, target = db["achievements"][a].target_id
               PROVE  \/ /\ a \in DOMAIN db'["achievements"]
                         /\ db'["achievements"][a].target_id = target
                         /\ \A c \in TargetIdentity :
                              db'["targets"][target][c] = db["targets"][target][c]
                      \/ \E h \in Handlers :
                           /\ T!Writes(h) /\ handler[h].request.op = "delete"
                           /\ handler[h].request.table = "achievements"
                           /\ handler[h].request.id = a
    OBVIOUS
  <2>1. ASSUME NEW h \in Handlers, T!Write(h), a \notin DOMAIN db'["achievements"]
        PROVE  /\ T!Writes(h) /\ handler[h].request.op = "delete"
               /\ handler[h].request.table = "achievements" /\ handler[h].request.id = a
    <3>1. /\ handler[h].request.op = "delete" /\ handler[h].request.table = "achievements"
          /\ handler[h].request.id = a
      BY <2>1, RowsGo DEF TalentTables
    <3>2. T!Writes(h)
      BY <2>1 DEF T!Write, T!Writes, T!Idle, TypeOK
    <3> QED
      BY <3>1, <3>2
  <2>2. ASSUME NEW h \in Handlers, T!Write(h), a \in DOMAIN db'["achievements"]
        PROVE  /\ db'["achievements"][a].target_id = target
               /\ \A c \in TargetIdentity : db'["targets"][target][c] = db["targets"][target][c]
    BY <2>2, TargetKept
  <2>3. CASE \E h \in Handlers : T!Write(h)
    BY <2>1, <2>2, <2>3
  <2>4. CASE ~\E h \in Handlers : T!Write(h)
    <3>1. db' = db
      BY <2>4 DEF Next, T!Next, T!Step, T!Enter, T!Check, T!Refuse, T!Fail
    <3> QED
      BY <3>1
  <2> QED
    BY <2>3, <2>4
<1> QED
  BY <1>1, TalentTypeCorrect, PTL DEF Spec, MeasuredStands

-----------------------------------------------------------------------------
(* Writes that nobody overtook *)

\* Only a write moves a handler from its checks to idle with a changed database.
LEMMA OnlyWrites ==
  ASSUME NEW h \in Handlers, T!Writes(h), Next, DOMAIN handler = Handlers
  PROVE  T!Write(h)
<1>1. PICK g \in Handlers : T!Step(g) \/ \E r \in Requests : T!Enter(g, r)
  BY DEF Next, T!Next
<1>2. g = h
  BY <1>1 DEF T!Writes, T!Step, T!Enter, T!Check, T!Refuse, T!Write, T!Fail, T!Idle
<1> QED
  BY <1>1, <1>2 DEF T!Writes, T!Step, T!Enter, T!Check, T!Refuse, T!Write, T!Fail, T!Idle

\* The service finds no error, and the row as it loaded it.
LEMMA CurrentChecks ==
  ASSUME NEW h \in Handlers, T!Current(h), NEW r, r = handler[h].request
  PROVE  /\ TalentErrors(db, r) = {}
         /\ r.op # "create" =>
              r.id \in DOMAIN db[r.table] /\ handler[h].loaded = db[r.table][r.id]
BY SameTables DEF T!Current, T!Refused, T!Found, Exists

-----------------------------------------------------------------------------
(* Reviews *)

\* What a write of a request that nobody overtook does to a review.
LEMMA CurrentReviewWrite ==
  ASSUME TypeOK, NEW h \in Handlers, T!Write(h), T!Current(h),
         NEW r, r = handler[h].request, NEW reviews, reviews = "performance_reviews",
         NEW i \in DOMAIN db[reviews], i \in DOMAIN db'[reviews], db'[reviews][i] # db[reviews][i]
  PROVE  /\ db[reviews][i].status # "finalized"
         /\ \/ ValidatePeriod(db'[reviews][i]) = {}
            \/ ValidatePeriod(db'[reviews][i]) = ValidatePeriod(db[reviews][i])
<1> DEFINE c == handler[h]
           t == r.table
           new == lastId[t] + 1
           before == db[reviews][i]
           v == c.values
           row == Patched(before, Dirty(before, v))
<1>1. /\ reviews \in TalentTables /\ r \in Requests /\ IsRow(before)
      /\ {"employee_id", "review_period_start", "review_period_end", "notes", "status"} \subseteq DOMAIN before
      /\ c.values = TalentAssigned(db, r)
  BY DEF T!Write, TypeOK, TalentTables, Columns
<1>2. t = reviews /\ ~T!Inserts(r) /\ ~T!Deletes(r)
  <2>1. CASE T!Inserts(r)
    <3>1. OthersStay(db, db', t, new) /\ new \notin DOMAIN db[t]
      BY <2>1, WrittenRows
    <3> HIDE DEF new
    <3> QED
      BY <1>1, <3>1 DEF OthersStay
  <2>2. CASE T!Deletes(r)
    <3>1. OthersStay(db, db', t, r.id) /\ DOMAIN db'[t] = DOMAIN db[t] \ {r.id}
      BY <2>2, DeletedRow
    <3> QED
      BY <1>1, <3>1 DEF OthersStay
  <2>3. CASE ~T!Inserts(r) /\ ~T!Deletes(r)
    <3>1. OthersStay(db, db', t, r.id)
      BY <2>3, ChangedColumns
    <3> QED
      BY <1>1, <2>3, <3>1 DEF OthersStay
  <2> QED
    BY <2>1, <2>2, <2>3
<1>3. i = r.id
  <2>1. OthersStay(db, db', t, r.id)
    BY <1>2, ChangedColumns
  <2> QED
    BY <1>1, <1>2, <2>1 DEF OthersStay
<1>4. TalentErrors(db, r) = {} /\ c.loaded = before
  <2>1. r.op # "create"
    BY <1>2 DEF T!Inserts
  <2> QED
    BY <1>2, <1>3, <2>1, CurrentChecks
<1>5. db'[reviews][i] = row
  BY <1>2, <1>3, <1>4, WrittenRows
<1>6. \A k \in DOMAIN before : row[k] = IF k \in DOMAIN v THEN v[k] ELSE before[k]
  BY DEF Patched, Dirty
<1>7. DOMAIN v = {} => row = before
  BY <1>1 DEF Patched, Dirty, IsRow
<1> HIDE DEF row, before, v
<1>8. CASE r.op = "finalize"
  <2>1. ReviewFinalize(db, i) = {}
    BY <1>3, <1>4, <1>8 DEF TalentErrors
  <2>2. before.status = "draft"
    BY <2>1, <1>2 DEF ReviewFinalize, Raise, before
  <2>3. v = [status |-> "finalized"]
    BY <1>1, <1>8 DEF TalentAssigned, v
  <2>4. ValidatePeriod(row) = ValidatePeriod(before)
    BY <1>1, <1>6, <2>3 DEF ValidatePeriod
  <2> QED
    BY <1>5, <2>2, <2>4 DEF before
<1>9. CASE r.op = "update"
  <2>1. v = Sent(r)
    BY <1>1, <1>9 DEF TalentAssigned, v
  <2>2. ReviewUpdate(db, i, v) = {}
    BY <1>2, <1>3, <1>4, <1>9, <2>1 DEF TalentErrors, UpdateErrors
  <2>3. DOMAIN v # {}
    BY <1>5, <1>7 DEF before
  <2>4. before.status # "finalized"
    BY <1>2, <2>2, <2>3 DEF ReviewUpdate, Raise, before
  <2>5. \/ DOMAIN v \cap {"review_period_start", "review_period_end"} = {}
        \/ ValidatePeriod(Patched(before, v)) = {}
    BY <1>2, <2>2 DEF ReviewUpdate, before
  <2>6. /\ row.review_period_start = Patched(before, v).review_period_start
        /\ row.review_period_end = Patched(before, v).review_period_end
    BY <1>1, <1>6 DEF Patched
  <2>7. ValidatePeriod(row) = ValidatePeriod(Patched(before, v))
    BY <2>6 DEF ValidatePeriod
  <2>8. DOMAIN v \cap {"review_period_start", "review_period_end"} = {} =>
          ValidatePeriod(row) = ValidatePeriod(before)
    BY <1>1, <1>6 DEF ValidatePeriod
  <2> QED
    BY <1>5, <2>4, <2>5, <2>7, <2>8 DEF before
<1> QED
  BY <1>1, <1>2, <1>8, <1>9, RequestTables DEF T!Inserts, T!Deletes

\* A new review ends no earlier than it starts.
LEMMA CurrentReviewCreate ==
  ASSUME TypeOK, NEW h \in Handlers, T!Write(h), T!Current(h),
         NEW reviews, reviews = "performance_reviews",
         NEW i \in DOMAIN db'[reviews] \ DOMAIN db[reviews]
  PROVE  ValidatePeriod(db'[reviews][i]) = {}
<1> DEFINE r == handler[h].request
           c == handler[h]
           t == r.table
           new == lastId[t] + 1
           row == c.values
<1>1. /\ r \in Requests /\ c.values = TalentAssigned(db, r) /\ reviews \in TalentTables
  BY DEF T!Write, TypeOK, TalentTables
<1>2. T!Inserts(r) /\ t = reviews
  <2>1. CASE T!Inserts(r)
    <3>1. OthersStay(db, db', t, new)
      BY <2>1, WrittenRows
    <3> QED
      BY <1>1, <2>1, <3>1 DEF OthersStay
  <2>2. CASE T!Deletes(r)
    <3>1. OthersStay(db, db', t, r.id) /\ DOMAIN db'[t] = DOMAIN db[t] \ {r.id}
      BY <2>2, DeletedRow
    <3> QED
      BY <1>1, <3>1 DEF OthersStay
  <2>3. CASE ~T!Inserts(r) /\ ~T!Deletes(r)
    <3>1. OthersStay(db, db', t, r.id) /\ DOMAIN db'[t] = DOMAIN db[t]
      BY <2>3, ChangedColumns
    <3> QED
      BY <1>1, <3>1 DEF OthersStay
  <2> QED
    BY <2>1, <2>2, <2>3
<1>3. db'[reviews][i] = row
  <2>1. DOMAIN db'[t] = DOMAIN db[t] \cup {new} /\ db'[t][new] = c.values
    BY <1>2, WrittenRows
  <2> QED
    BY <1>2, <2>1
<1>4. r.op = "create" /\ \A k \in Columns[t] \ {"status"} : row[k] = r.values[k]
  BY <1>1, <1>2, InsertedRows
<1>5. /\ row.review_period_start = r.values.review_period_start
      /\ row.review_period_end = r.values.review_period_end
  BY <1>2, <1>4 DEF Columns
<1>6. TalentErrors(db, r) = {}
  BY CurrentChecks
<1>7. ValidatePeriod(r.values) = {}
  BY <1>2, <1>4, <1>6 DEF TalentErrors, CreateErrors, ReviewCreate
<1> QED
  BY <1>3, <1>5, <1>7 DEF ValidatePeriod

\* A finalized review stands and no period comes to end before it starts, but
\* for edits of a review that was written since they read it.
THEOREM ReviewsAlwaysStand == Spec => ReviewsStand
<1>1. TypeOK /\ [Next]_vars =>
        [\A h \in Handlers : T!Writes(h) /\ T!Current(h) =>
           /\ \A i \in DOMAIN db["performance_reviews"] :
                LET review == db["performance_reviews"][i] IN
                review.status = "finalized" =>
                  \/ i \in DOMAIN db'["performance_reviews"] /\ db'["performance_reviews"][i] = review
                  \/ handler[h].request.op = "delete" /\ handler[h].request.id = i
           /\ \A i \in DOMAIN db'["performance_reviews"] :
                \/ ValidatePeriod(db'["performance_reviews"][i]) = {}
                \/ i \in DOMAIN db["performance_reviews"]
                     /\ ValidatePeriod(db["performance_reviews"][i]) # {}]_vars
  <2> DEFINE reviews == "performance_reviews"
  <2> SUFFICES ASSUME TypeOK, Next, NEW h \in Handlers, T!Writes(h), T!Current(h)
               PROVE  /\ \A i \in DOMAIN db[reviews] :
                           db[reviews][i].status = "finalized" =>
                             \/ i \in DOMAIN db'[reviews] /\ db'[reviews][i] = db[reviews][i]
                             \/ handler[h].request.op = "delete" /\ handler[h].request.id = i
                      /\ \A i \in DOMAIN db'[reviews] :
                           \/ ValidatePeriod(db'[reviews][i]) = {}
                           \/ i \in DOMAIN db[reviews] /\ ValidatePeriod(db[reviews][i]) # {}
    OBVIOUS
  <2>1. T!Write(h)
    BY OnlyWrites DEF TypeOK
  <2>2. ASSUME NEW i \in DOMAIN db[reviews], db[reviews][i].status = "finalized"
        PROVE  \/ i \in DOMAIN db'[reviews] /\ db'[reviews][i] = db[reviews][i]
               \/ handler[h].request.op = "delete" /\ handler[h].request.id = i
    <3>1. CASE i \in DOMAIN db'[reviews]
      BY <2>1, <2>2, <3>1, CurrentReviewWrite
    <3>2. CASE i \notin DOMAIN db'[reviews]
      <4>1. reviews \in TalentTables
        BY DEF TalentTables
      <4> QED
        BY <2>1, <3>2, <4>1, RowsGo
    <3> QED
      BY <3>1, <3>2
  <2>3. ASSUME NEW i \in DOMAIN db'[reviews]
        PROVE  \/ ValidatePeriod(db'[reviews][i]) = {}
               \/ i \in DOMAIN db[reviews] /\ ValidatePeriod(db[reviews][i]) # {}
    <3>1. CASE i \in DOMAIN db[reviews]
      <4>1. CASE db'[reviews][i] = db[reviews][i]
        BY <3>1, <4>1
      <4>2. CASE db'[reviews][i] # db[reviews][i]
        <5>1. \/ ValidatePeriod(db'[reviews][i]) = {}
              \/ ValidatePeriod(db'[reviews][i]) = ValidatePeriod(db[reviews][i])
          BY <2>1, <2>3, <3>1, <4>2, CurrentReviewWrite
        <5> QED
          BY <3>1, <5>1
      <4> QED
        BY <4>1, <4>2
    <3>2. CASE i \notin DOMAIN db[reviews]
      BY <2>1, <3>2, CurrentReviewCreate
    <3> QED
      BY <3>1, <3>2
  <2> QED
    BY <2>2, <2>3
<1> QED
  BY <1>1, TalentTypeCorrect, PTL DEF Spec, ReviewsStand

-----------------------------------------------------------------------------
(* What the services check is what the database will *)

\* The row may be stored under the id: its references exist, its keys are free.
Fits(d, t, id, row) ==
  /\ \A f \in TalentForeignKeys :
       f.from = t => row[f.column] \in DOMAIN d[f.to] \cup {Null}
  /\ \A k \in TalentUniqueKeys : k.table = t => ~Taken(d, t, id, k.columns, row)

\* A key is taken or not whatever else is in the row.
LEMMA TakenAlike ==
  ASSUME NEW d, NEW t, NEW id, NEW columns, NEW a, NEW b, \A k \in columns : a[k] = b[k]
  PROVE  Taken(d, t, id, columns, a) <=> Taken(d, t, id, columns, b)
BY DEF Taken

\* A statement keeps the constraints if the row it stores fits.
LEMMA FittingKeepsConstraints ==
  ASSUME NEW d, NEW t \in TalentTables, NEW id, NEW row,
         ReferencesHold(d, TalentForeignKeys), KeysHold(d, TalentUniqueKeys),
         Fits(d, t, id, row), NEW after, OthersStay(d, after, t, id),
         DOMAIN after[t] = DOMAIN d[t] \cup {id}, after[t][id] = row
  PROVE  ReferencesHold(after, TalentForeignKeys) /\ KeysHold(after, TalentUniqueKeys)
<1>1. \A u \in TalentTables : DOMAIN d[u] \subseteq DOMAIN after[u]
  BY DEF OthersStay
<1>2. ReferencesHold(after, TalentForeignKeys)
  <2> SUFFICES ASSUME NEW f \in TalentForeignKeys, NEW i \in DOMAIN after[f.from]
               PROVE  after[f.from][i][f.column] \in DOMAIN after[f.to] \cup {Null}
    BY DEF ReferencesHold
  <2>1. f.from \in TalentTables /\ DOMAIN d[f.to] \subseteq DOMAIN after[f.to]
    BY <1>1, KeysOfTables
  <2>2. CASE f.from = t /\ i = id
    BY <2>1, <2>2 DEF Fits
  <2>3. CASE ~(f.from = t /\ i = id)
    <3>1. i \in DOMAIN d[f.from] /\ after[f.from][i] = d[f.from][i]
      BY <2>1, <2>3 DEF OthersStay
    <3> QED
      BY <2>1, <3>1 DEF ReferencesHold
  <2> QED
    BY <2>2, <2>3
<1>3. KeysHold(after, TalentUniqueKeys)
  <2> SUFFICES ASSUME NEW k \in TalentUniqueKeys, NEW i \in DOMAIN after[k.table],
                      NEW j \in DOMAIN after[k.table] \ {i},
                      \A c \in k.columns : after[k.table][j][c] = after[k.table][i][c]
               PROVE  FALSE
    BY DEF KeysHold, Taken
  <2>1. k.table \in TalentTables
    BY KeysOfTables
  <2>2. CASE k.table # t \/ (i # id /\ j # id)
    <3>1. /\ i \in DOMAIN d[k.table] /\ after[k.table][i] = d[k.table][i]
          /\ j \in DOMAIN d[k.table] /\ after[k.table][j] = d[k.table][j]
      BY <2>1, <2>2 DEF OthersStay
    <3> QED
      BY <3>1 DEF KeysHold, Taken
  <2>3. CASE k.table = t /\ i = id
    <3>1. j \in DOMAIN d[t] \ {id} /\ \A c \in k.columns : d[t][j][c] = row[c]
      BY <2>3 DEF OthersStay
    <3> QED
      BY <2>3, <3>1 DEF Fits, Taken
  <2>4. CASE k.table = t /\ j = id
    <3>1. i \in DOMAIN d[t] \ {id} /\ \A c \in k.columns : d[t][i][c] = row[c]
      BY <2>4 DEF OthersStay
    <3> QED
      BY <2>4, <3>1 DEF Fits, Taken
  <2> QED
    BY <2>2, <2>3, <2>4
<1> QED
  BY <1>2, <1>3

\* And its NOT NULL columns stay filled if that row is complete.
LEMMA CompleteRowsStay ==
  ASSUME NEW d, NEW t \in TalentTables, NEW id, RowsComplete(d, TalentRequired),
         NEW after, OthersStay(d, after, t, id), DOMAIN after[t] = DOMAIN d[t] \cup {id},
         t \in DOMAIN TalentRequired, Complete(after[t][id], TalentRequired[t])
  PROVE  RowsComplete(after, TalentRequired)
<1> SUFFICES ASSUME NEW u \in DOMAIN TalentRequired, NEW i \in DOMAIN after[u]
             PROVE  Complete(after[u][i], TalentRequired[u])
  BY DEF RowsComplete
<1>1. u \in TalentTables
  BY DEF TalentRequired, TalentTables
<1>2. CASE u = t /\ i = id
  BY <1>2
<1>3. CASE ~(u = t /\ i = id)
  <2>1. i \in DOMAIN d[u] /\ after[u][i] = d[u][i]
    BY <1>1, <1>3 DEF OthersStay
  <2> QED
    BY <2>1 DEF RowsComplete
<1> QED
  BY <1>2, <1>3

\* An update that sends no null for such a column leaves the row complete.
LEMMA PatchedComplete ==
  ASSUME NEW old, NEW v, NEW required, Complete(old, required), Complete(v, required)
  PROVE  /\ Complete(Patched(old, v), required)
         /\ Complete(Patched(old, Dirty(old, v)), required)
BY DEF Complete, Patched, Dirty

\* The row after an update that sends v, and what v must be for it to fit.
Updated(d, t, id, v, row) ==
  \A k \in Columns[t] : row[k] = IF k \in DOMAIN v THEN v[k] ELSE d[t][id][k]

SentFits(d, t, id, v, row) ==
  /\ \A f \in TalentForeignKeys :
       f.from = t /\ f.column \in DOMAIN v => v[f.column] \in DOMAIN d[f.to] \cup {Null}
  /\ \A k \in TalentUniqueKeys :
       k.table = t /\ k.columns \cap DOMAIN v # {} => ~Taken(d, t, id, k.columns, row)

\* An update fits if the columns it sends do: the others fitted before.
LEMMA UpdateFits ==
  ASSUME NEW d, NEW t, NEW id \in DOMAIN d[t], NEW v, NEW row,
         ReferencesHold(d, TalentForeignKeys), KeysHold(d, TalentUniqueKeys),
         Columns[t] \subseteq DOMAIN d[t][id],
         Updated(d, t, id, v, row), SentFits(d, t, id, v, row)
  PROVE  Fits(d, t, id, row)
<1>1. ASSUME NEW f \in TalentForeignKeys, f.from = t
      PROVE  row[f.column] \in DOMAIN d[f.to] \cup {Null}
  <2>1. f.column \in Columns[t]
    BY <1>1, KeysOfTables
  <2>2. d[t][id][f.column] \in DOMAIN d[f.to] \cup {Null}
    BY <1>1 DEF ReferencesHold
  <2> QED
    BY <1>1, <2>1, <2>2 DEF Updated, SentFits
<1>2. ASSUME NEW k \in TalentUniqueKeys, k.table = t, k.columns \cap DOMAIN v = {}
      PROVE  ~Taken(d, t, id, k.columns, row)
  <2>1. \A c \in k.columns : row[c] = d[t][id][c]
    BY <1>2, KeysOfTables DEF Updated
  <2>2. ~Taken(d, t, id, k.columns, d[t][id])
    BY <1>2 DEF KeysHold
  <2> QED
    BY <2>1, <2>2 DEF Taken
<1> QED
  BY <1>1, <1>2 DEF Fits, SentFits

\* Two ends that are there can be compared.
LEMMA PeriodsCompared ==
  ASSUME NEW row, {"review_period_start", "review_period_end"} \subseteq DOMAIN row,
         Complete(row, TalentRequired["performance_reviews"])
  PROVE  ValidatePeriod(row) \subseteq {"InvalidPerformanceReviewPeriod"}
<1>1. {"review_period_start", "review_period_end"} \subseteq TalentRequired["performance_reviews"]
  BY DEF TalentRequired
<1>2. row.review_period_start # Null /\ row.review_period_end # Null
  BY <1>1 DEF Complete
<1> QED
  BY <1>2 DEF ValidatePeriod, Compare, Raise

\* A service raises nothing that its route does not turn into an answer, unless
\* null is sent for a NOT NULL column.
LEMMA RoutesKnowErrors ==
  ASSUME NEW d, NEW r \in Requests, ~T!SendsNull(d, r),
         r.op = "create" \/ r.id \in DOMAIN d[r.table], RowsComplete(d, TalentRequired),
         \A i \in DOMAIN d["performance_reviews"] :
           Columns["performance_reviews"] \subseteq DOMAIN d["performance_reviews"][i]
  PROVE  TalentErrors(d, r) \subseteq TalentRoutes(r)
<1> DEFINE t == r.table
<1>1. /\ t \in {"candidates", "job_requisitions", "applications", "interviews", "offers",
                "performance_reviews", "kpis", "targets", "achievements"}
      /\ r.op \in {"create", "update", "delete", "transition", "finalize"}
      /\ r.op = "transition" => t = "applications"
      /\ r.op = "finalize" => t = "performance_reviews"
  BY RequestTables
<1>2. r.op # "delete" => TalentRoutes(r) = RoutesOf[t][r.op]
  BY DEF TalentRoutes
<1>3. CASE r.op = "delete"
  BY <1>3 DEF TalentErrors
<1>4. CASE r.op = "transition"
  BY <1>1, <1>2, <1>4 DEF TalentErrors, ApplicationTransition, RoutesOf, ApplicationRoutes, Raise
<1>5. CASE r.op = "finalize"
  BY <1>1, <1>2, <1>5 DEF TalentErrors, ReviewFinalize, RoutesOf, ReviewRoutes, Raise
<1>6. CASE r.op = "create"
  <2> DEFINE v == r.values
  <2>1. TalentErrors(d, r) = CreateErrors(d, t, v)
    BY <1>6 DEF TalentErrors
  <2> SUFFICES CreateErrors(d, t, v) \subseteq RoutesOf[t]["create"]
    BY <1>2, <1>6, <2>1
  <2> HIDE DEF t, v
  <2>2. CASE t = "candidates"
    BY <2>2 DEF CreateErrors, CandidateCreate, RoutesOf, CandidateRoutes, Raise
  <2>3. CASE t = "job_requisitions"
    BY <2>3 DEF CreateErrors, JobRequisitionCreate, RoutesOf, JobRequisitionRoutes, Raise
  <2>4. CASE t = "applications"
    BY <2>4 DEF CreateErrors, ApplicationCreate, ApplicationPairErrors, RoutesOf,
         ApplicationRoutes, Raise
  <2>5. CASE t = "interviews"
    BY <2>5 DEF CreateErrors, InterviewCreate, RoutesOf, InterviewRoutes, Raise
  <2>6. CASE t = "offers"
    BY <2>6 DEF CreateErrors, OfferCreate, RoutesOf, OfferRoutes, Raise
  <2>7. CASE t = "performance_reviews"
    <3>1. /\ Complete(r.values, TalentRequired["performance_reviews"])
          /\ {"review_period_start", "review_period_end"} \subseteq DOMAIN r.values
      BY <1>6, <2>7, RequestAssumption DEF t, Columns
    <3>2. ValidatePeriod(v) \subseteq {"InvalidPerformanceReviewPeriod"}
      BY <3>1, PeriodsCompared DEF v
    <3> QED
      BY <2>7, <3>2 DEF CreateErrors, ReviewCreate, RoutesOf, ReviewRoutes, Raise
  <2>8. CASE t = "kpis"
    BY <2>8 DEF CreateErrors, KpiCreate, RoutesOf, KpiRoutes, Raise
  <2>9. CASE t = "targets"
    BY <2>9 DEF CreateErrors, TargetCreate, RoutesOf, TargetRoutes, Raise
  <2>10. CASE t = "achievements"
    BY <2>10 DEF CreateErrors, AchievementCreate, RoutesOf, AchievementRoutes, Raise
  <2> QED
    BY <1>1, <2>2, <2>3, <2>4, <2>5, <2>6, <2>7, <2>8, <2>9, <2>10
<1>7. CASE r.op = "update"
  <2> DEFINE v == Sent(r)
             id == r.id
  <2>1. TalentErrors(d, r) = UpdateErrors(d, t, id, v)
    BY <1>7 DEF TalentErrors
  <2> SUFFICES UpdateErrors(d, t, id, v) \subseteq RoutesOf[t]["update"]
    BY <1>2, <1>7, <2>1
  <2> HIDE DEF t, v, id
  <2>2. CASE t = "candidates"
    BY <2>2 DEF UpdateErrors, CandidateUpdate, RoutesOf, CandidateRoutes, Raise
  <2>3. CASE t = "job_requisitions"
    BY <2>3 DEF UpdateErrors, JobRequisitionUpdate, RoutesOf, JobRequisitionRoutes, Raise
  <2>4. CASE t = "applications"
    BY <2>4 DEF UpdateErrors, ApplicationUpdate, ApplicationPairErrors, RoutesOf,
         ApplicationRoutes, Raise
  <2>5. CASE t = "interviews"
    BY <2>5 DEF UpdateErrors, InterviewUpdate, RoutesOf, InterviewRoutes, Raise
  <2>6. CASE t = "offers"
    BY <2>6 DEF UpdateErrors, OfferUpdate, RoutesOf, OfferRoutes, Raise
  <2>7. CASE t = "performance_reviews"
    <3> DEFINE old == d["performance_reviews"][id]
    <3>1. /\ Complete(old, TalentRequired["performance_reviews"])
          /\ {"review_period_start", "review_period_end"} \subseteq DOMAIN old
      BY <1>7, <2>7 DEF t, id, Columns, RowsComplete, TalentRequired
    <3>2. Complete(v, TalentRequired["performance_reviews"])
      BY <1>7, <2>7, SameTables DEF t, v, T!SendsNull, T!Deletes, TalentAssigned
    <3> HIDE DEF old
    <3>3. {"review_period_start", "review_period_end"} \subseteq DOMAIN Patched(old, v)
      BY <3>1 DEF Patched
    <3>4. ValidatePeriod(Patched(old, v)) \subseteq {"InvalidPerformanceReviewPeriod"}
      BY <3>1, <3>2, <3>3, PatchedComplete, PeriodsCompared
    <3> QED
      BY <2>7, <3>4 DEF old, UpdateErrors, ReviewUpdate, RoutesOf, ReviewRoutes, Raise
  <2>8. CASE t = "kpis"
    BY <2>8 DEF UpdateErrors, KpiUpdate, RoutesOf, KpiRoutes, Raise
  <2>9. CASE t \in {"targets", "achievements"}
    BY <2>9 DEF UpdateErrors
  <2> QED
    BY <1>1, <2>2, <2>3, <2>4, <2>5, <2>6, <2>7, <2>8, <2>9
<1> QED
  BY <1>1, <1>3, <1>4, <1>5, <1>6, <1>7

\* The rows that are inserted fit: what they refer to was looked up, and so
\* was what must be their own.
LEMMA InsertFits ==
  ASSUME NEW d, NEW r \in Requests, T!Inserts(r), NEW t, t = r.table,
         TalentErrors(d, r) = {}, NEW row, row = TalentAssigned(d, r),
         NEW id, id \notin DOMAIN d[t], 0 \notin DOMAIN d[t]
  PROVE  Fits(d, t, id, row)
<1> DEFINE v == r.values
<1>1. \A columns : Taken(d, t, id, columns, row) <=> Taken(d, t, 0, columns, row)
  BY DEF Taken
<1>2. /\ r.op = "create"
      /\ \A k \in Columns[t] \ {"status"} : k \in DOMAIN v /\ row[k] = v[k]
  BY InsertedRows
<1>3. CreateErrors(d, t, v) = {}
  BY <1>2 DEF TalentErrors
<1>4. \A columns \in SUBSET (Columns[t] \ {"status"}) :
        Taken(d, t, 0, columns, row) <=> Taken(d, t, 0, columns, v)
  BY <1>2, TakenAlike
<1>5. \A columns \in SUBSET (Columns[t] \ {"status"}) :
        Taken(d, t, id, columns, row) <=> Taken(d, t, 0, columns, v)
  BY <1>1, <1>4
<1> HIDE DEF v
<1>6. CASE t = "candidates"
  <2>1. row.email = v.email /\ {"email"} \subseteq Columns[t] \ {"status"}
    BY <1>2, <1>6 DEF Columns
  <2>2. ~Taken(d, t, 0, {"email"}, v)
    BY <1>3, <1>6 DEF CreateErrors, CandidateCreate, Raise
  <2>3. ~Taken(d, t, id, {"email"}, row)
    BY <1>5, <2>1, <2>2
  <2> QED
    BY <1>6, <2>3, ForeignKeysByTable, UniqueKeysByTable DEF Fits
<1>7. CASE t = "job_requisitions"
  <2>1. /\ {"code", "organization_id", "department_id", "position_id"} = Columns[t] \ {"status"}
        /\ row.organization_id = v.organization_id /\ row.department_id = v.department_id
        /\ row.position_id = v.position_id
    BY <1>2, <1>7 DEF Columns
  <2>2. /\ ~Taken(d, t, 0, {"code"}, v) /\ v.organization_id \in DOMAIN d["organizations"]
        /\ v.department_id \in DOMAIN d["departments"] /\ v.position_id \in DOMAIN d["positions"]
    BY <1>3, <1>7 DEF CreateErrors, JobRequisitionCreate, Raise, Exists
  <2>3. ~Taken(d, t, id, {"code"}, row)
    BY <1>5, <2>1, <2>2
  <2> QED
    BY <1>7, <2>1, <2>2, <2>3, ForeignKeysByTable, UniqueKeysByTable DEF Fits
<1>8. CASE t = "applications"
  <2>1. /\ ApplicationPair = Columns[t] \ {"status"}
        /\ row.candidate_id = v.candidate_id /\ row.job_requisition_id = v.job_requisition_id
    BY <1>2, <1>8 DEF Columns, ApplicationPair
  <2>2. /\ ~Taken(d, t, 0, ApplicationPair, v) /\ v.candidate_id \in DOMAIN d["candidates"]
        /\ v.job_requisition_id \in DOMAIN d["job_requisitions"]
    BY <1>3, <1>8 DEF CreateErrors, ApplicationCreate, ApplicationPairErrors, Raise, Exists
  <2>3. ~Taken(d, t, id, ApplicationPair, row)
    BY <1>5, <2>1, <2>2
  <2> QED
    BY <1>8, <2>1, <2>2, <2>3, ForeignKeysByTable, UniqueKeysByTable DEF Fits
<1>9. CASE t \in {"interviews", "offers"}
  <2>1. row.application_id = v.application_id
    BY <1>2, <1>9 DEF Columns
  <2>2. v.application_id \in DOMAIN d["applications"]
    BY <1>3, <1>9 DEF CreateErrors, InterviewCreate, OfferCreate, Raise, Exists
  <2> QED
    BY <1>9, <2>1, <2>2, ForeignKeysByTable, UniqueKeysByTable DEF Fits
<1>10. CASE t = "performance_reviews"
  <2>1. row.employee_id = v.employee_id /\ "employee_id" \in DOMAIN v
    BY <1>2, <1>10 DEF Columns
  <2>2. v.employee_id \in DOMAIN d["hr_employees"]
    BY <1>3, <1>10, <2>1 DEF CreateErrors, ReviewCreate, Dangling, Raise, Exists
  <2> QED
    BY <1>10, <2>1, <2>2, ForeignKeysByTable, UniqueKeysByTable DEF Fits
<1>11. CASE t = "kpis"
  <2>1. row.code = v.code /\ {"code"} \subseteq Columns[t] \ {"status"}
    BY <1>2, <1>11 DEF Columns
  <2>2. ~Taken(d, t, 0, {"code"}, v)
    BY <1>3, <1>11 DEF CreateErrors, KpiCreate, Raise
  <2>3. ~Taken(d, t, id, {"code"}, row)
    BY <1>5, <2>1, <2>2
  <2> QED
    BY <1>11, <2>3, ForeignKeysByTable, UniqueKeysByTable DEF Fits
<1>12. CASE t = "targets"
  <2>1. /\ row.employee_id = v.employee_id /\ row.kpi_id = v.kpi_id
        /\ TargetIdentity \subseteq Columns[t] \ {"status"}
    BY <1>2, <1>12 DEF Columns, TargetIdentity
  <2>2. /\ ~Taken(d, t, 0, TargetIdentity, v) /\ v.employee_id \in DOMAIN d["hr_employees"]
        /\ v.kpi_id \in DOMAIN d["kpis"]
    BY <1>3, <1>12 DEF CreateErrors, TargetCreate, Raise, Exists
  <2>3. ~Taken(d, t, id, TargetIdentity, row)
    BY <1>5, <2>1, <2>2
  <2> QED
    BY <1>12, <2>1, <2>2, <2>3, ForeignKeysByTable, UniqueKeysByTable DEF Fits
<1>13. CASE t = "achievements"
  <2>1. row.target_id = v.target_id /\ {"target_id"} \subseteq Columns[t] \ {"status"}
    BY <1>2, <1>13 DEF Columns
  <2>2. ~Taken(d, t, 0, {"target_id"}, v) /\ v.target_id \in DOMAIN d["targets"]
    BY <1>3, <1>13 DEF CreateErrors, AchievementCreate, Raise, Exists
  <2>3. ~Taken(d, t, id, {"target_id"}, row)
    BY <1>5, <2>1, <2>2
  <2> QED
    BY <1>13, <2>1, <2>2, <2>3, ForeignKeysByTable, UniqueKeysByTable DEF Fits
<1> QED
  BY <1>6, <1>7, <1>8, <1>9, <1>10, <1>11, <1>12, <1>13, RequestTables

\* The rows that are updated fit: what they refer to newly was looked up, and
\* so was a new key; a new status is no key.
LEMMA UpdatedRowFits ==
  ASSUME NEW d, NEW r \in Requests, ~T!Inserts(r), ~T!Deletes(r), NEW t, t = r.table,
         NEW id, id = r.id, TalentErrors(d, r) = {}, id \in DOMAIN d[t],
         Columns[t] \subseteq DOMAIN d[t][id],
         ReferencesHold(d, TalentForeignKeys), KeysHold(d, TalentUniqueKeys),
         NEW v, v = TalentAssigned(d, r), NEW row, row = Patched(d[t][id], Dirty(d[t][id], v))
  PROVE  Fits(d, t, id, row)
<1>1. Updated(d, t, id, v, row)
  BY DEF Patched, Dirty, Updated
<1>2. SUFFICES SentFits(d, t, id, v, row)
  BY <1>1, UpdateFits
<1>3. \/ /\ r.op = "update" /\ v = Sent(r)
         /\ DOMAIN v = DOMAIN r.values \cap UpdateColumns[t]
      \/ DOMAIN v = {"status"}
  BY UpdatedColumns
<1>4. CASE DOMAIN v = {"status"}
  <2>1. \A f \in TalentForeignKeys : f.column # "status"
    BY ForeignKeysByTable
  <2>2. \A k \in TalentUniqueKeys : "status" \notin k.columns
    BY UniqueKeysByTable DEF ApplicationPair, TargetIdentity
  <2> QED
    BY <1>4, <2>1, <2>2 DEF SentFits
<1>5. CASE r.op = "update" /\ v = Sent(r) /\ DOMAIN v = DOMAIN r.values \cap UpdateColumns[t]
  <2>1. UpdateErrors(d, t, id, v) = {}
    BY <1>5 DEF TalentErrors
  <2>2. \A k \in Columns[t] \cap DOMAIN v : row[k] = v[k]
    BY <1>1 DEF Updated
  <2>3. \A k \in Columns[t] \cap DOMAIN v :
          Taken(d, t, id, {k}, row) <=> Taken(d, t, id, {k}, v)
    BY <2>2, TakenAlike
  <2>4. DOMAIN v \subseteq UpdateColumns[t]
    BY <1>5
  <2>5. CASE t = "candidates"
    <3>1. "email" \in DOMAIN v => ~Taken(d, t, id, {"email"}, v)
      BY <2>1, <2>5 DEF UpdateErrors, CandidateUpdate, Raise
    <3>2. "email" \in DOMAIN v => ~Taken(d, t, id, {"email"}, row)
      BY <2>3, <2>5, <3>1 DEF Columns
    <3> QED
      BY <2>5, <3>2, ForeignKeysByTable, UniqueKeysByTable DEF SentFits
  <2>6. CASE t = "job_requisitions"
    <3>1. /\ "code" \in DOMAIN v => ~Taken(d, t, id, {"code"}, v)
          /\ "organization_id" \in DOMAIN v => v.organization_id \in DOMAIN d["organizations"]
          /\ "department_id" \in DOMAIN v => v.department_id \in DOMAIN d["departments"]
          /\ "position_id" \in DOMAIN v => v.position_id \in DOMAIN d["positions"]
      BY <2>1, <2>6 DEF UpdateErrors, JobRequisitionUpdate, Dangling, Raise, Exists
    <3>2. "code" \in DOMAIN v => ~Taken(d, t, id, {"code"}, row)
      BY <2>3, <2>6, <3>1 DEF Columns
    <3> QED
      BY <2>6, <3>1, <3>2, ForeignKeysByTable, UniqueKeysByTable DEF SentFits
  <2>7. CASE t = "applications"
    <3>1. CASE DOMAIN v \cap ApplicationPair = {}
      BY <2>7, <3>1, ForeignKeysByTable, UniqueKeysByTable DEF SentFits, ApplicationPair
    <3>2. CASE DOMAIN v \cap ApplicationPair # {}
      <4> DEFINE patched == Patched(d[t][id], v)
      <4>1. ApplicationPairErrors(d, id, patched) = {}
        BY <2>1, <2>7, <3>2 DEF UpdateErrors, ApplicationUpdate
      <4>2. /\ \A k \in ApplicationPair : patched[k] = row[k]
            /\ \A k \in DOMAIN v : patched[k] = v[k]
        <5>1. ApplicationPair \subseteq DOMAIN d[t][id]
          BY <2>7 DEF Columns
        <5> QED
          BY <5>1 DEF Patched, Dirty
      <4> HIDE DEF patched
      <4>3. /\ patched.candidate_id \in DOMAIN d["candidates"]
            /\ patched.job_requisition_id \in DOMAIN d["job_requisitions"]
            /\ ~Taken(d, t, id, ApplicationPair, patched)
        BY <2>7, <4>1 DEF ApplicationPairErrors, Raise, Exists
      <4>4. ~Taken(d, t, id, ApplicationPair, row)
        BY <4>2, <4>3, TakenAlike
      <4>5. /\ "candidate_id" \in DOMAIN v => v.candidate_id \in DOMAIN d["candidates"]
            /\ "job_requisition_id" \in DOMAIN v =>
                 v.job_requisition_id \in DOMAIN d["job_requisitions"]
        BY <4>2, <4>3
      <4> QED
        BY <2>7, <4>4, <4>5, ForeignKeysByTable, UniqueKeysByTable DEF SentFits
    <3> QED
      BY <3>1, <3>2
  <2>8. CASE t \in {"interviews", "offers"}
    <3>1. "application_id" \in DOMAIN v => v.application_id \in DOMAIN d["applications"]
      BY <2>1, <2>8 DEF UpdateErrors, InterviewUpdate, OfferUpdate, Dangling, Raise, Exists
    <3> QED
      BY <2>8, <3>1, ForeignKeysByTable, UniqueKeysByTable DEF SentFits
  <2>9. CASE t = "performance_reviews"
    <3>1. "employee_id" \in DOMAIN v => v.employee_id \in DOMAIN d["hr_employees"]
      BY <2>1, <2>9 DEF UpdateErrors, ReviewUpdate, Dangling, Raise, Exists
    <3> QED
      BY <2>9, <3>1, ForeignKeysByTable, UniqueKeysByTable DEF SentFits
  <2>10. CASE t = "kpis"
    <3>1. "code" \in DOMAIN v => ~Taken(d, t, id, {"code"}, v)
      BY <2>1, <2>10 DEF UpdateErrors, KpiUpdate, Raise
    <3>2. "code" \in DOMAIN v => ~Taken(d, t, id, {"code"}, row)
      BY <2>3, <2>10, <3>1 DEF Columns
    <3> QED
      BY <2>10, <3>2, ForeignKeysByTable, UniqueKeysByTable DEF SentFits
  <2>11. CASE t \in {"targets", "achievements"}
    <3>1. DOMAIN v \subseteq {"goal_value", "actual_value"}
      BY <2>4, <2>11 DEF UpdateColumns
    <3> QED
      BY <2>11, <3>1, ForeignKeysByTable, UniqueKeysByTable DEF SentFits, TargetIdentity
  <2> QED
    BY <2>5, <2>6, <2>7, <2>8, <2>9, <2>10, <2>11, RequestTables
<1> QED
  BY <1>3, <1>4, <1>5

\* A row that no other refers to can be deleted: the keys and the NOT NULL columns
\* of the others hold as they did.
LEMMA DeleteIsAccepted ==
  ASSUME TypeOK, NEW h \in Handlers, handler[h].at = "checked", NEW r, r = handler[h].request,
         T!Deletes(r), NEW t \in TalentTables, t = r.table, NEW id \in DOMAIN db[t], id = r.id,
         ~StillReferred(db, TalentForeignKeys, t, id)
  PROVE  T!Accepted(db, handler[h], T!NextId(h))
<1> DEFINE after == Removed(db, TalentForeignKeys, t, id)
<1>1. T!Flushed(db, handler[h], T!NextId(h)) = after
  BY SameTables DEF T!Flushed, T!Inserts, T!Deletes
<1>2. ReferencesHold(after, TalentForeignKeys)
  BY DEF StillReferred
<1>3. OthersStay(db, after, t, id) /\ DOMAIN after[t] = DOMAIN db[t] \ {id}
  BY RemovedStays DEF TypeOK
<1> HIDE DEF after
<1>4. \A u \in TalentTables : \A i \in DOMAIN after[u] :
        i \in DOMAIN db[u] /\ after[u][i] = db[u][i]
  BY <1>3 DEF OthersStay
<1>5. KeysHold(after, TalentUniqueKeys)
  <2>1. KeysHold(db, TalentUniqueKeys)
    BY DEF TypeOK
  <2> QED
    BY <1>4, <2>1, KeysOfTables DEF KeysHold, Taken
<1>6. RowsComplete(after, TalentRequired)
  <2>1. RowsComplete(db, TalentRequired) /\ DOMAIN TalentRequired \subseteq TalentTables
    BY DEF TypeOK, TalentRequired, TalentTables
  <2> QED
    BY <1>4, <2>1 DEF RowsComplete
<1>7. T!Exists(db, t, id)
  BY DEF T!Exists
<1> QED
  BY <1>1, <1>2, <1>5, <1>6, <1>7, SameTables DEF T!Accepted

\* The database takes an INSERT and an UPDATE of a request that nobody overtook,
\* but for a null in a NOT NULL column.
LEMMA InsertOrUpdateIsAccepted ==
  ASSUME TypeOK, NEW h \in Handlers, handler[h].at = "checked", T!Current(h),
         handler[h].request.op # "delete", ~T!SendsNull(db, handler[h].request)
  PROVE  T!Accepted(db, handler[h], T!NextId(h))
<1> DEFINE r == handler[h].request
           c == handler[h]
           t == r.table
           id == r.id
           new == lastId[t] + 1
           after == T!Flushed(db, c, new)
<1>1. r \in Requests /\ t \in TalentTables /\ c.values = TalentAssigned(db, r)
  BY RequestTables DEF TypeOK
<1>2. /\ TalentErrors(db, r) = {}
      /\ r.op # "create" => id \in DOMAIN db[t] /\ c.loaded = db[t][id]
  BY CurrentChecks
<1>3. /\ DOMAIN db = TalentTables /\ lastId[t] \in Nat /\ DOMAIN db[t] \subseteq 1 .. lastId[t]
      /\ ReferencesHold(db, TalentForeignKeys) /\ KeysHold(db, TalentUniqueKeys)
      /\ RowsComplete(db, TalentRequired)
      /\ \A i \in DOMAIN db[t] : Columns[t] \subseteq DOMAIN db[t][i]
  BY <1>1 DEF TypeOK
<1>4. SUFFICES /\ T!Inserts(r) \/ id \in DOMAIN db[t]
               /\ ReferencesHold(after, TalentForeignKeys)
               /\ KeysHold(after, TalentUniqueKeys)
               /\ RowsComplete(after, TalentRequired)
  BY SameTables DEF T!Accepted, T!NextId, Exists
<1>5. t \in DOMAIN TalentRequired /\ Complete(c.values, TalentRequired[t])
  <2>1. t \in DOMAIN TalentRequired
    BY <1>1, RequestTables DEF TalentRequired
  <2> QED
    BY <1>1, <2>1, SameTables DEF T!SendsNull, T!Deletes
<1>6. CASE T!Inserts(r)
  <2> DEFINE row == c.values
  <2>1. after = Stored(db, t, new, row)
    BY <1>6, SameTables DEF T!Flushed
  <2>2. new \notin DOMAIN db[t] /\ 0 \notin DOMAIN db[t]
    BY <1>3
  <2>3. Fits(db, t, new, row)
    BY <1>1, <1>2, <1>6, <2>2, InsertFits
  <2> HIDE DEF row, after, new
  <2>4. OthersStay(db, after, t, new) /\ DOMAIN after[t] = DOMAIN db[t] \cup {new} /\ after[t][new] = row
    BY <1>1, <1>3, <2>1, StoredStays
  <2>5. ReferencesHold(after, TalentForeignKeys) /\ KeysHold(after, TalentUniqueKeys)
    BY <1>1, <1>3, <2>3, <2>4, FittingKeepsConstraints
  <2>6. RowsComplete(after, TalentRequired)
    BY <1>1, <1>3, <1>5, <2>4, CompleteRowsStay DEF row
  <2> QED
    BY <1>6, <2>5, <2>6
<1>7. CASE ~T!Inserts(r)
  <2> DEFINE row == Patched(db[t][id], Dirty(c.loaded, c.values))
  <2>1. r.op # "create" /\ ~T!Deletes(r)
    BY <1>7 DEF T!Inserts, T!Deletes
  <2>2. id \in DOMAIN db[t] /\ c.loaded = db[t][id]
    BY <1>2, <2>1
  <2>3. Fits(db, t, id, row)
    BY <1>1, <1>2, <1>3, <1>7, <2>1, <2>2, UpdatedRowFits
  <2>4. after = Stored(db, t, id, row)
    <3>1. after = T!Stored(db, t, id, T!Patched(db[t][id], T!Dirty(c.loaded, c.values)))
      BY <1>7, <2>1 DEF T!Flushed
    <3> QED
      BY <3>1, SameTables
  <2> HIDE DEF row, after
  <2>5. OthersStay(db, after, t, id) /\ DOMAIN after[t] = DOMAIN db[t] \cup {id} /\ after[t][id] = row
    BY <1>1, <1>3, <2>4, StoredStays
  <2>6. ReferencesHold(after, TalentForeignKeys) /\ KeysHold(after, TalentUniqueKeys)
    BY <1>1, <1>3, <2>3, <2>5, FittingKeepsConstraints
  <2>7. Complete(row, TalentRequired[t])
    <3>1. Complete(db[t][id], TalentRequired[t])
      BY <1>3, <1>5, <2>2 DEF RowsComplete
    <3> QED
      BY <1>5, <2>2, <3>1, PatchedComplete DEF row
  <2>8. RowsComplete(after, TalentRequired)
    BY <1>1, <1>3, <1>5, <2>5, <2>7, CompleteRowsStay
  <2> QED
    BY <2>2, <2>6, <2>8
<1> QED
  BY <1>6, <1>7

\* The same for every write, but for the deletion of a row that others refer to.
LEMMA CurrentIsAccepted ==
  ASSUME TypeOK, NEW h \in Handlers, handler[h].at = "checked", T!Current(h),
         ~T!SendsNull(db, handler[h].request),
         ~(/\ handler[h].request.op = "delete"
           /\ StillReferred(db, TalentForeignKeys, handler[h].request.table, handler[h].request.id))
  PROVE  T!Accepted(db, handler[h], T!NextId(h))
<1>1. CASE handler[h].request.op = "delete"
  <2>1. /\ handler[h].request \in Requests /\ handler[h].request.table \in TalentTables
        /\ handler[h].request.id \in DOMAIN db[handler[h].request.table]
    BY <1>1, CurrentChecks, RequestTables DEF TypeOK
  <2> QED
    BY <1>1, <2>1, DeleteIsAccepted DEF T!Deletes
<1>2. CASE handler[h].request.op # "delete"
  BY <1>2, InsertOrUpdateIsAccepted
<1> QED
  BY <1>1, <1>2

\* Every request that nobody overtook gets an answer, but for the deletion of a
\* row that others refer to and an update that sends null for a NOT NULL column:
\* the services check all that the keys of their tables will, and their routes
\* know every error.
THEOREM TalentAnswers == Spec => []AnsweredUnlessOvertaken
<1>1. TypeOK => AnsweredUnlessOvertaken
  <2> SUFFICES ASSUME TypeOK, NEW h \in Handlers, T!Unanswered(h),
                      ~T!SendsNull(db, handler[h].request),
                      ~(/\ handler[h].request.op = "delete"
                        /\ StillReferred(db, TalentForeignKeys, handler[h].request.table,
                                         handler[h].request.id))
               PROVE  FALSE
    BY DEF AnsweredUnlessOvertaken
  <2>1. CASE handler[h].at = "entered"
    <3>1. PICK r : r = handler[h].request
      OBVIOUS
    <3>2. /\ r \in Requests /\ RowsComplete(db, TalentRequired)
          /\ ~(TalentErrors(db, r) \subseteq TalentRoutes(r))
          /\ r.op = "create" \/ r.id \in DOMAIN db[r.table]
      BY <2>1, <3>1, SameTables DEF TypeOK, T!Unanswered, T!Found, Exists
    <3>3. \A i \in DOMAIN db["performance_reviews"] :
            Columns["performance_reviews"] \subseteq DOMAIN db["performance_reviews"][i]
      BY DEF TypeOK, TalentTables
    <3> QED
      BY <3>1, <3>2, <3>3, RoutesKnowErrors
  <2>2. CASE handler[h].at = "checked"
    BY <2>2, CurrentIsAccepted DEF T!Unanswered
  <2> QED
    BY <2>1, <2>2 DEF T!Unanswered
<1> QED
  BY <1>1, TalentTypeCorrect, PTL

-----------------------------------------------------------------------------
(* The funnel *)

IsFor(row, candidate, requisition) ==
  row.candidate_id = candidate /\ row.job_requisition_id = requisition

\* A candidate has one application for a requisition.
LEMMA OneApplication ==
  ASSUME NEW d, KeysHold(d, TalentUniqueKeys), NEW candidate, NEW requisition,
         NEW a \in DOMAIN d["applications"], IsFor(d["applications"][a], candidate, requisition),
         NEW b \in DOMAIN d["applications"], IsFor(d["applications"][b], candidate, requisition)
  PROVE  a = b
<1>1. Unique("applications", ApplicationPair) \in TalentUniqueKeys
  BY DEF TalentUniqueKeys
<1>2. ~Taken(d, "applications", a, ApplicationPair, d["applications"][a])
  BY <1>1 DEF KeysHold, Unique
<1> QED
  BY <1>2 DEF Taken, ApplicationPair, IsFor

\* Without one, the candidate stands nowhere.
LEMMA NoStanding ==
  ASSUME NEW d, NEW candidate, NEW requisition,
         \A i \in DOMAIN d["applications"] : ~IsFor(d["applications"][i], candidate, requisition)
  PROVE  Standing(d, candidate, requisition) = {}
BY DEF Standing, IsFor

\* Applications for other pairs do not matter to where the candidate stands.
LEMMA SameStanding ==
  ASSUME NEW d, NEW e, NEW candidate, NEW requisition,
         \A i \in DOMAIN d["applications"] : IsFor(d["applications"][i], candidate, requisition) =>
           /\ i \in DOMAIN e["applications"]
           /\ IsFor(e["applications"][i], candidate, requisition)
           /\ e["applications"][i].status = d["applications"][i].status,
         \A i \in DOMAIN e["applications"] : IsFor(e["applications"][i], candidate, requisition) =>
           i \in DOMAIN d["applications"] /\ IsFor(d["applications"][i], candidate, requisition)
  PROVE  Standing(e, candidate, requisition) = Standing(d, candidate, requisition)
<1>1. \A i : (i \in DOMAIN d["applications"] /\ IsFor(d["applications"][i], candidate, requisition))
         <=> (i \in DOMAIN e["applications"] /\ IsFor(e["applications"][i], candidate, requisition))
  OBVIOUS
<1> QED
  BY <1>1 DEF Standing, IsFor

\* A new application is the only one for its pair.
LEMMA CreatedStanding ==
  ASSUME TypeOK, NEW h \in Handlers, T!Write(h), T!Current(h),
         NEW r, r = handler[h].request, r.table = "applications", T!Inserts(r),
         NEW candidate, NEW requisition,
         NEW before, before = Standing(db, candidate, requisition),
         NEW after, after = Standing(db', candidate, requisition)
  PROVE  after = before \/ (r.op = "create" /\ before = {} /\ after = {"applied"})
<1> DEFINE apps == "applications"
           new == lastId[apps] + 1
           row == handler[h].values
<1>1. /\ r \in Requests /\ row = TalentAssigned(db, r) /\ apps \in TalentTables
      /\ lastId[apps] \in Nat /\ DOMAIN db[apps] \subseteq 1 .. lastId[apps]
  BY DEF T!Write, TypeOK, TalentTables
<1>2. /\ OthersStay(db, db', apps, new) /\ new \notin DOMAIN db[apps]
      /\ DOMAIN db'[apps] = DOMAIN db[apps] \cup {new} /\ db'[apps][new] = row
      /\ KeysHold(db', TalentUniqueKeys)
  BY WrittenRows
<1>3. r.op = "create" /\ row.status = "applied"
  BY <1>1, InsertedRows
<1> HIDE DEF new, row
<1>4. CASE IsFor(row, candidate, requisition)
  <2>1. after = {"applied"}
    <3>1. new \in DOMAIN db'[apps] /\ IsFor(db'[apps][new], candidate, requisition)
      BY <1>2, <1>4
    <3>2. \A i \in DOMAIN db'[apps] : IsFor(db'[apps][i], candidate, requisition) <=> i = new
      BY <1>2, <3>1, OneApplication
    <3>3. Standing(db', candidate, requisition) = {db'[apps][new].status}
      BY <3>1, <3>2 DEF Standing, IsFor
    <3> QED
      BY <1>2, <1>3, <3>3
  <2>2. \A i \in DOMAIN db[apps] : ~IsFor(db[apps][i], candidate, requisition)
    <3>1. \A i \in DOMAIN db[apps] : i \in DOMAIN db'[apps] /\ db'[apps][i] = db[apps][i] /\ i # new
      BY <1>1, <1>2 DEF OthersStay
    <3> QED
      BY <1>2, <1>4, <3>1, OneApplication
  <2>3. before = {}
    BY <2>2, NoStanding
  <2> QED
    BY <1>3, <2>1, <2>3
<1>5. CASE ~IsFor(row, candidate, requisition)
  <2>1. \A i \in DOMAIN db[apps] : i \in DOMAIN db'[apps] /\ db'[apps][i] = db[apps][i]
    BY <1>1, <1>2 DEF OthersStay
  <2>2. \A i \in DOMAIN db'[apps] : IsFor(db'[apps][i], candidate, requisition) => i \in DOMAIN db[apps]
    BY <1>2, <1>5
  <2> QED
    BY <2>1, <2>2, SameStanding
<1> QED
  BY <1>4, <1>5

\* A deletion leaves no other application for the pair.
LEMMA DeletedStanding ==
  ASSUME TypeOK, NEW h \in Handlers, T!Write(h), NEW r, r = handler[h].request,
         r.table = "applications", T!Deletes(r), NEW candidate, NEW requisition,
         NEW before, before = Standing(db, candidate, requisition),
         NEW after, after = Standing(db', candidate, requisition)
  PROVE  after = before \/ after = {}
<1> DEFINE apps == "applications"
           id == r.id
<1>1. /\ OthersStay(db, db', apps, id) /\ DOMAIN db'[apps] = DOMAIN db[apps] \ {id}
      /\ KeysHold(db, TalentUniqueKeys) /\ apps \in TalentTables
  BY DeletedRow DEF TypeOK, TalentTables
<1> HIDE DEF id
<1>2. \A i \in DOMAIN db'[apps] : i \in DOMAIN db[apps] /\ i # id /\ db'[apps][i] = db[apps][i]
  BY <1>1 DEF OthersStay
<1>3. CASE id \in DOMAIN db[apps] /\ IsFor(db[apps][id], candidate, requisition)
  <2>1. \A i \in DOMAIN db'[apps] : ~IsFor(db'[apps][i], candidate, requisition)
    BY <1>1, <1>2, <1>3, OneApplication
  <2> QED
    BY <2>1, NoStanding
<1>4. CASE ~(id \in DOMAIN db[apps] /\ IsFor(db[apps][id], candidate, requisition))
  <2>1. \A i \in DOMAIN db[apps] : IsFor(db[apps][i], candidate, requisition) => i \in DOMAIN db'[apps]
    BY <1>1, <1>4
  <2> QED
    BY <1>2, <2>1, SameStanding
<1> QED
  BY <1>3, <1>4

\* A transition goes along the funnel, and an edit takes the status along.
LEMMA ChangedStanding ==
  ASSUME TypeOK, NEW h \in Handlers, T!Write(h), T!Current(h),
         NEW r, r = handler[h].request, r.table = "applications", ~T!Inserts(r), ~T!Deletes(r),
         NEW candidate, NEW requisition,
         NEW before, before = Standing(db, candidate, requisition),
         NEW after, after = Standing(db', candidate, requisition)
  PROVE  \/ after = before
         \/ r.op = "transition" /\ \E s \in DOMAIN ValidTransitions :
              before = {s} /\ \E n \in ValidTransitions[s] : after = {n}
         \/ /\ r.op = "update" /\ DOMAIN r.values \cap ApplicationPair # {}
            /\ before = {} \/ after = {}
            /\ after # {} => after = {db["applications"][r.id].status}
<1> DEFINE apps == "applications"
           id == r.id
           c == handler[h]
           old == db[apps][id]
           row == db'[apps][id]
<1>1. /\ OthersStay(db, db', apps, id) /\ DOMAIN db'[apps] = DOMAIN db[apps] /\ id \in DOMAIN db[apps]
      /\ \A k \in Columns[apps] : row[k] = old[k] \/ MayChange(r, k, row[k])
  BY ChangedColumns
<1>2. /\ KeysHold(db, TalentUniqueKeys) /\ KeysHold(db', TalentUniqueKeys)
      /\ apps \in TalentTables /\ r \in Requests /\ old.status \in DOMAIN ValidTransitions
      /\ "status" \in DOMAIN old /\ c.values = TalentAssigned(db, r)
  <2>1. KeysHold(db', TalentUniqueKeys)
    BY WrittenRows
  <2>2. /\ KeysHold(db, TalentUniqueKeys) /\ apps \in TalentTables /\ r \in Requests
        /\ c.values = TalentAssigned(db, r)
    BY DEF T!Write, TypeOK, TalentTables
  <2>3. old.status \in DOMAIN ValidTransitions
    BY <1>1 DEF TypeOK, RowsAreSound
  <2>4. "status" \in DOMAIN old
    BY <1>1, <2>2 DEF TypeOK, Columns
  <2> QED
    BY <2>1, <2>2, <2>3, <2>4
<1>3. TalentErrors(db, r) = {} /\ c.loaded = old
  <2>1. r.op # "create"
    BY DEF T!Inserts
  <2> QED
    BY <2>1, CurrentChecks
<1>4. row = Patched(old, Dirty(old, c.values))
  BY <1>3, WrittenRows
<1>5. /\ {"candidate_id", "job_requisition_id", "status"} = Columns[apps]
      /\ {"candidate_id", "job_requisition_id", "applied_date"} = UpdateColumns[apps]
      /\ {"candidate_id", "job_requisition_id"} = ApplicationPair
  BY DEF Columns, UpdateColumns, ApplicationPair
<1>6. r.op = "transition" => row.status \in ValidTransitions[old.status]
  <2> SUFFICES ASSUME r.op = "transition" PROVE row.status \in ValidTransitions[old.status]
    OBVIOUS
  <2>1. c.values = r.values /\ DOMAIN r.values = {"status"}
    BY <1>2, RequestAssumption DEF TalentAssigned
  <2>2. row.status = r.values.status
    <3> DEFINE v == r.values
    <3>1. row = Patched(old, Dirty(old, v)) /\ DOMAIN v = {"status"} /\ "status" \in DOMAIN old
      BY <1>2, <1>4, <2>1
    <3> HIDE DEF row, old, v
    <3>2. row.status = v.status
      BY <3>1 DEF Patched, Dirty
    <3> QED
      BY <3>2 DEF v
  <2>3. ApplicationTransition(db, id, r.values.status) = {}
    BY <1>3 DEF TalentErrors
  <2> QED
    BY <2>2, <2>3 DEF ApplicationTransition, Raise
<1>7. r.op = "update" \/ r.op = "transition"
  BY <1>2, RequestTables DEF T!Inserts, T!Deletes
<1> HIDE DEF id, c, old, row
<1>8. /\ id \in DOMAIN db'[apps] /\ old = db[apps][id] /\ row = db'[apps][id]
      /\ \A i \in DOMAIN db[apps] \ {id} : i \in DOMAIN db'[apps] /\ db'[apps][i] = db[apps][i]
  BY <1>1, <1>2 DEF OthersStay, old, row
<1>9. ASSUME IsFor(old, candidate, requisition) PROVE before = {old.status}
  <2>1. \A i \in DOMAIN db[apps] : IsFor(db[apps][i], candidate, requisition) <=> i = id
    BY <1>1, <1>2, <1>8, <1>9, OneApplication
  <2> QED
    BY <1>1, <1>8, <2>1 DEF Standing, IsFor
<1>10. ASSUME IsFor(row, candidate, requisition) PROVE after = {row.status}
  <2>1. \A i \in DOMAIN db'[apps] : IsFor(db'[apps][i], candidate, requisition) <=> i = id
    BY <1>2, <1>8, <1>10, OneApplication
  <2> QED
    BY <1>8, <2>1 DEF Standing, IsFor
<1>11. ASSUME IsFor(old, candidate, requisition), IsFor(row, candidate, requisition)
       PROVE  before = {old.status} /\ after = {row.status}
  BY <1>9, <1>10, <1>11
<1>12. ASSUME IsFor(old, candidate, requisition), ~IsFor(row, candidate, requisition)
       PROVE  before = {old.status} /\ after = {}
  <2>1. before = {old.status}
    BY <1>9, <1>12
  <2>2. \A i \in DOMAIN db'[apps] : ~IsFor(db'[apps][i], candidate, requisition)
    BY <1>1, <1>2, <1>8, <1>12, OneApplication
  <2> QED
    BY <2>1, <2>2, NoStanding
<1>13. ASSUME ~IsFor(old, candidate, requisition), IsFor(row, candidate, requisition)
       PROVE  before = {} /\ after = {row.status}
  <2>1. after = {row.status}
    BY <1>10, <1>13
  <2>2. \A i \in DOMAIN db[apps] : ~IsFor(db[apps][i], candidate, requisition)
    BY <1>2, <1>8, <1>13, OneApplication
  <2> QED
    BY <2>1, <2>2, NoStanding
<1>14. ASSUME ~IsFor(old, candidate, requisition), ~IsFor(row, candidate, requisition)
       PROVE  after = before
  <2>1. \A i \in DOMAIN db[apps] : IsFor(db[apps][i], candidate, requisition) =>
          i \in DOMAIN db'[apps] /\ db'[apps][i] = db[apps][i]
    BY <1>8, <1>14
  <2>2. \A i \in DOMAIN db'[apps] : IsFor(db'[apps][i], candidate, requisition) =>
          i \in DOMAIN db[apps] /\ IsFor(db[apps][i], candidate, requisition)
    BY <1>1, <1>8, <1>14
  <2> QED
    BY <2>1, <2>2, SameStanding
<1>15. CASE r.op = "transition"
  <2>1. row.candidate_id = old.candidate_id /\ row.job_requisition_id = old.job_requisition_id
    BY <1>1, <1>5, <1>15 DEF MayChange
  <2>2. IsFor(row, candidate, requisition) <=> IsFor(old, candidate, requisition)
    BY <2>1 DEF IsFor
  <2> QED
    BY <1>2, <1>6, <1>11, <1>14, <1>15, <2>2
<1>16. CASE r.op = "update"
  <2>1. row.status = old.status
    BY <1>1, <1>5, <1>16 DEF MayChange
  <2>2. \/ IsFor(row, candidate, requisition) <=> IsFor(old, candidate, requisition)
        \/ DOMAIN r.values \cap ApplicationPair # {}
    <3>1. \/ row.candidate_id = old.candidate_id /\ row.job_requisition_id = old.job_requisition_id
          \/ "candidate_id" \in DOMAIN r.values \/ "job_requisition_id" \in DOMAIN r.values
      BY <1>1, <1>5, <1>16 DEF MayChange
    <3> QED
      BY <1>5, <3>1 DEF IsFor
  <2>3. db["applications"][r.id].status = old.status
    BY DEF old, id
  <2> QED
    BY <1>11, <1>12, <1>13, <1>14, <1>16, <2>1, <2>2, <2>3
<1> QED
  BY <1>7, <1>15, <1>16

\* A write to another table moves nobody.
LEMMA OtherTablesStand ==
  ASSUME TypeOK, NEW h \in Handlers, T!Write(h), handler[h].request.table # "applications",
         NEW candidate, NEW requisition
  PROVE  Standing(db', candidate, requisition) = Standing(db, candidate, requisition)
<1>1. \E id : OthersStay(db, db', handler[h].request.table, id)
  BY WrittenRows
<1>2. "applications" \in TalentTables
  BY DEF TalentTables
<1>3. /\ DOMAIN db'["applications"] = DOMAIN db["applications"]
      /\ \A i \in DOMAIN db["applications"] : db'["applications"][i] = db["applications"][i]
  BY <1>1, <1>2 DEF OthersStay
<1> QED
  BY <1>3, SameStanding

\* However many candidates, requisitions and applications there are, a request
\* that nobody overtook moves a candidate only along the funnel, or makes the
\* pair, takes it away, or points an application at another pair: the unique
\* key on the pair leaves it one application.
THEOREM FunnelAlwaysKept == Spec => FunnelKept
<1>1. TypeOK /\ [Next]_vars =>
        [\A h \in Handlers : T!Writes(h) /\ T!Current(h) =>
           \A candidate \in DOMAIN db["candidates"], requisition \in DOMAIN db["job_requisitions"] :
             LET r == handler[h].request
                 before == Standing(db, candidate, requisition)
                 after == Standing(db', candidate, requisition) IN
             \/ after = before
             \/ r.op = "create" /\ before = {} /\ after = {"applied"}
             \/ r.op = "delete" /\ after = {}
             \/ r.op = "transition" /\ \E s \in DOMAIN ValidTransitions :
                  before = {s} /\ \E n \in ValidTransitions[s] : after = {n}
             \/ /\ r.op = "update" /\ DOMAIN r.values \cap ApplicationPair # {}
                /\ before = {} \/ after = {}
                /\ after # {} => after = {db["applications"][r.id].status}]_vars
  <2> SUFFICES ASSUME TypeOK, Next, NEW h \in Handlers, T!Writes(h), T!Current(h),
                      NEW candidate, NEW requisition, NEW r, r = handler[h].request,
                      NEW before, before = Standing(db, candidate, requisition),
                      NEW after, after = Standing(db', candidate, requisition)
               PROVE  \/ after = before
                      \/ r.op = "create" /\ before = {} /\ after = {"applied"}
                      \/ r.op = "delete" /\ after = {}
                      \/ r.op = "transition" /\ \E s \in DOMAIN ValidTransitions :
                           before = {s} /\ \E n \in ValidTransitions[s] : after = {n}
                      \/ /\ r.op = "update" /\ DOMAIN r.values \cap ApplicationPair # {}
                         /\ before = {} \/ after = {}
                         /\ after # {} => after = {db["applications"][r.id].status}
    OBVIOUS
  <2>1. T!Write(h)
    BY OnlyWrites DEF TypeOK
  <2>2. CASE r.table # "applications"
    BY <2>1, <2>2, OtherTablesStand
  <2>3. CASE r.table = "applications" /\ T!Inserts(r)
    BY <2>1, <2>3, CreatedStanding
  <2>4. CASE r.table = "applications" /\ T!Deletes(r)
    BY <2>1, <2>4, DeletedStanding DEF T!Deletes
  <2>5. CASE r.table = "applications" /\ ~T!Inserts(r) /\ ~T!Deletes(r)
    BY <2>1, <2>5, ChangedStanding
  <2> QED
    BY <2>2, <2>3, <2>4, <2>5
<1> QED
  BY <1>1, TalentTypeCorrect, PTL DEF Spec, FunnelKept

=============================================================================
