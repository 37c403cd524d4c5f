------------------------- MODULE OrganizationProofs -------------------------
(***************************************************************************)
(* Whatever the number of handlers and whatever they are asked: every      *)
(* committed table is sound, and no write that was not overtaken closes a  *)
(* cycle of departments, teams or locations.  The argument about cycles is *)
(* MoveKeepsForest: a set with all its parents in itself, after the move,  *)
(* meets a set that holds the new parent and is closed upwards in a set    *)
(* that had all its parents in itself before.                              *)
(***************************************************************************)
EXTENDS Organization, FiniteSetTheorems, TLAPS

-----------------------------------------------------------------------------
(* Trees *)

\* The row that moves gets a parent from where the walk up did not meet it.
LEMMA MoveKeepsForest ==
  ASSUME NEW table, Acyclic(table), Null \notin DOMAIN table,
         NEW id \in DOMAIN table, NEW p,
         p # Null => ~WouldCreateCycle(table, id, p),
         NEW after, DOMAIN after = DOMAIN table,
         \A n \in DOMAIN table :
           after[n].parent_id = IF n = id THEN p ELSE table[n].parent_id
  PROVE  Acyclic(after)
<1> SUFFICES ASSUME NEW S \in SUBSET DOMAIN table, S # {},
                    \A n \in S : after[n].parent_id \in S
             PROVE  FALSE
  BY DEF Acyclic
<1>1. id \in S
  BY DEF Acyclic
<1>2. p \in S /\ p # Null
  BY <1>1
<1>3. PICK U \in SUBSET (DOMAIN table \cup {id, p}) :
        p \in U /\ ClosedUpwards(table, U) /\ id \notin U
  BY <1>2 DEF WouldCreateCycle, IsAncestorOrSelf
<1>4. \A n \in S \cap U : table[n].parent_id \in S \cap U
  <2> SUFFICES ASSUME NEW n \in S, n \in U PROVE table[n].parent_id \in S \cap U
    OBVIOUS
  <2>1. table[n].parent_id \in S
    BY <1>3
  <2>2. table[n].parent_id # Null
    BY <2>1
  <2> QED
    BY <1>3, <2>1, <2>2 DEF ClosedUpwards
<1> QED
  BY <1>2, <1>3, <1>4 DEF Acyclic

\* A new row is nobody's parent yet.
LEMMA NewRowKeepsForest ==
  ASSUME NEW table, Acyclic(table), NEW id, id \notin DOMAIN table, NEW p, p # id,
         \A n \in DOMAIN table : table[n].parent_id # id,
         NEW after, DOMAIN after = DOMAIN table \cup {id},
         \A n \in DOMAIN table : after[n].parent_id = table[n].parent_id,
         after[id].parent_id = p
  PROVE  Acyclic(after)
<1> SUFFICES ASSUME NEW S \in SUBSET (DOMAIN table \cup {id}), S # {},
                    \A n \in S : after[n].parent_id \in S
             PROVE  FALSE
  BY DEF Acyclic
<1>1. \A n \in S \ {id} : table[n].parent_id \in S \ {id}
  OBVIOUS
<1>2. S \ {id} # {}
  OBVIOUS
<1> QED
  BY <1>1, <1>2 DEF Acyclic

\* Fewer rows, and those that stay keep their parents.
LEMMA FewerRowsKeepForest ==
  ASSUME NEW table, Acyclic(table), NEW after, DOMAIN after \subseteq DOMAIN table,
         \A n \in DOMAIN after : after[n].parent_id = table[n].parent_id
  PROVE  Acyclic(after)
BY DEF Acyclic

-----------------------------------------------------------------------------
(* Statements *)

\* What an INSERT or UPDATE does to the tables.
LEMMA StoredTables ==
  ASSUME NEW d, DOMAIN d = OrganizationTables,
         NEW t \in OrganizationTables, NEW id, NEW row
  PROVE  /\ Stored(d, t, id, row) = [u \in OrganizationTables |-> Stored(d, t, id, row)[u]]
         /\ \A u \in OrganizationTables \ {t} : Stored(d, t, id, row)[u] = d[u]
         /\ DOMAIN Stored(d, t, id, row)[t] = DOMAIN d[t] \cup {id}
         /\ Stored(d, t, id, row)[t][id] = row
         /\ \A i \in DOMAIN d[t] \ {id} : Stored(d, t, id, row)[t][i] = d[t][i]
BY DEF Stored

\* The columns that matter to the trees and to the roles are among those that
\* every row has.
LEMMA KeyColumns ==
  /\ \A t \in Trees : "parent_id" \in Columns(t)
  /\ "user_id" \in Columns("user_roles") /\ "role_id" \in Columns("user_roles")
  /\ "name" \in Columns("roles")
<1>1. \A f \in OrganizationForeignKeys : f.column \in Columns(f.from)
  BY DEF Columns
<1>2. ASSUME NEW t \in Trees PROVE "parent_id" \in Columns(t)
  <2>1. Reference(t, "parent_id", t, "restrict") \in OrganizationForeignKeys
    BY DEF Trees, OrganizationForeignKeys, DepartmentKeys, TeamKeys, LocationKeys, References
  <2> QED
    BY <1>1, <2>1 DEF Reference
<1>3. /\ Reference("user_roles", "user_id", "users", "cascade") \in OrganizationForeignKeys
      /\ Reference("user_roles", "role_id", "roles", "cascade") \in OrganizationForeignKeys
  BY DEF OrganizationForeignKeys, AssignmentKeys, References
<1>4. Unique("roles", {"name"}) \in OrganizationUniqueKeys
  BY DEF OrganizationUniqueKeys
<1>5. "name" \in Columns("roles")
  BY <1>4 DEF Columns, Unique
<1> QED
  BY <1>1, <1>2, <1>3, <1>5 DEF Reference

\* What a DELETE does to the tables: rows go, and nothing changes in the rows
\* that stay, but that an employee may lose the link to a user.
LEMMA RemovedTables ==
  ASSUME NEW d, DOMAIN d = OrganizationTables, NEW t, NEW id,
         NEW after, after = Removed(d, OrganizationForeignKeys, t, id)
  PROVE  /\ after = [u \in OrganizationTables |-> after[u]]
         /\ \A u \in OrganizationTables :
              /\ DOMAIN after[u] \subseteq DOMAIN d[u]
              /\ \A i \in DOMAIN after[u] : DOMAIN after[u][i] = DOMAIN d[u][i]
         /\ \A u \in OrganizationTables \ {"hr_employees"} : \A i \in DOMAIN after[u] :
              \A c \in DOMAIN d[u][i] : after[u][i][c] = d[u][i][c]
         /\ \A i \in DOMAIN after["hr_employees"] :
              \A c \in DOMAIN d["hr_employees"][i] \ {"user_id"} :
                after["hr_employees"][i][c] = d["hr_employees"][i][c]
<1>1. ASSUME NEW f \in OrganizationForeignKeys, f.onDelete = "set null"
      PROVE  f.from = "hr_employees" /\ f.column = "user_id"
  <2> DEFINE link == f.onDelete = "set null" => f.from = "hr_employees" /\ f.column = "user_id"
  <2>1. ASSUME f \in EmployeeKeys PROVE link
    <3>1. f = Reference("hr_employees", "user_id", "users", "set null") => link
      <4>1. Reference("hr_employees", "user_id", "users", "set null").from = "hr_employees"
        BY DEF Reference
      <4>2. Reference("hr_employees", "user_id", "users", "set null").column = "user_id"
        BY DEF Reference
      <4> QED
        BY <4>1, <4>2, Zenon
    <3>2. f \in References("hr_employees", {"user_id"}, "users", "set null")
            => f = Reference("hr_employees", "user_id", "users", "set null")
      BY DEF References
    <3>3. \A c : f = Reference("hr_employees", c, EmployeeReferences[c], "restrict") => link
      BY DEF Reference
    <3> HIDE DEF link
    <3> QED
      BY <2>1, <3>1, <3>2, <3>3, Zenon DEF EmployeeKeys
  <2>2. ASSUME f \in OrganizationForeignKeys \ EmployeeKeys PROVE f.onDelete # "set null"
    <3>1. \A from, columns, to, onDelete :
            \A g \in References(from, columns, to, onDelete) : g.onDelete = onDelete
      BY DEF References, Reference
    <3> QED
      BY <2>2, <3>1 DEF OrganizationForeignKeys, DepartmentKeys, TeamKeys, PositionKeys,
           LocationKeys, AssignmentKeys
  <2> QED
    BY <1>1, <2>1, <2>2
<1>2. after = [u \in OrganizationTables |-> after[u]]
  BY DEF Removed
<1>3. \A u \in OrganizationTables :
        /\ DOMAIN after[u] \subseteq DOMAIN d[u]
        /\ \A i \in DOMAIN after[u] : DOMAIN after[u][i] = DOMAIN d[u][i]
  BY DEF Removed
<1>4. ASSUME NEW u \in OrganizationTables, NEW i \in DOMAIN after[u],
             NEW c \in DOMAIN d[u][i], u # "hr_employees" \/ c # "user_id"
      PROVE  after[u][i][c] = d[u][i][c]
  BY <1>1, <1>4 DEF Removed
<1>5. "hr_employees" \in OrganizationTables
  BY DEF OrganizationTables
<1> QED
  BY <1>2, <1>3, <1>4, <1>5

\* Transactions has the same tables: its definitions are those of Tables.
LEMMA SameTables ==
  ASSUME NEW d, NEW t, NEW id, NEW row, NEW values, NEW references, NEW keys,
         NEW required
  PROVE  /\ T!Stored(d, t, id, row) = Stored(d, t, id, row)
         /\ T!Removed(d, references, t, id) = Removed(d, references, t, id)
         /\ T!Patched(row, values) = Patched(row, values)
         /\ T!Dirty(row, values) = Dirty(row, values)
         /\ T!Exists(d, t, id) <=> Exists(d, t, id)
         /\ T!ReferencesHold(d, references) <=> ReferencesHold(d, references)
         /\ T!KeysHold(d, keys) <=> KeysHold(d, keys)
         /\ T!RowsComplete(d, required) <=> RowsComplete(d, required)
         /\ T!Complete(row, required) <=> Complete(row, required)
<1>1. T!Stored(d, t, id, row) = Stored(d, t, id, row)
  BY DEF T!Stored, Stored
<1>2. T!Removed(d, references, t, id) = Removed(d, references, t, id)
  BY DEF T!Removed, T!Dependents, Removed, Dependents
<1>3. T!Patched(row, values) = Patched(row, values) /\ T!Dirty(row, values) = Dirty(row, values)
  BY DEF T!Patched, Patched, T!Dirty, Dirty
<1>4. T!Exists(d, t, id) <=> Exists(d, t, id)
  BY DEF T!Exists, Exists
<1>5. T!ReferencesHold(d, references) <=> ReferencesHold(d, references)
  BY DEF T!ReferencesHold, ReferencesHold
<1>6. T!KeysHold(d, keys) <=> KeysHold(d, keys)
  BY DEF T!KeysHold, KeysHold, T!Taken, Taken
<1>7. T!Complete(row, required) <=> Complete(row, required)
  BY DEF T!Complete, Complete
<1>8. T!RowsComplete(d, required) <=> RowsComplete(d, required)
  BY DEF T!RowsComplete, RowsComplete, T!Complete, Complete
<1> QED
  BY <1>1, <1>2, <1>3, <1>4, <1>5, <1>6, <1>7, <1>8

\* Every request is for one of the tables.
LEMMA RequestTables ==
  \A r \in Requests : r.table \in DOMAIN OrganizationRequired /\ r.table \in OrganizationTables
BY RequestAssumption DEF OrganizationRequired, OrganizationTables

\* The write of a request, by kind.
LEMMA WriteByKind ==
  ASSUME TypeOK, NEW h \in Handlers, T!Write(h),
         NEW r, r = handler[h].request, NEW c, c = handler[h],
         NEW t, t = r.table, NEW new, new = lastId[t] + 1
  PROVE  /\ r.op = "create" =>
              db' = Stored(db, t, new, r.values) /\ lastId' = [lastId EXCEPT ![t] = @ + 1]
         /\ r.op = "update" =>
              /\ db' = Stored(db, t, r.id, Patched(db[t][r.id], Dirty(c.loaded, r.values)))
              /\ lastId' = lastId /\ r.id \in DOMAIN db[t]
         /\ r.op = "delete" =>
              db' = Removed(db, OrganizationForeignKeys, t, r.id) /\ lastId' = lastId
         /\ ReferencesHold(db', OrganizationForeignKeys)
         /\ KeysHold(db', OrganizationUniqueKeys)
         /\ RowsComplete(db', OrganizationRequired)
<1>1. /\ T!Accepted(db, c, new) /\ db' = T!Flushed(db, c, new)
      /\ lastId' = IF T!Inserts(r) THEN [lastId EXCEPT ![t] = @ + 1] ELSE lastId
      /\ c.request = r /\ c.values = r.values
  BY DEF T!Write, T!NextId, TypeOK
<1>2. r.op = "create" => T!Inserts(r)
  BY DEF T!Inserts
<1>3. r.op = "update" => ~T!Inserts(r) /\ ~T!Deletes(r)
  BY DEF T!Inserts, T!Deletes
<1>4. r.op = "delete" => ~T!Inserts(r) /\ T!Deletes(r)
  BY DEF T!Inserts, T!Deletes
<1>5. ASSUME r.op = "create" PROVE db' = Stored(db, t, new, r.values)
  BY <1>1, <1>2, <1>5, SameTables DEF T!Flushed
<1>6. ASSUME r.op = "update"
      PROVE  db' = Stored(db, t, r.id, Patched(db[t][r.id], Dirty(c.loaded, r.values)))
  <2>1. T!Flushed(db, c, new)
          = T!Stored(db, t, r.id, T!Patched(db[t][r.id], T!Dirty(c.loaded, r.values)))
    BY <1>1, <1>3, <1>6 DEF T!Flushed
  <2> QED
    BY <1>1, <2>1, SameTables
<1>7. ASSUME r.op = "update" PROVE r.id \in DOMAIN db[t]
  BY <1>1, <1>3, <1>7, SameTables DEF T!Accepted, Exists
<1>8. ASSUME r.op = "delete" PROVE db' = Removed(db, OrganizationForeignKeys, t, r.id)
  BY <1>1, <1>4, <1>8, SameTables DEF T!Flushed
<1>9. /\ ReferencesHold(db', OrganizationForeignKeys) /\ KeysHold(db', OrganizationUniqueKeys)
      /\ RowsComplete(db', OrganizationRequired)
  BY <1>1, SameTables DEF T!Accepted
<1> QED
  BY <1>1, <1>2, <1>3, <1>4, <1>5, <1>6, <1>7, <1>8, <1>9

\* The database keeps its tables, whatever the request: what the write of a
\* checked request leaves, row ids and columns.
LEMMA WrittenTables ==
  ASSUME TypeOK, NEW h \in Handlers, T!Write(h)
  PROVE  /\ db' = [t \in OrganizationTables |-> db'[t]]
         /\ lastId' \in [OrganizationTables -> Nat]
         /\ \A t \in OrganizationTables : DOMAIN db'[t] \subseteq 1 .. lastId'[t]
         /\ \A t \in OrganizationTables : \A id \in DOMAIN db'[t] :
              Columns(t) \subseteq DOMAIN db'[t][id]
<1> DEFINE r == handler[h].request
           c == handler[h]
           t == r.table
           new == lastId[t] + 1
<1>1. /\ r \in Requests /\ c.at = "checked" /\ c.values = r.values
      /\ r.op \in {"create", "update", "delete"} /\ t \in OrganizationTables
      /\ r.op = "create" => Columns(t) \subseteq DOMAIN r.values
      /\ lastId[t] \in Nat
  BY RequestAssumption, RequestTables DEF T!Write, TypeOK
<1>2. /\ r.op = "create" =>
           db' = Stored(db, t, new, r.values) /\ lastId' = [lastId EXCEPT ![t] = @ + 1]
      /\ r.op = "update" =>
           /\ db' = Stored(db, t, r.id, Patched(db[t][r.id], Dirty(c.loaded, r.values)))
           /\ lastId' = lastId /\ r.id \in DOMAIN db[t]
      /\ r.op = "delete" =>
           db' = Removed(db, OrganizationForeignKeys, t, r.id) /\ lastId' = lastId
  BY WriteByKind
<1>3. /\ DOMAIN db = OrganizationTables /\ lastId \in [OrganizationTables -> Nat]
      /\ \A u \in OrganizationTables : DOMAIN db[u] \subseteq 1 .. lastId[u]
      /\ \A u \in OrganizationTables : \A id \in DOMAIN db[u] :
           Columns(u) \subseteq DOMAIN db[u][id]
  BY DEF TypeOK
<1>4. CASE r.op = "create"
  <2>1. db' = Stored(db, t, new, r.values) /\ lastId' = [lastId EXCEPT ![t] = @ + 1]
    BY <1>2, <1>4
  <2>2. \A u \in OrganizationTables : DOMAIN db'[u] \subseteq 1 .. lastId'[u]
    <3> SUFFICES ASSUME NEW u \in OrganizationTables
                 PROVE  DOMAIN db'[u] \subseteq 1 .. lastId'[u]
      OBVIOUS
    <3>1. lastId'[u] = IF u = t THEN lastId[u] + 1 ELSE lastId[u]
      BY <1>1, <1>3, <2>1
    <3>2. /\ u # t => db'[u] = db[u]
          /\ u = t => DOMAIN db'[u] = DOMAIN db[u] \cup {new}
      BY <1>1, <1>3, <2>1, StoredTables
    <3> QED
      BY <1>1, <1>3, <3>1, <3>2
  <2>3. lastId' \in [OrganizationTables -> Nat]
    BY <1>1, <1>3, <2>1
  <2>4. \A u \in OrganizationTables : \A id \in DOMAIN db'[u] :
         Columns(u) \subseteq DOMAIN db'[u][id]
    BY <1>1, <1>3, <1>4, <2>1, StoredTables
  <2>5. db' = [u \in OrganizationTables |-> db'[u]]
    BY <1>1, <1>3, <2>1, StoredTables
  <2> QED
    BY <2>2, <2>3, <2>4, <2>5
<1>5. CASE r.op = "update"
  <2> DEFINE row == Patched(db[t][r.id], Dirty(c.loaded, r.values))
  <2>1. db' = Stored(db, t, r.id, row) /\ lastId' = lastId /\ r.id \in DOMAIN db[t]
    BY <1>2, <1>5
  <2>2. DOMAIN db[t][r.id] \subseteq DOMAIN row
    BY DEF Patched
  <2> HIDE DEF row
  <2>3. \A u \in OrganizationTables : DOMAIN db'[u] = DOMAIN db[u]
    <3>1. \A u \in OrganizationTables \ {t} : db'[u] = db[u]
      BY <1>1, <1>3, <2>1, StoredTables
    <3>2. DOMAIN db'[t] = DOMAIN db[t] \cup {r.id}
      BY <1>1, <1>3, <2>1, StoredTables
    <3> QED
      BY <2>1, <3>1, <3>2
  <2>4. \A u \in OrganizationTables : \A id \in DOMAIN db'[u] :
         Columns(u) \subseteq DOMAIN db'[u][id]
    BY <1>1, <1>3, <2>1, <2>2, StoredTables
  <2>5. db' = [u \in OrganizationTables |-> db'[u]]
    BY <1>1, <1>3, <2>1, StoredTables
  <2> QED
    BY <1>3, <2>1, <2>3, <2>4, <2>5
<1>6. CASE r.op = "delete"
  <2>1. db' = Removed(db, OrganizationForeignKeys, t, r.id) /\ lastId' = lastId
    BY <1>2, <1>6
  <2> QED
    BY <1>3, <2>1, RemovedTables
<1> QED
  BY <1>1, <1>4, <1>5, <1>6

\* The types and the constraints of the tables hold, whatever the database
\* starts with and whatever is asked.
LEMMA OrganizationTypeStep == TypeOK /\ [Next]_vars => TypeOK'
<1> SUFFICES ASSUME TypeOK, [Next]_vars PROVE TypeOK'
  OBVIOUS
<1>1. ASSUME NEW h \in Handlers, NEW r \in Requests, T!Enter(h, r) PROVE TypeOK'
  BY <1>1 DEF T!Enter, TypeOK
<1>2. ASSUME NEW h \in Handlers, T!Check(h) PROVE TypeOK'
  <2>1. /\ db' = db /\ lastId' = lastId /\ handler[h].at = "entered"
        /\ \E row : handler' = [handler EXCEPT ![h] =
              [at |-> "checked", request |-> handler[h].request,
               values |-> handler[h].request.values, loaded |-> row]]
    <3>1. T!Check(h) => \E row : handler' = [handler EXCEPT ![h] =
              [at |-> "checked", request |-> handler[h].request,
               values |-> OrganizationAssigned(db, handler[h].request), loaded |-> row]]
      BY Zenon DEF T!Check
    <3> QED
      BY <1>2, <3>1 DEF T!Check, OrganizationAssigned
  <2>2. PICK row : handler' = [handler EXCEPT ![h] =
              [at |-> "checked", request |-> handler[h].request,
               values |-> handler[h].request.values, loaded |-> row]]
    BY <2>1
  <2>3. /\ DOMAIN handler' = Handlers
        /\ handler'[h].request = handler[h].request
        /\ handler'[h].values = handler'[h].request.values
        /\ \A g \in Handlers \ {h} : handler'[g] = handler[g]
    BY <2>2 DEF TypeOK
  <2>4. /\ \A g \in Handlers : handler'[g].at # "idle" => handler'[g].request \in Requests
        /\ \A g \in Handlers :
             handler'[g].at = "checked" => handler'[g].values = handler'[g].request.values
    BY <2>1, <2>3 DEF TypeOK
  <2>5. db' = db /\ lastId' = lastId
    BY <2>1
  <2> QED
    BY <2>3, <2>4, <2>5 DEF TypeOK
<1>3. ASSUME NEW h \in Handlers, T!Refuse(h) \/ T!Fail(h) PROVE TypeOK'
  <2>1. handler' = [handler EXCEPT ![h] = T!Idle] /\ db' = db /\ lastId' = lastId
    BY <1>3 DEF T!Refuse, T!Fail
  <2>2. /\ DOMAIN handler' = Handlers
        /\ handler'[h].at = "idle"
        /\ \A g \in Handlers \ {h} : handler'[g] = handler[g]
    BY <2>1 DEF TypeOK, T!Idle
  <2>3. /\ \A g \in Handlers : handler'[g].at # "idle" => handler'[g].request \in Requests
        /\ \A g \in Handlers :
             handler'[g].at = "checked" => handler'[g].values = handler'[g].request.values
    BY <2>2 DEF TypeOK
  <2> QED
    BY <2>1, <2>2, <2>3 DEF TypeOK
<1>4. ASSUME NEW h \in Handlers, T!Write(h) PROVE TypeOK'
  <2>1. /\ ReferencesHold(db', OrganizationForeignKeys) /\ KeysHold(db', OrganizationUniqueKeys)
        /\ RowsComplete(db', OrganizationRequired)
    BY <1>4, WriteByKind
  <2>2. handler' = [handler EXCEPT ![h] = T!Idle]
    BY <1>4 DEF T!Write
  <2>3. /\ DOMAIN handler' = Handlers
        /\ \A g \in Handlers : handler'[g].at # "idle" => handler'[g].request \in Requests
        /\ \A g \in Handlers :
             handler'[g].at = "checked" => handler'[g].values = handler'[g].request.values
    BY <2>2 DEF TypeOK, T!Idle
  <2> QED
    BY <1>4, <2>1, <2>3, WrittenTables DEF TypeOK
<1>5. CASE UNCHANGED vars
  BY <1>5 DEF vars, TypeOK
<1> QED
  BY <1>1, <1>2, <1>3, <1>4, <1>5 DEF Next, T!Next, T!Step

THEOREM OrganizationTypeCorrect == Spec => []TypeOK
<1>1. Init => TypeOK
  <2> SUFFICES ASSUME Init PROVE TypeOK
    OBVIOUS
  <2>1. /\ db = Database /\ lastId = [t \in OrganizationTables |-> Cardinality(DOMAIN Database[t])]
        /\ handler = [h \in Handlers |-> T!Idle]
    <3>1. DOMAIN Database = OrganizationTables
      BY DatabaseAssumption
    <3>2. /\ db = Database /\ lastId = [t \in DOMAIN Database |-> Cardinality(DOMAIN Database[t])]
          /\ handler = [h \in Handlers |-> T!Idle]
      <4>1. \A S : T!Cardinality(S) = Cardinality(S)
        BY DEF T!Cardinality, Cardinality
      <4> QED
        BY <4>1 DEF Init, T!StartWith
    <3> QED
      BY <3>1, <3>2, Zenon
  <2>2. ASSUME NEW t \in OrganizationTables
        PROVE  lastId[t] \in Nat /\ DOMAIN db[t] = 1 .. lastId[t]
    BY <2>1, FS_CardinalityType, DatabaseAssumption
  <2> QED
    BY <2>1, <2>2, DatabaseAssumption DEF TypeOK, T!Idle
<1> QED
  BY <1>1, OrganizationTypeStep, PTL DEF Spec

-----------------------------------------------------------------------------
(* The forest *)

\* Only a write moves a handler from its checks to idle with a changed database.
LEMMA OnlyWrites ==
  ASSUME NEW h \in Handlers, T!Writes(h), Next, DOMAIN handler = Handlers
  PROVE  T!Write(h)
<1>1. PICK g \in Handlers : T!Step(g) \/ \E r \in Requests : T!Enter(g, r)
  BY DEF Next, T!Next
<1>2. g = h
  BY <1>1 DEF T!Writes, T!Step, T!Enter, T!Check, T!Refuse, T!Write, T!Fail, T!Idle
<1> QED
  BY <1>1, <1>2 DEF T!Writes, T!Step, T!Enter, T!Check, T!Refuse, T!Write, T!Fail, T!Idle

\* What the services of departments, teams and locations check of a new row's
\* parent, and of the parent of a row after an update.
LEMMA ParentChecked ==
  ASSUME NEW d, NEW r, r.table \in Trees, OrganizationErrors(d, r) = {}
  PROVE  /\ r.op = "create" =>
              r.values.parent_id = Null \/ r.values.parent_id \in DOMAIN d[r.table]
         /\ r.op = "update" =>
              LET row == Patched(d[r.table][r.id], r.values) IN
              \/ row.parent_id = Null
              \/ ~WouldCreateCycle(d[r.table], r.id, row.parent_id)
              \/ r.table = "locations" /\ "parent_id" \notin DOMAIN r.values
<1>1. \A condition, error : Raise(condition, error) = {} => ~condition
  BY DEF Raise
<1>2. CASE r.op = "create"
  <2>1. CreateErrors(d, r.table, r.values) = {}
    BY <1>2 DEF OrganizationErrors
  <2> QED
    BY <1>1, <1>2, <2>1 DEF CreateErrors, DepartmentCreate, TeamCreate, TeamParentErrors,
         LocationCreate, Trees, Exists
<1>3. CASE r.op = "update"
  <2>1. UpdateErrors(d, r.table, r.id, r.values) = {}
    BY <1>3 DEF OrganizationErrors
  <2> QED
    BY <1>1, <1>3, <2>1 DEF UpdateErrors, DepartmentUpdate, TeamUpdate, LocationUpdate, Trees
<1> QED
  BY <1>2, <1>3

\* A row's columns after an update, as the service checked them: what the
\* session loaded is what is in the table.
LEMMA PatchedByDirty ==
  ASSUME NEW row, NEW values, "parent_id" \in DOMAIN row
  PROVE  Patched(row, Dirty(row, values)).parent_id = Patched(row, values).parent_id
BY DEF Patched, Dirty

\* A write that was not overtaken keeps each tree a forest: a new row has a
\* parent that was there before it, a moved one a parent from which the walk
\* up does not come back to it, and a deletion moves nothing.
LEMMA CurrentWriteKeepsForest ==
  ASSUME TypeOK, NEW h \in Handlers, T!Write(h), T!Current(h),
         NEW t \in Trees, Acyclic(db[t])
  PROVE  Acyclic(db'[t])
<1> DEFINE r == handler[h].request
           c == handler[h]
           new == lastId[r.table] + 1
<1>1. /\ r.op \in {"create", "update", "delete"} /\ r.table \in OrganizationTables
      /\ r.op = "create" /\ r.table = t => "parent_id" \in DOMAIN r.values
      /\ r.op = "update" => c.loaded = db[r.table][r.id]
      /\ t \in OrganizationTables /\ lastId[t] \in Nat
      /\ DOMAIN db[t] \subseteq 1 .. lastId[t]
      /\ \A id \in DOMAIN db[t] : "parent_id" \in DOMAIN db[t][id]
      /\ DOMAIN db = OrganizationTables
  BY RequestAssumption, RequestTables, KeyColumns DEF T!Write, T!Current, TypeOK, Trees, OrganizationTables
<1>2. r.op = "create" => OrganizationErrors(db, r) = {}
  BY DEF T!Current, T!Refused, T!Found
<1>3. /\ r.op = "create" => db' = Stored(db, r.table, new, r.values)
      /\ r.op = "update" =>
           /\ db' = Stored(db, r.table, r.id, Patched(db[r.table][r.id], Dirty(c.loaded, r.values)))
           /\ r.id \in DOMAIN db[r.table]
      /\ r.op = "delete" => db' = Removed(db, OrganizationForeignKeys, r.table, r.id)
  BY WriteByKind
<1>4. r.op = "update" => OrganizationErrors(db, r) = {}
  BY <1>3, SameTables DEF T!Current, T!Refused, T!Found, Exists
<1>5. Null \notin DOMAIN db[t]
  BY <1>1, NullIsNoId
<1>6. \A n \in DOMAIN db[t] : db[t][n].parent_id \in DOMAIN db[t] \cup {Null}
  <2>1. Reference(t, "parent_id", t, "restrict") \in OrganizationForeignKeys
    BY DEF Trees, OrganizationForeignKeys, DepartmentKeys, TeamKeys, LocationKeys, References
  <2>2. ReferencesHold(db, OrganizationForeignKeys)
    BY DEF TypeOK
  <2> QED
    BY <2>1, <2>2 DEF ReferencesHold, Reference
<1>7. CASE r.table # t /\ r.op # "delete"
  BY <1>1, <1>3, <1>7, StoredTables
<1>8. CASE r.op = "create" /\ r.table = t
  <2>1. r.values.parent_id = Null \/ r.values.parent_id \in DOMAIN db[t]
    BY <1>2, <1>8, ParentChecked
  <2>2. new \notin DOMAIN db[t] /\ new # Null
    BY <1>1, <1>8, NullIsNoId
  <2>3. /\ DOMAIN db'[t] = DOMAIN db[t] \cup {new} /\ db'[t][new] = r.values
        /\ \A n \in DOMAIN db[t] : db'[t][n] = db[t][n]
    BY <1>1, <1>3, <1>8, <2>2, StoredTables
  <2>4. \A n \in DOMAIN db[t] : db[t][n].parent_id # new /\ db'[t][n].parent_id = db[t][n].parent_id
    BY <1>6, <2>2, <2>3
  <2>5. r.values.parent_id # new /\ db'[t][new].parent_id = r.values.parent_id
    BY <2>1, <2>2, <2>3
  <2> HIDE DEF new
  <2> QED
    BY <2>2, <2>3, <2>4, <2>5, NewRowKeepsForest, Zenon
<1>9. CASE r.op = "update" /\ r.table = t
  <2> DEFINE row == Patched(db[t][r.id], Dirty(db[t][r.id], r.values))
             sent == Patched(db[t][r.id], r.values)
  <2>1. r.id \in DOMAIN db[t] /\ db' = Stored(db, t, r.id, row)
    BY <1>1, <1>3, <1>9
  <2>2. row.parent_id = sent.parent_id
    BY <1>1, <2>1, PatchedByDirty
  <2>3. \/ sent.parent_id = Null
        \/ ~WouldCreateCycle(db[t], r.id, sent.parent_id)
        \/ "parent_id" \notin DOMAIN r.values
    BY <1>4, <1>9, ParentChecked
  <2>4. "parent_id" \notin DOMAIN r.values => sent.parent_id = db[t][r.id].parent_id
    BY <1>1, <2>1 DEF Patched
  <2> HIDE DEF row, sent
  <2>5. /\ DOMAIN db'[t] = DOMAIN db[t] \cup {r.id}
        /\ db'[t][r.id] = row
        /\ \A n \in DOMAIN db[t] \ {r.id} : db'[t][n] = db[t][n]
    BY <1>1, <2>1, StoredTables
  <2>6. DOMAIN db'[t] = DOMAIN db[t]
    BY <2>1, <2>5
  <2>7. CASE "parent_id" \notin DOMAIN r.values
    <3>1. \A n \in DOMAIN db'[t] : db'[t][n].parent_id = db[t][n].parent_id
      BY <2>2, <2>4, <2>5, <2>6, <2>7
    <3> QED
      BY <2>6, <3>1, FewerRowsKeepForest
  <2>8. CASE "parent_id" \in DOMAIN r.values
    <3>1. \A n \in DOMAIN db[t] :
            db'[t][n].parent_id = IF n = r.id THEN sent.parent_id ELSE db[t][n].parent_id
      BY <2>2, <2>5, <2>6
    <3>2. sent.parent_id # Null => ~WouldCreateCycle(db[t], r.id, sent.parent_id)
      BY <2>3, <2>8
    <3> DEFINE table == db[t]
               after == db'[t]
               id == r.id
               p == sent.parent_id
    <3>3. /\ Acyclic(table) /\ Null \notin DOMAIN table /\ id \in DOMAIN table
          /\ p # Null => ~WouldCreateCycle(table, id, p)
          /\ DOMAIN after = DOMAIN table
          /\ \A n \in DOMAIN table : after[n].parent_id = IF n = id THEN p ELSE table[n].parent_id
      BY <1>5, <2>1, <2>6, <3>1, <3>2
    <3> HIDE DEF table, after, id, p
    <3>4. Acyclic(after)
      BY <3>3, MoveKeepsForest
    <3> QED
      BY <3>4 DEF after
  <2> QED
    BY <2>7, <2>8
<1>10. CASE r.op = "delete"
  <2>1. db' = Removed(db, OrganizationForeignKeys, r.table, r.id)
    BY <1>3, <1>10
  <2>2. /\ DOMAIN db'[t] \subseteq DOMAIN db[t]
        /\ \A n \in DOMAIN db'[t] : db'[t][n].parent_id = db[t][n].parent_id
    BY <1>1, <2>1, RemovedTables DEF Trees
  <2> QED
    BY <2>2, FewerRowsKeepForest
<1> QED
  BY <1>1, <1>7, <1>8, <1>9, <1>10

\* No write that was not overtaken closes a cycle of departments, teams or
\* locations, on any database, whatever the number of handlers and whatever
\* they are asked.
THEOREM CurrentWritesAlwaysKeepForest == Spec => CurrentWritesKeepForest
<1>1. TypeOK /\ [Next]_vars =>
        [\A h \in Handlers : T!Writes(h) /\ T!Current(h) =>
           \A t \in Trees : Acyclic(db[t]) => Acyclic(db'[t])]_vars
  <2> SUFFICES ASSUME TypeOK, Next, NEW h \in Handlers, T!Writes(h), T!Current(h),
                      NEW t \in Trees, Acyclic(db[t])
               PROVE  Acyclic(db'[t])
    OBVIOUS
  <2>1. T!Write(h)
    BY OnlyWrites DEF TypeOK
  <2> QED
    BY <2>1, CurrentWriteKeepsForest
<1> QED
  BY <1>1, OrganizationTypeCorrect, PTL DEF Spec, CurrentWritesKeepForest

-----------------------------------------------------------------------------
(* The last administrator *)

\* Without an admin, nobody is let through to the roles and their assignments.
LEMMA LockedOutNobodyEnters ==
  ASSUME LockedOut, NEW r, OrganizationPermitted(db, r)
  PROVE  r.table \notin {"roles", "user_roles"}
BY DEF LockedOut, Admins, OrganizationPermitted, OpenTables

\* An assignment names a user there was, so that a new user has none, and no
\* write but to the roles and their assignments changes an assignment that
\* stays, or the name of a role.
LEMMA OtherWritesMakeNoAdmin ==
  ASSUME TypeOK, NEW h \in Handlers, T!Write(h),
         handler[h].request.table \notin {"roles", "user_roles"}, Admins(db) = {}
  PROVE  Admins(db') = {}
<1> DEFINE r == handler[h].request
           t == r.table
           new == lastId[t] + 1
<1>1. /\ r.op \in {"create", "update", "delete"} /\ t \in OrganizationTables
      /\ lastId[t] \in Nat /\ DOMAIN db = OrganizationTables
      /\ {"users", "roles", "user_roles"} \subseteq OrganizationTables \ {"hr_employees"}
      /\ \A u \in OrganizationTables : DOMAIN db[u] \subseteq 1 .. lastId[u]
      /\ \A a \in DOMAIN db["user_roles"] : {"user_id", "role_id"} \subseteq DOMAIN db["user_roles"][a]
      /\ \A i \in DOMAIN db["roles"] : "name" \in DOMAIN db["roles"][i]
  BY RequestAssumption, RequestTables, KeyColumns DEF T!Write, TypeOK, OrganizationTables
<1>2. ReferencesHold(db, OrganizationForeignKeys) /\ ReferencesHold(db', OrganizationForeignKeys)
  BY WriteByKind DEF TypeOK
<1>3. \A d : ReferencesHold(d, OrganizationForeignKeys) =>
        \A a \in DOMAIN d["user_roles"] :
          /\ d["user_roles"][a].user_id \in DOMAIN d["users"] \cup {Null}
          /\ d["user_roles"][a].role_id \in DOMAIN d["roles"] \cup {Null}
  <2>1. /\ Reference("user_roles", "user_id", "users", "cascade") \in OrganizationForeignKeys
        /\ Reference("user_roles", "role_id", "roles", "cascade") \in OrganizationForeignKeys
    BY DEF OrganizationForeignKeys, AssignmentKeys, References
  <2> QED
    BY <2>1 DEF ReferencesHold, Reference
<1>4. /\ r.op = "create" => db' = Stored(db, t, new, r.values)
      /\ r.op = "update" =>
           /\ db' = Stored(db, t, r.id, Patched(db[t][r.id], Dirty(handler[h].loaded, r.values)))
           /\ r.id \in DOMAIN db[t]
      /\ r.op = "delete" => db' = Removed(db, OrganizationForeignKeys, t, r.id)
  BY WriteByKind
<1>5. /\ \A u \in {"roles", "user_roles"} : DOMAIN db'[u] \subseteq DOMAIN db[u]
      /\ \A a \in DOMAIN db'["user_roles"] :
           /\ db'["user_roles"][a].user_id = db["user_roles"][a].user_id
           /\ db'["user_roles"][a].role_id = db["user_roles"][a].role_id
      /\ \A i \in DOMAIN db'["roles"] : db'["roles"][i].name = db["roles"][i].name
      /\ \A u \in DOMAIN db'["users"] : u \in DOMAIN db["users"] \/ u \notin DOMAIN db["users"] \cup {Null}
  <2>1. CASE r.op \in {"create", "update"}
    <3>1. PICK id, row : db' = Stored(db, t, id, row) /\ id \in Int
      BY <1>1, <1>4, <2>1
    <3>2. db'["roles"] = db["roles"] /\ db'["user_roles"] = db["user_roles"]
      BY <1>1, <3>1, StoredTables
    <3>3. DOMAIN db'["users"] \subseteq DOMAIN db["users"] \cup {id}
      BY <1>1, <3>1, StoredTables
    <3> QED
      BY <3>1, <3>2, <3>3, NullIsNoId
  <2>2. CASE r.op = "delete"
    BY <1>1, <1>4, <2>2, RemovedTables
  <2> QED
    BY <1>1, <2>1, <2>2
<1> QED
  BY <1>2, <1>3, <1>5 DEF Admins, HasRole

\* Once the last administrator is gone, no sequence of requests, of any users,
\* makes anyone an administrator again.
THEOREM LockoutsLast == Spec => LockoutLasts
<1>1. TypeOK /\ [Next]_vars => [LockedOut => LockedOut']_vars
  <2> SUFFICES ASSUME TypeOK, Next, LockedOut PROVE LockedOut'
    OBVIOUS
  <2>1. ASSUME NEW h \in Handlers, NEW r \in Requests, T!Enter(h, r) PROVE LockedOut'
    <3>1. db' = db /\ handler' = [handler EXCEPT ![h] = [at |-> "entered", request |-> r]]
      BY <2>1 DEF T!Enter
    <3>2. r.table \notin {"roles", "user_roles"}
      BY <2>1, LockedOutNobodyEnters DEF T!Enter
    <3> QED
      BY <3>1, <3>2 DEF LockedOut, TypeOK
  <2>2. ASSUME NEW h \in Handlers, T!Check(h) PROVE LockedOut'
    <3>1. /\ db' = db /\ handler[h].at = "entered"
          /\ handler'[h].request = handler[h].request
          /\ \A g \in Handlers \ {h} : handler'[g] = handler[g]
      BY <2>2 DEF T!Check, TypeOK
    <3> QED
      BY <3>1 DEF LockedOut
  <2>3. ASSUME NEW h \in Handlers, T!Refuse(h) \/ T!Fail(h) PROVE LockedOut'
    <3>1. db' = db /\ handler' = [handler EXCEPT ![h] = T!Idle]
      BY <2>3 DEF T!Refuse, T!Fail
    <3> QED
      BY <3>1 DEF LockedOut, TypeOK, T!Idle
  <2>4. ASSUME NEW h \in Handlers, T!Write(h) PROVE LockedOut'
    <3>1. handler[h].at = "checked" /\ handler' = [handler EXCEPT ![h] = T!Idle]
      BY <2>4 DEF T!Write
    <3>2. Admins(db') = {}
      BY <2>4, <3>1, OtherWritesMakeNoAdmin DEF LockedOut
    <3> QED
      BY <3>1, <3>2 DEF LockedOut, TypeOK, T!Idle
  <2> QED
    BY <2>1, <2>2, <2>3, <2>4 DEF Next, T!Next, T!Step
<1> QED
  BY <1>1, OrganizationTypeCorrect, PTL DEF Spec, LockoutLasts

-----------------------------------------------------------------------------
(* What the services check is what the database will *)

\* The foreign keys, table by table.
LEMMA ForeignKeysByTable ==
  ASSUME NEW f \in OrganizationForeignKeys
  PROVE  \/ f.from = "departments" /\ f.column = "organization_id" /\ f.to = "organizations"
         \/ f.from = "departments" /\ f.column = "parent_id" /\ f.to = "departments"
         \/ f.from = "teams" /\ f.column = "organization_id" /\ f.to = "organizations"
         \/ f.from = "teams" /\ f.column = "department_id" /\ f.to = "departments"
         \/ f.from = "teams" /\ f.column = "parent_id" /\ f.to = "teams"
         \/ f.from = "positions" /\ f.column = "organization_id" /\ f.to = "organizations"
         \/ f.from = "positions" /\ f.column = "department_id" /\ f.to = "departments"
         \/ f.from = "locations" /\ f.column = "location_type_id" /\ f.to = "location_types"
         \/ f.from = "locations" /\ f.column = "parent_id" /\ f.to = "locations"
         \/ /\ f.from = "hr_employees" /\ f.column \in DOMAIN EmployeeReferences
            /\ f.to = EmployeeReferences[f.column]
         \/ f.from = "hr_employees" /\ f.column = "user_id" /\ f.to = "users"
         \/ f.from = "user_roles" /\ f.column = "user_id" /\ f.to = "users"
         \/ f.from = "user_roles" /\ f.column = "role_id" /\ f.to = "roles"
<1>1. \A from, columns, to, onDelete : \A g \in References(from, columns, to, onDelete) :
        g.from = from /\ g.column \in columns /\ g.to = to
  BY DEF References, Reference
<1>2. \A c \in DOMAIN EmployeeReferences :
        LET g == Reference("hr_employees", c, EmployeeReferences[c], "restrict") IN
        g.from = "hr_employees" /\ g.column = c /\ g.to = EmployeeReferences[c]
  BY DEF Reference
<1>3. ASSUME f \in EmployeeKeys
      PROVE  \/ /\ f.from = "hr_employees" /\ f.column \in DOMAIN EmployeeReferences
                /\ f.to = EmployeeReferences[f.column]
             \/ f.from = "hr_employees" /\ f.column = "user_id" /\ f.to = "users"
  <2> DEFINE goal ==
        \/ /\ f.from = "hr_employees" /\ f.column \in DOMAIN EmployeeReferences
           /\ f.to = EmployeeReferences[f.column]
        \/ f.from = "hr_employees" /\ f.column = "user_id" /\ f.to = "users"
  <2>1. f \in References("hr_employees", {"user_id"}, "users", "set null") =>
          f.from = "hr_employees" /\ f.column = "user_id" /\ f.to = "users"
    <3>1. LET g == Reference("hr_employees", "user_id", "users", "set null") IN
          g.from = "hr_employees" /\ g.column = "user_id" /\ g.to = "users"
      BY DEF Reference
    <3>2. f \in References("hr_employees", {"user_id"}, "users", "set null")
            => f = Reference("hr_employees", "user_id", "users", "set null")
      BY DEF References
    <3> QED
      BY <3>1, <3>2, Zenon
  <2>4. f \in References("hr_employees", {"user_id"}, "users", "set null") => goal
    BY <2>1, Zenon
  <2>2. (\E c \in DOMAIN EmployeeReferences :
               f = Reference("hr_employees", c, EmployeeReferences[c], "restrict")) => goal
    BY <1>2 DEF goal
  <2>3. goal
    <3> HIDE DEF goal
    <3> QED
      BY <1>3, <2>4, <2>2, Zenon DEF EmployeeKeys
  <2> QED
    BY <2>3
<1> QED
  BY <1>1, <1>3 DEF OrganizationForeignKeys, DepartmentKeys, TeamKeys, PositionKeys,
     LocationKeys, AssignmentKeys

\* Every key is of a table, and names columns that the table's rows have.
LEMMA KeysOfTables ==
  /\ \A f \in OrganizationForeignKeys :
       /\ f.from \in OrganizationTables /\ f.to \in OrganizationTables
       /\ f.column \in Columns(f.from)
  /\ \A k \in OrganizationUniqueKeys : k.table \in OrganizationTables /\ k.columns \subseteq Columns(k.table)
<1>1. \A c \in DOMAIN EmployeeReferences : EmployeeReferences[c] \in OrganizationTables
  BY DEF EmployeeReferences, OrganizationTables
<1>2. \A f \in OrganizationForeignKeys :
        f.from \in OrganizationTables /\ f.to \in OrganizationTables
  BY <1>1, ForeignKeysByTable DEF OrganizationTables
<1>3. \A f \in OrganizationForeignKeys : f.column \in Columns(f.from)
  BY DEF Columns
<1>4. \A k \in OrganizationUniqueKeys : k.table \in OrganizationTables
  BY DEF OrganizationUniqueKeys, Unique, OrganizationTables
<1>5. \A k \in OrganizationUniqueKeys : k.columns \subseteq Columns(k.table)
  BY DEF Columns
<1> QED
  BY <1>2, <1>3, <1>4, <1>5

\* A statement keeps the constraints if the row it stores does.
LEMMA StoredKeepsConstraints ==
  ASSUME NEW d, DOMAIN d = OrganizationTables, NEW t \in OrganizationTables, NEW id, NEW row,
         ReferencesHold(d, OrganizationForeignKeys), KeysHold(d, OrganizationUniqueKeys),
         \A f \in OrganizationForeignKeys :
           f.from = t => row[f.column] \in DOMAIN d[f.to] \cup {Null},
         \A k \in OrganizationUniqueKeys : k.table = t => ~Taken(d, t, id, k.columns, row)
  PROVE  /\ ReferencesHold(Stored(d, t, id, row), OrganizationForeignKeys)
         /\ KeysHold(Stored(d, t, id, row), OrganizationUniqueKeys)
<1> DEFINE after == Stored(d, t, id, row)
<1>1. /\ \A u \in OrganizationTables \ {t} : after[u] = d[u]
      /\ DOMAIN after[t] = DOMAIN d[t] \cup {id} /\ after[t][id] = row
      /\ \A i \in DOMAIN d[t] \ {id} : after[t][i] = d[t][i]
  BY StoredTables
<1>2. \A u \in OrganizationTables : DOMAIN d[u] \subseteq DOMAIN after[u]
  BY <1>1
<1> HIDE DEF after
<1>3. ReferencesHold(after, OrganizationForeignKeys)
  <2> SUFFICES ASSUME NEW f \in OrganizationForeignKeys, NEW i \in DOMAIN after[f.from]
               PROVE  after[f.from][i][f.column] \in DOMAIN after[f.to] \cup {Null}
    BY DEF ReferencesHold
  <2>1. f.from \in OrganizationTables /\ DOMAIN d[f.to] \subseteq DOMAIN after[f.to]
    BY <1>2, KeysOfTables
  <2>2. CASE f.from = t /\ i = id
    BY <1>1, <2>1, <2>2
  <2>3. CASE ~(f.from = t /\ i = id)
    <3>1. i \in DOMAIN d[f.from] /\ after[f.from][i] = d[f.from][i]
      BY <1>1, <2>1, <2>3
    <3> QED
      BY <2>1, <3>1 DEF ReferencesHold
  <2> QED
    BY <2>2, <2>3
<1>4. KeysHold(after, OrganizationUniqueKeys)
  <2> SUFFICES ASSUME NEW k \in OrganizationUniqueKeys, NEW i \in DOMAIN after[k.table],
                      NEW j \in DOMAIN after[k.table] \ {i},
                      \A c \in k.columns : after[k.table][j][c] = after[k.table][i][c]
               PROVE  FALSE
    BY DEF KeysHold, Taken
  <2>1. k.table \in OrganizationTables
    BY KeysOfTables
  <2>2. CASE k.table # t
    BY <1>1, <2>1, <2>2 DEF KeysHold, Taken
  <2>3. CASE k.table = t /\ i # id /\ j # id
    BY <1>1, <2>3 DEF KeysHold, Taken
  <2>4. CASE k.table = t /\ i = id
    <3>1. j \in DOMAIN d[t] \ {id} /\ \A c \in k.columns : d[t][j][c] = row[c]
      BY <1>1, <2>4
    <3> QED
      BY <2>4, <3>1 DEF Taken
  <2>5. CASE k.table = t /\ j = id
    <3>1. i \in DOMAIN d[t] \ {id} /\ \A c \in k.columns : d[t][i][c] = row[c]
      BY <1>1, <2>5
    <3> QED
      BY <2>5, <3>1 DEF Taken
  <2> QED
    BY <2>2, <2>3, <2>4, <2>5
<1> QED
  BY <1>3, <1>4 DEF after

\* The row may be stored under the id: its references exist, its keys are free.
Fits(d, t, id, row) ==
  /\ \A f \in OrganizationForeignKeys :
       f.from = t => row[f.column] \in DOMAIN d[f.to] \cup {Null}
  /\ \A k \in OrganizationUniqueKeys : k.table = t => ~Taken(d, t, id, k.columns, row)

\* Whether it may is a matter of the columns that the constraints name.
LEMMA FitsByColumns ==
  ASSUME NEW d, NEW t, NEW id, NEW a, NEW b,
         Fits(d, t, id, a), \A c \in Columns(t) : a[c] = b[c]
  PROVE  Fits(d, t, id, b)
BY KeysOfTables DEF Fits, Taken

\* The unique keys, table by table.
LEMMA UniqueKeysByTable ==
  ASSUME NEW k \in OrganizationUniqueKeys
  PROVE  \/ k.table \in {"departments", "teams", "positions"} /\ k.columns = {"organization_id", "code"}
         \/ /\ k.table \in {"locations", "location_types", "job_grades", "employment_types",
                            "employment_statuses", "shifts"}
            /\ k.columns = {"code"}
         \/ k.table = "job_grades" /\ k.columns = {"level"}
         \/ k.table = "roles" /\ k.columns = {"name"}
         \/ k.table = "hr_employees" /\ k.columns \in {{"employee_number"}, {"email"}}
         \/ k.table = "user_roles" /\ k.columns = {"user_id", "role_id"}
BY DEF OrganizationUniqueKeys, Unique

\* An update fits if the columns it sends do: the others fitted before.
LEMMA UpdateFits ==
  ASSUME NEW d, NEW t, NEW id \in DOMAIN d[t], NEW v,
         ReferencesHold(d, OrganizationForeignKeys), KeysHold(d, OrganizationUniqueKeys),
         Columns(t) \subseteq DOMAIN d[t][id],
         NEW row, row = Patched(d[t][id], v),
         \A f \in OrganizationForeignKeys :
           f.from = t /\ f.column \in DOMAIN v => row[f.column] \in DOMAIN d[f.to] \cup {Null},
         \A k \in OrganizationUniqueKeys :
           k.table = t /\ k.columns \cap DOMAIN v # {} => ~Taken(d, t, id, k.columns, row)
  PROVE  Fits(d, t, id, row)
<1>1. \A c \in Columns(t) \ DOMAIN v : row[c] = d[t][id][c]
  BY DEF Patched
<1>2. ASSUME NEW f \in OrganizationForeignKeys, f.from = t, f.column \notin DOMAIN v
      PROVE  row[f.column] \in DOMAIN d[f.to] \cup {Null}
  BY <1>1, <1>2, KeysOfTables DEF ReferencesHold
<1>3. ASSUME NEW k \in OrganizationUniqueKeys, k.table = t, k.columns \cap DOMAIN v = {}
      PROVE  ~Taken(d, t, id, k.columns, row)
  <2>1. \A c \in k.columns : row[c] = d[t][id][c]
    BY <1>1, <1>3, KeysOfTables
  <2>2. ~Taken(d, t, id, k.columns, d[t][id])
    BY <1>3 DEF KeysHold
  <2> QED
    BY <2>1, <2>2 DEF Taken
<1> QED
  BY <1>2, <1>3 DEF Fits

\* What an update must keep: the row is there, the constraints hold.
Updatable(d, t, id) ==
  /\ id \in DOMAIN d[t] /\ Columns(t) \subseteq DOMAIN d[t][id]
  /\ ReferencesHold(d, OrganizationForeignKeys) /\ KeysHold(d, OrganizationUniqueKeys)

\* What every service owes its table: a request that raises no error may be
\* written, and the route knows every error that may be raised.
LEMMA DepartmentsFit ==
  ASSUME NEW d, NEW v, NEW id
  PROVE  /\ DepartmentCreate(d, v) = {} => Fits(d, "departments", 0, v)
         /\ Updatable(d, "departments", id) /\ DepartmentUpdate(d, id, v) = {} =>
              Fits(d, "departments", id, Patched(d["departments"][id], v))
         /\ DepartmentCreate(d, v) \subseteq DepartmentRoutes.create
         /\ DepartmentUpdate(d, id, v) \subseteq DepartmentRoutes.update
<1>1. DepartmentCreate(d, v) = {} =>
        /\ v.organization_id \in DOMAIN d["organizations"]
        /\ v.parent_id = Null \/ v.parent_id \in DOMAIN d["departments"]
        /\ ~Taken(d, "departments", 0, {"organization_id", "code"}, v)
  BY DEF DepartmentCreate, Raise, Exists
<1>2. DepartmentCreate(d, v) = {} => Fits(d, "departments", 0, v)
  BY <1>1, ForeignKeysByTable, UniqueKeysByTable DEF Fits
<1>3. ASSUME Updatable(d, "departments", id), DepartmentUpdate(d, id, v) = {}
      PROVE  Fits(d, "departments", id, Patched(d["departments"][id], v))
  <2> DEFINE row == Patched(d["departments"][id], v)
  <2>1. /\ "organization_id" \in DOMAIN v => row.organization_id \in DOMAIN d["organizations"]
        /\ row.parent_id = Null \/ row.parent_id \in DOMAIN d["departments"]
        /\ {"organization_id", "code"} \cap DOMAIN v # {} => ~Taken(d, "departments", id, {"organization_id", "code"}, row)
    BY <1>3 DEF DepartmentUpdate, Raise, Exists
  <2> HIDE DEF row
  <2>2. /\ \A f \in OrganizationForeignKeys : f.from = "departments" /\ f.column \in DOMAIN v
                => row[f.column] \in DOMAIN d[f.to] \cup {Null}
        /\ \A k \in OrganizationUniqueKeys : k.table = "departments" /\ k.columns \cap DOMAIN v # {}
                => ~Taken(d, "departments", id, k.columns, row)
    BY <2>1, ForeignKeysByTable, UniqueKeysByTable
  <2> QED
    BY <1>3, <2>2, UpdateFits DEF row, Updatable
<1>4. DepartmentCreate(d, v) \subseteq DepartmentRoutes.create
  BY DEF DepartmentCreate, Raise, DepartmentRoutes
<1>5. DepartmentUpdate(d, id, v) \subseteq DepartmentRoutes.update
  BY DEF DepartmentUpdate, Raise, DepartmentRoutes
<1> QED
  BY <1>2, <1>3, <1>4, <1>5

LEMMA TeamsFit ==
  ASSUME NEW d, NEW v, NEW id
  PROVE  /\ TeamCreate(d, v) = {} => Fits(d, "teams", 0, v)
         /\ Updatable(d, "teams", id) /\ TeamUpdate(d, id, v) = {} =>
              Fits(d, "teams", id, Patched(d["teams"][id], v))
         /\ TeamCreate(d, v) \subseteq TeamRoutes.create
         /\ TeamUpdate(d, id, v) \subseteq TeamRoutes.update
<1>1. TeamCreate(d, v) = {} =>
        /\ v.organization_id \in DOMAIN d["organizations"]
        /\ v.department_id \in DOMAIN d["departments"]
        /\ v.parent_id = Null \/ v.parent_id \in DOMAIN d["teams"]
        /\ ~Taken(d, "teams", 0, {"organization_id", "code"}, v)
  BY DEF TeamCreate, DepartmentErrors, TeamParentErrors, Raise, Exists
<1>2. TeamCreate(d, v) = {} => Fits(d, "teams", 0, v)
  BY <1>1, ForeignKeysByTable, UniqueKeysByTable DEF Fits
<1>3. ASSUME Updatable(d, "teams", id), TeamUpdate(d, id, v) = {}
      PROVE  Fits(d, "teams", id, Patched(d["teams"][id], v))
  <2> DEFINE row == Patched(d["teams"][id], v)
  <2>1. /\ "organization_id" \in DOMAIN v => row.organization_id \in DOMAIN d["organizations"]
        /\ row.department_id \in DOMAIN d["departments"]
        /\ row.parent_id = Null \/ row.parent_id \in DOMAIN d["teams"]
        /\ {"organization_id", "code"} \cap DOMAIN v # {} => ~Taken(d, "teams", id, {"organization_id", "code"}, row)
    BY <1>3 DEF TeamUpdate, DepartmentErrors, TeamParentErrors, Raise, Exists
  <2> HIDE DEF row
  <2>2. /\ \A f \in OrganizationForeignKeys : f.from = "teams" /\ f.column \in DOMAIN v
                => row[f.column] \in DOMAIN d[f.to] \cup {Null}
        /\ \A k \in OrganizationUniqueKeys : k.table = "teams" /\ k.columns \cap DOMAIN v # {}
                => ~Taken(d, "teams", id, k.columns, row)
    BY <2>1, ForeignKeysByTable, UniqueKeysByTable
  <2> QED
    BY <1>3, <2>2, UpdateFits DEF row, Updatable
<1>4. TeamCreate(d, v) \subseteq TeamRoutes.create
  BY DEF TeamCreate, DepartmentErrors, TeamParentErrors, Raise, TeamRoutes
<1>5. TeamUpdate(d, id, v) \subseteq TeamRoutes.update
  BY DEF TeamUpdate, DepartmentErrors, TeamParentErrors, Raise, TeamRoutes
<1> QED
  BY <1>2, <1>3, <1>4, <1>5

LEMMA PositionsFit ==
  ASSUME NEW d, NEW v, NEW id
  PROVE  /\ PositionCreate(d, v) = {} => Fits(d, "positions", 0, v)
         /\ Updatable(d, "positions", id) /\ PositionUpdate(d, id, v) = {} =>
              Fits(d, "positions", id, Patched(d["positions"][id], v))
         /\ PositionCreate(d, v) \subseteq PositionRoutes.create
         /\ PositionUpdate(d, id, v) \subseteq PositionRoutes.update
<1>1. PositionCreate(d, v) = {} =>
        /\ v.organization_id \in DOMAIN d["organizations"]
        /\ v.department_id \in DOMAIN d["departments"]
        /\ ~Taken(d, "positions", 0, {"organization_id", "code"}, v)
  BY DEF PositionCreate, DepartmentErrors, Raise, Exists
<1>2. PositionCreate(d, v) = {} => Fits(d, "positions", 0, v)
  BY <1>1, ForeignKeysByTable, UniqueKeysByTable DEF Fits
<1>3. ASSUME Updatable(d, "positions", id), PositionUpdate(d, id, v) = {}
      PROVE  Fits(d, "positions", id, Patched(d["positions"][id], v))
  <2> DEFINE row == Patched(d["positions"][id], v)
  <2>1. /\ "organization_id" \in DOMAIN v => row.organization_id \in DOMAIN d["organizations"]
        /\ row.department_id \in DOMAIN d["departments"]
        /\ {"organization_id", "code"} \cap DOMAIN v # {} => ~Taken(d, "positions", id, {"organization_id", "code"}, row)
    BY <1>3 DEF PositionUpdate, DepartmentErrors, Raise, Exists
  <2> HIDE DEF row
  <2>2. /\ \A f \in OrganizationForeignKeys : f.from = "positions" /\ f.column \in DOMAIN v
                => row[f.column] \in DOMAIN d[f.to] \cup {Null}
        /\ \A k \in OrganizationUniqueKeys : k.table = "positions" /\ k.columns \cap DOMAIN v # {}
                => ~Taken(d, "positions", id, k.columns, row)
    BY <2>1, ForeignKeysByTable, UniqueKeysByTable
  <2> QED
    BY <1>3, <2>2, UpdateFits DEF row, Updatable
<1>4. PositionCreate(d, v) \subseteq PositionRoutes.create
  BY DEF PositionCreate, DepartmentErrors, Raise, PositionRoutes
<1>5. PositionUpdate(d, id, v) \subseteq PositionRoutes.update
  BY DEF PositionUpdate, DepartmentErrors, Raise, PositionRoutes
<1> QED
  BY <1>2, <1>3, <1>4, <1>5

LEMMA LocationsFit ==
  ASSUME NEW d, NEW v, NEW id
  PROVE  /\ LocationCreate(d, v) = {} => Fits(d, "locations", 0, v)
         /\ Updatable(d, "locations", id) /\ LocationUpdate(d, id, v) = {} =>
              Fits(d, "locations", id, Patched(d["locations"][id], v))
         /\ LocationCreate(d, v) \subseteq LocationRoutes.create
         /\ LocationUpdate(d, id, v) \subseteq LocationRoutes.update
<1>1. LocationCreate(d, v) = {} =>
        /\ v.location_type_id \in DOMAIN d["location_types"]
        /\ v.parent_id = Null \/ v.parent_id \in DOMAIN d["locations"]
        /\ ~Taken(d, "locations", 0, {"code"}, v)
  BY DEF LocationCreate, Raise, Exists
<1>2. LocationCreate(d, v) = {} => Fits(d, "locations", 0, v)
  BY <1>1, ForeignKeysByTable, UniqueKeysByTable DEF Fits
<1>3. ASSUME Updatable(d, "locations", id), LocationUpdate(d, id, v) = {}
      PROVE  Fits(d, "locations", id, Patched(d["locations"][id], v))
  <2> DEFINE row == Patched(d["locations"][id], v)
  <2>1. /\ "location_type_id" \in DOMAIN v => row.location_type_id \in DOMAIN d["location_types"]
        /\ "parent_id" \in DOMAIN v => (row.parent_id = Null \/ row.parent_id \in DOMAIN d["locations"])
        /\ "code" \in DOMAIN v => ~Taken(d, "locations", id, {"code"}, row)
    BY <1>3 DEF LocationUpdate, Raise, Exists
  <2> HIDE DEF row
  <2>2. /\ \A f \in OrganizationForeignKeys : f.from = "locations" /\ f.column \in DOMAIN v
                => row[f.column] \in DOMAIN d[f.to] \cup {Null}
        /\ \A k \in OrganizationUniqueKeys : k.table = "locations" /\ k.columns \cap DOMAIN v # {}
                => ~Taken(d, "locations", id, k.columns, row)
    BY <2>1, ForeignKeysByTable, UniqueKeysByTable
  <2> QED
    BY <1>3, <2>2, UpdateFits DEF row, Updatable
<1>4. LocationCreate(d, v) \subseteq LocationRoutes.create
  BY DEF LocationCreate, Raise, LocationRoutes
<1>5. LocationUpdate(d, id, v) \subseteq LocationRoutes.update
  BY DEF LocationUpdate, Raise, LocationRoutes
<1> QED
  BY <1>2, <1>3, <1>4, <1>5

\* What an employee refers to, column by column.
LEMMA EmployeeKeysByColumn ==
  ASSUME NEW f \in OrganizationForeignKeys, f.from = "hr_employees"
  PROVE  \/ f.column = "organization_id" /\ f.to = "organizations"
         \/ f.column = "department_id" /\ f.to = "departments"
         \/ f.column = "position_id" /\ f.to = "positions"
         \/ f.column = "team_id" /\ f.to = "teams"
         \/ f.column = "location_id" /\ f.to = "locations"
         \/ f.column = "manager_id" /\ f.to = "hr_employees"
         \/ f.column = "job_grade_id" /\ f.to = "job_grades"
         \/ f.column = "employment_type_id" /\ f.to = "employment_types"
         \/ f.column = "employment_status_id" /\ f.to = "employment_statuses"
         \/ f.column = "shift_id" /\ f.to = "shifts"
         \/ f.column = "user_id" /\ f.to = "users"
<1>1. ASSUME NEW c \in DOMAIN EmployeeReferences
      PROVE  \/ c = "organization_id" /\ EmployeeReferences[c] = "organizations"
             \/ c = "department_id" /\ EmployeeReferences[c] = "departments"
             \/ c = "position_id" /\ EmployeeReferences[c] = "positions"
             \/ c = "team_id" /\ EmployeeReferences[c] = "teams"
             \/ c = "location_id" /\ EmployeeReferences[c] = "locations"
             \/ c = "manager_id" /\ EmployeeReferences[c] = "hr_employees"
             \/ c = "job_grade_id" /\ EmployeeReferences[c] = "job_grades"
             \/ c = "employment_type_id" /\ EmployeeReferences[c] = "employment_types"
             \/ c = "employment_status_id" /\ EmployeeReferences[c] = "employment_statuses"
             \/ c = "shift_id" /\ EmployeeReferences[c] = "shifts"
  BY DEF EmployeeReferences
<1> QED
  BY <1>1, ForeignKeysByTable

LEMMA EmployeesFit ==
  ASSUME NEW d, NEW v, NEW id
  PROVE  /\ EmployeeCreate(d, v) = {} => Fits(d, "hr_employees", 0, v)
         /\ Updatable(d, "hr_employees", id) /\ EmployeeUpdate(d, id, v) = {} =>
              Fits(d, "hr_employees", id, Patched(d["hr_employees"][id], v))
         /\ EmployeeCreate(d, v) \subseteq EmployeeRoutes.create
         /\ EmployeeUpdate(d, id, v) \subseteq EmployeeRoutes.update
<1>1. EmployeeCreate(d, v) = {} =>
        /\ v.organization_id \in DOMAIN d["organizations"]
        /\ v.department_id \in DOMAIN d["departments"]
        /\ v.position_id \in DOMAIN d["positions"]
        /\ v.team_id \in DOMAIN d["teams"]
        /\ v.location_id \in DOMAIN d["locations"]
        /\ v.job_grade_id \in DOMAIN d["job_grades"]
        /\ v.employment_type_id \in DOMAIN d["employment_types"]
        /\ v.employment_status_id \in DOMAIN d["employment_statuses"]
        /\ v.shift_id \in DOMAIN d["shifts"]
        /\ v.manager_id = Null \/ v.manager_id \in DOMAIN d["hr_employees"]
        /\ v.user_id = Null \/ v.user_id \in DOMAIN d["users"]
        /\ ~Taken(d, "hr_employees", 0, {"employee_number"}, v)
        /\ ~Taken(d, "hr_employees", 0, {"email"}, v)
  BY DEF EmployeeCreate, EmployeeErrors, DepartmentErrors, Raise, Exists
<1>2. EmployeeCreate(d, v) = {} => Fits(d, "hr_employees", 0, v)
  <2> SUFFICES ASSUME EmployeeCreate(d, v) = {} PROVE Fits(d, "hr_employees", 0, v)
    OBVIOUS
  <2>1. ASSUME NEW f \in OrganizationForeignKeys, f.from = "hr_employees"
        PROVE  v[f.column] \in DOMAIN d[f.to] \cup {Null}
    BY <1>1, <2>1, EmployeeKeysByColumn
  <2>2. ASSUME NEW k \in OrganizationUniqueKeys, k.table = "hr_employees"
        PROVE  ~Taken(d, "hr_employees", 0, k.columns, v)
    BY <1>1, <2>2, UniqueKeysByTable
  <2> QED
    BY <2>1, <2>2 DEF Fits
<1>3. ASSUME Updatable(d, "hr_employees", id), EmployeeUpdate(d, id, v) = {}
      PROVE  Fits(d, "hr_employees", id, Patched(d["hr_employees"][id], v))
  <2> DEFINE row == Patched(d["hr_employees"][id], v)
  <2>1. /\ "organization_id" \in DOMAIN v => row.organization_id \in DOMAIN d["organizations"]
        /\ row.department_id \in DOMAIN d["departments"]
        /\ row.position_id \in DOMAIN d["positions"]
        /\ row.team_id \in DOMAIN d["teams"]
        /\ row.location_id \in DOMAIN d["locations"]
        /\ row.job_grade_id \in DOMAIN d["job_grades"]
        /\ row.employment_type_id \in DOMAIN d["employment_types"]
        /\ row.employment_status_id \in DOMAIN d["employment_statuses"]
        /\ row.shift_id \in DOMAIN d["shifts"]
        /\ row.manager_id = Null \/ row.manager_id \in DOMAIN d["hr_employees"]
        /\ "user_id" \in DOMAIN v => (row.user_id = Null \/ row.user_id \in DOMAIN d["users"])
        /\ "employee_number" \in DOMAIN v => ~Taken(d, "hr_employees", id, {"employee_number"}, row)
        /\ "email" \in DOMAIN v => ~Taken(d, "hr_employees", id, {"email"}, row)
    BY <1>3 DEF EmployeeUpdate, EmployeeErrors, DepartmentErrors, Raise, Exists
  <2> HIDE DEF row
  <2>2. ASSUME NEW f \in OrganizationForeignKeys, f.from = "hr_employees", f.column \in DOMAIN v
        PROVE  row[f.column] \in DOMAIN d[f.to] \cup {Null}
    BY <2>1, <2>2, EmployeeKeysByColumn
  <2>3. ASSUME NEW k \in OrganizationUniqueKeys, k.table = "hr_employees",
               k.columns \cap DOMAIN v # {}
        PROVE  ~Taken(d, "hr_employees", id, k.columns, row)
    BY <2>1, <2>3, UniqueKeysByTable
  <2> QED
    BY <1>3, <2>2, <2>3, UpdateFits DEF row, Updatable
<1>4. EmployeeCreate(d, v) \subseteq EmployeeRoutes.create
  BY DEF EmployeeCreate, EmployeeErrors, DepartmentErrors, Raise, EmployeeRoutes
<1>5. EmployeeUpdate(d, id, v) \subseteq EmployeeRoutes.update
  BY DEF EmployeeUpdate, EmployeeErrors, DepartmentErrors, Raise, EmployeeRoutes
<1> QED
  BY <1>2, <1>3, <1>4, <1>5

LEMMA JobGradesFit ==
  ASSUME NEW d, NEW v, NEW id
  PROVE  /\ JobGradeCreate(d, v) = {} => Fits(d, "job_grades", 0, v)
         /\ Updatable(d, "job_grades", id) /\ JobGradeUpdate(d, id, v) = {} =>
              Fits(d, "job_grades", id, Patched(d["job_grades"][id], v))
         /\ JobGradeCreate(d, v) \subseteq JobGradeRoutes.create
         /\ JobGradeUpdate(d, id, v) \subseteq JobGradeRoutes.update
<1>1. JobGradeCreate(d, v) = {} =>
        /\ ~Taken(d, "job_grades", 0, {"code"}, v)
        /\ ~Taken(d, "job_grades", 0, {"level"}, v)
  BY DEF JobGradeCreate, Raise, Exists
<1>2. JobGradeCreate(d, v) = {} => Fits(d, "job_grades", 0, v)
  BY <1>1, ForeignKeysByTable, UniqueKeysByTable DEF Fits
<1>3. ASSUME Updatable(d, "job_grades", id), JobGradeUpdate(d, id, v) = {}
      PROVE  Fits(d, "job_grades", id, Patched(d["job_grades"][id], v))
  <2> DEFINE row == Patched(d["job_grades"][id], v)
  <2>1. /\ "code" \in DOMAIN v => ~Taken(d, "job_grades", id, {"code"}, v)
        /\ "level" \in DOMAIN v => ~Taken(d, "job_grades", id, {"level"}, v)
    BY <1>3 DEF JobGradeUpdate, Raise, Exists
  <2>2. \A c \in DOMAIN v : row[c] = v[c]
    BY DEF Patched
  <2> HIDE DEF row
  <2>3. /\ \A f \in OrganizationForeignKeys : f.from = "job_grades" /\ f.column \in DOMAIN v
                => row[f.column] \in DOMAIN d[f.to] \cup {Null}
        /\ \A k \in OrganizationUniqueKeys : k.table = "job_grades" /\ k.columns \cap DOMAIN v # {}
                => ~Taken(d, "job_grades", id, k.columns, row)
    BY <2>1, <2>2, ForeignKeysByTable, UniqueKeysByTable DEF Taken
  <2> QED
    BY <1>3, <2>3, UpdateFits DEF row, Updatable
<1>4. JobGradeCreate(d, v) \subseteq JobGradeRoutes.create
  BY DEF JobGradeCreate, Raise, JobGradeRoutes
<1>5. JobGradeUpdate(d, id, v) \subseteq JobGradeRoutes.update
  BY DEF JobGradeUpdate, Raise, JobGradeRoutes
<1> QED
  BY <1>2, <1>3, <1>4, <1>5

LEMMA EmploymentTypesFit ==
  ASSUME NEW d, NEW v, NEW id
  PROVE  /\ EmploymentTypeCreate(d, v) = {} => Fits(d, "employment_types", 0, v)
         /\ Updatable(d, "employment_types", id) /\ EmploymentTypeUpdate(d, id, v) = {} =>
              Fits(d, "employment_types", id, Patched(d["employment_types"][id], v))
         /\ EmploymentTypeCreate(d, v) \subseteq EmploymentTypeRoutes.create
         /\ EmploymentTypeUpdate(d, id, v) \subseteq EmploymentTypeRoutes.update
<1>1. EmploymentTypeCreate(d, v) = {} =>
        /\ ~Taken(d, "employment_types", 0, {"code"}, v)
  BY DEF EmploymentTypeCreate, Raise, Exists
<1>2. EmploymentTypeCreate(d, v) = {} => Fits(d, "employment_types", 0, v)
  BY <1>1, ForeignKeysByTable, UniqueKeysByTable DEF Fits
<1>3. ASSUME Updatable(d, "employment_types", id), EmploymentTypeUpdate(d, id, v) = {}
      PROVE  Fits(d, "employment_types", id, Patched(d["employment_types"][id], v))
  <2> DEFINE row == Patched(d["employment_types"][id], v)
  <2>1. /\ "code" \in DOMAIN v => ~Taken(d, "employment_types", id, {"code"}, v)
    BY <1>3 DEF EmploymentTypeUpdate, Raise, Exists
  <2>2. \A c \in DOMAIN v : row[c] = v[c]
    BY DEF Patched
  <2> HIDE DEF row
  <2>3. /\ \A f \in OrganizationForeignKeys : f.from = "employment_types" /\ f.column \in DOMAIN v
                => row[f.column] \in DOMAIN d[f.to] \cup {Null}
        /\ \A k \in OrganizationUniqueKeys : k.table = "employment_types" /\ k.columns \cap DOMAIN v # {}
                => ~Taken(d, "employment_types", id, k.columns, row)
    BY <2>1, <2>2, ForeignKeysByTable, UniqueKeysByTable DEF Taken
  <2> QED
    BY <1>3, <2>3, UpdateFits DEF row, Updatable
<1>4. EmploymentTypeCreate(d, v) \subseteq EmploymentTypeRoutes.create
  BY DEF EmploymentTypeCreate, Raise, EmploymentTypeRoutes
<1>5. EmploymentTypeUpdate(d, id, v) \subseteq EmploymentTypeRoutes.update
  BY DEF EmploymentTypeUpdate, Raise, EmploymentTypeRoutes
<1> QED
  BY <1>2, <1>3, <1>4, <1>5

LEMMA EmploymentStatusesFit ==
  ASSUME NEW d, NEW v, NEW id
  PROVE  /\ EmploymentStatusCreate(d, v) = {} => Fits(d, "employment_statuses", 0, v)
         /\ Updatable(d, "employment_statuses", id) /\ EmploymentStatusUpdate(d, id, v) = {} =>
              Fits(d, "employment_statuses", id, Patched(d["employment_statuses"][id], v))
         /\ EmploymentStatusCreate(d, v) \subseteq EmploymentStatusRoutes.create
         /\ EmploymentStatusUpdate(d, id, v) \subseteq EmploymentStatusRoutes.update
<1>1. EmploymentStatusCreate(d, v) = {} =>
        /\ ~Taken(d, "employment_statuses", 0, {"code"}, v)
  BY DEF EmploymentStatusCreate, Raise, Exists
<1>2. EmploymentStatusCreate(d, v) = {} => Fits(d, "employment_statuses", 0, v)
  BY <1>1, ForeignKeysByTable, UniqueKeysByTable DEF Fits
<1>3. ASSUME Updatable(d, "employment_statuses", id), EmploymentStatusUpdate(d, id, v) = {}
      PROVE  Fits(d, "employment_statuses", id, Patched(d["employment_statuses"][id], v))
  <2> DEFINE row == Patched(d["employment_statuses"][id], v)
  <2>1. /\ "code" \in DOMAIN v => ~Taken(d, "employment_statuses", id, {"code"}, v)
    BY <1>3 DEF EmploymentStatusUpdate, Raise, Exists
  <2>2. \A c \in DOMAIN v : row[c] = v[c]
    BY DEF Patched
  <2> HIDE DEF row
  <2>3. /\ \A f \in OrganizationForeignKeys : f.from = "employment_statuses" /\ f.column \in DOMAIN v
                => row[f.column] \in DOMAIN d[f.to] \cup {Null}
        /\ \A k \in OrganizationUniqueKeys : k.table = "employment_statuses" /\ k.columns \cap DOMAIN v # {}
                => ~Taken(d, "employment_statuses", id, k.columns, row)
    BY <2>1, <2>2, ForeignKeysByTable, UniqueKeysByTable DEF Taken
  <2> QED
    BY <1>3, <2>3, UpdateFits DEF row, Updatable
<1>4. EmploymentStatusCreate(d, v) \subseteq EmploymentStatusRoutes.create
  BY DEF EmploymentStatusCreate, Raise, EmploymentStatusRoutes
<1>5. EmploymentStatusUpdate(d, id, v) \subseteq EmploymentStatusRoutes.update
  BY DEF EmploymentStatusUpdate, Raise, EmploymentStatusRoutes
<1> QED
  BY <1>2, <1>3, <1>4, <1>5

\* A duration that is there can be compared.
LEMMA BreaksCompared ==
  ASSUME NEW row, row.break_duration_minutes # Null
  PROVE  BreakErrors(row) \subseteq {"InvalidBreakDuration"}
<1>1. 0 # Null
  BY NullIsNoId
<1> QED
  BY <1>1 DEF BreakErrors, Compare, Raise

LEMMA ShiftsFit ==
  ASSUME NEW d, NEW v, NEW id
  PROVE  /\ ShiftCreate(d, v) = {} => Fits(d, "shifts", 0, v)
         /\ Updatable(d, "shifts", id) /\ ShiftUpdate(d, id, v) = {} =>
              Fits(d, "shifts", id, Patched(d["shifts"][id], v))
         /\ v.break_duration_minutes # Null => ShiftCreate(d, v) \subseteq ShiftRoutes.create
         /\ Patched(d["shifts"][id], v).break_duration_minutes # Null =>
              ShiftUpdate(d, id, v) \subseteq ShiftRoutes.update
<1>1. ShiftCreate(d, v) = {} =>
        /\ ~Taken(d, "shifts", 0, {"code"}, v)
  BY DEF ShiftCreate, Raise, Exists
<1>2. ShiftCreate(d, v) = {} => Fits(d, "shifts", 0, v)
  BY <1>1, ForeignKeysByTable, UniqueKeysByTable DEF Fits
<1>3. ASSUME Updatable(d, "shifts", id), ShiftUpdate(d, id, v) = {}
      PROVE  Fits(d, "shifts", id, Patched(d["shifts"][id], v))
  <2> DEFINE row == Patched(d["shifts"][id], v)
  <2>1. /\ "code" \in DOMAIN v => ~Taken(d, "shifts", id, {"code"}, v)
    BY <1>3 DEF ShiftUpdate, Raise, Exists
  <2>2. \A c \in DOMAIN v : row[c] = v[c]
    BY DEF Patched
  <2> HIDE DEF row
  <2>3. /\ \A f \in OrganizationForeignKeys : f.from = "shifts" /\ f.column \in DOMAIN v
                => row[f.column] \in DOMAIN d[f.to] \cup {Null}
        /\ \A k \in OrganizationUniqueKeys : k.table = "shifts" /\ k.columns \cap DOMAIN v # {}
                => ~Taken(d, "shifts", id, k.columns, row)
    BY <2>1, <2>2, ForeignKeysByTable, UniqueKeysByTable DEF Taken
  <2> QED
    BY <1>3, <2>3, UpdateFits DEF row, Updatable
<1>4. v.break_duration_minutes # Null => ShiftCreate(d, v) \subseteq ShiftRoutes.create
  BY BreaksCompared DEF ShiftCreate, Raise, ShiftRoutes
<1>5. Patched(d["shifts"][id], v).break_duration_minutes # Null =>
        ShiftUpdate(d, id, v) \subseteq ShiftRoutes.update
  BY BreaksCompared DEF ShiftUpdate, Raise, ShiftRoutes
<1> QED
  BY <1>2, <1>3, <1>4, <1>5

LEMMA RolesFit ==
  ASSUME NEW d, NEW v, NEW id
  PROVE  /\ RoleCreate(d, v) = {} => Fits(d, "roles", 0, v)
         /\ Updatable(d, "roles", id) /\ RoleUpdate(d, id, v) = {} =>
              Fits(d, "roles", id, Patched(d["roles"][id], v))
         /\ RoleCreate(d, v) \subseteq RoleRoutes.create
         /\ RoleUpdate(d, id, v) \subseteq RoleRoutes.update
<1>1. RoleCreate(d, v) = {} =>
        /\ ~Taken(d, "roles", 0, {"name"}, v)
  BY DEF RoleCreate, Raise, Exists
<1>2. RoleCreate(d, v) = {} => Fits(d, "roles", 0, v)
  BY <1>1, ForeignKeysByTable, UniqueKeysByTable DEF Fits
<1>3. ASSUME Updatable(d, "roles", id), RoleUpdate(d, id, v) = {}
      PROVE  Fits(d, "roles", id, Patched(d["roles"][id], v))
  <2> DEFINE row == Patched(d["roles"][id], v)
  <2>1. /\ "name" \in DOMAIN v => ~Taken(d, "roles", id, {"name"}, v)
    BY <1>3 DEF RoleUpdate, Raise, Exists
  <2>2. \A c \in DOMAIN v : row[c] = v[c]
    BY DEF Patched
  <2> HIDE DEF row
  <2>3. /\ \A f \in OrganizationForeignKeys : f.from = "roles" /\ f.column \in DOMAIN v
                => row[f.column] \in DOMAIN d[f.to] \cup {Null}
        /\ \A k \in OrganizationUniqueKeys : k.table = "roles" /\ k.columns \cap DOMAIN v # {}
                => ~Taken(d, "roles", id, k.columns, row)
    BY <2>1, <2>2, ForeignKeysByTable, UniqueKeysByTable DEF Taken
  <2> QED
    BY <1>3, <2>3, UpdateFits DEF row, Updatable
<1>4. RoleCreate(d, v) \subseteq RoleRoutes.create
  BY DEF RoleCreate, Raise, RoleRoutes
<1>5. RoleUpdate(d, id, v) \subseteq RoleRoutes.update
  BY DEF RoleUpdate, Raise, RoleRoutes
<1> QED
  BY <1>2, <1>3, <1>4, <1>5

LEMMA AssignmentsFit ==
  ASSUME NEW d, NEW v
  PROVE  /\ AssignRole(d, v) = {} => Fits(d, "user_roles", 0, v)
         /\ AssignRole(d, v) \subseteq AssignmentRoutes.create
<1>1. AssignRole(d, v) = {} =>
        /\ v.role_id \in DOMAIN d["roles"] /\ v.user_id \in DOMAIN d["users"]
        /\ ~Taken(d, "user_roles", 0, {"user_id", "role_id"}, v)
  BY DEF AssignRole, Raise, Exists
<1>2. AssignRole(d, v) = {} => Fits(d, "user_roles", 0, v)
  BY <1>1, ForeignKeysByTable, UniqueKeysByTable DEF Fits
<1>3. AssignRole(d, v) \subseteq AssignmentRoutes.create
  BY DEF AssignRole, Raise, AssignmentRoutes
<1> QED
  BY <1>2, <1>3

\* The services, table by table.
LEMMA ServiceOfTable ==
  ASSUME NEW d, NEW v, NEW id, NEW t \in OrganizationTables
  PROVE  /\ t = "departments" =>
              /\ CreateErrors(d, t, v) = DepartmentCreate(d, v) /\ UpdateErrors(d, t, id, v) = DepartmentUpdate(d, id, v)
              /\ RoutesOf(t) = DepartmentRoutes
         /\ t = "teams" =>
              /\ CreateErrors(d, t, v) = TeamCreate(d, v) /\ UpdateErrors(d, t, id, v) = TeamUpdate(d, id, v)
              /\ RoutesOf(t) = TeamRoutes
         /\ t = "positions" =>
              /\ CreateErrors(d, t, v) = PositionCreate(d, v) /\ UpdateErrors(d, t, id, v) = PositionUpdate(d, id, v)
              /\ RoutesOf(t) = PositionRoutes
         /\ t = "locations" =>
              /\ CreateErrors(d, t, v) = LocationCreate(d, v) /\ UpdateErrors(d, t, id, v) = LocationUpdate(d, id, v)
              /\ RoutesOf(t) = LocationRoutes
         /\ t = "hr_employees" =>
              /\ CreateErrors(d, t, v) = EmployeeCreate(d, v) /\ UpdateErrors(d, t, id, v) = EmployeeUpdate(d, id, v)
              /\ RoutesOf(t) = EmployeeRoutes
         /\ t = "job_grades" =>
              /\ CreateErrors(d, t, v) = JobGradeCreate(d, v) /\ UpdateErrors(d, t, id, v) = JobGradeUpdate(d, id, v)
              /\ RoutesOf(t) = JobGradeRoutes
         /\ t = "employment_types" =>
              /\ CreateErrors(d, t, v) = EmploymentTypeCreate(d, v) /\ UpdateErrors(d, t, id, v) = EmploymentTypeUpdate(d, id, v)
              /\ RoutesOf(t) = EmploymentTypeRoutes
         /\ t = "employment_statuses" =>
              /\ CreateErrors(d, t, v) = EmploymentStatusCreate(d, v) /\ UpdateErrors(d, t, id, v) = EmploymentStatusUpdate(d, id, v)
              /\ RoutesOf(t) = EmploymentStatusRoutes
         /\ t = "shifts" =>
              /\ CreateErrors(d, t, v) = ShiftCreate(d, v) /\ UpdateErrors(d, t, id, v) = ShiftUpdate(d, id, v)
              /\ RoutesOf(t) = ShiftRoutes
         /\ t = "roles" =>
              /\ CreateErrors(d, t, v) = RoleCreate(d, v) /\ UpdateErrors(d, t, id, v) = RoleUpdate(d, id, v)
              /\ RoutesOf(t) = RoleRoutes
         /\ t = "user_roles" =>
              CreateErrors(d, t, v) = AssignRole(d, v) /\ RoutesOf(t) = AssignmentRoutes
         /\ t \in {"organizations", "location_types", "users"} =>
              CreateErrors(d, t, v) = {} /\ UpdateErrors(d, t, id, v) = {}
BY DEF CreateErrors, UpdateErrors, RoutesOf

TablesWithServices ==
  {"departments", "teams", "positions", "locations", "hr_employees", "job_grades",
   "employment_types", "employment_statuses", "shifts", "roles"}

\* The same of every service.
LEMMA ServicesFit ==
  ASSUME NEW d, NEW v, NEW id, NEW t \in TablesWithServices
  PROVE  /\ CreateErrors(d, t, v) = {} => Fits(d, t, 0, v)
         /\ Updatable(d, t, id) /\ UpdateErrors(d, t, id, v) = {} =>
              Fits(d, t, id, Patched(d[t][id], v))
         /\ (t = "shifts" => v.break_duration_minutes # Null) =>
              CreateErrors(d, t, v) \subseteq RoutesOf(t).create
         /\ (t = "shifts" => Patched(d[t][id], v).break_duration_minutes # Null) =>
              UpdateErrors(d, t, id, v) \subseteq RoutesOf(t).update
<1>1. CASE t = "departments"
  <2>1. /\ CreateErrors(d, t, v) = DepartmentCreate(d, v) /\ UpdateErrors(d, t, id, v) = DepartmentUpdate(d, id, v)
        /\ RoutesOf(t) = DepartmentRoutes
    BY <1>1, ServiceOfTable DEF OrganizationTables
  <2> QED
    BY <1>1, <2>1, DepartmentsFit
<1>2. CASE t = "teams"
  <2>1. /\ CreateErrors(d, t, v) = TeamCreate(d, v) /\ UpdateErrors(d, t, id, v) = TeamUpdate(d, id, v)
        /\ RoutesOf(t) = TeamRoutes
    BY <1>2, ServiceOfTable DEF OrganizationTables
  <2> QED
    BY <1>2, <2>1, TeamsFit
<1>3. CASE t = "positions"
  <2>1. /\ CreateErrors(d, t, v) = PositionCreate(d, v) /\ UpdateErrors(d, t, id, v) = PositionUpdate(d, id, v)
        /\ RoutesOf(t) = PositionRoutes
    BY <1>3, ServiceOfTable DEF OrganizationTables
  <2> QED
    BY <1>3, <2>1, PositionsFit
<1>4. CASE t = "locations"
  <2>1. /\ CreateErrors(d, t, v) = LocationCreate(d, v) /\ UpdateErrors(d, t, id, v) = LocationUpdate(d, id, v)
        /\ RoutesOf(t) = LocationRoutes
    BY <1>4, ServiceOfTable DEF OrganizationTables
  <2> QED
    BY <1>4, <2>1, LocationsFit
<1>5. CASE t = "hr_employees"
  <2>1. /\ CreateErrors(d, t, v) = EmployeeCreate(d, v) /\ UpdateErrors(d, t, id, v) = EmployeeUpdate(d, id, v)
        /\ RoutesOf(t) = EmployeeRoutes
    BY <1>5, ServiceOfTable DEF OrganizationTables
  <2> QED
    BY <1>5, <2>1, EmployeesFit
<1>6. CASE t = "job_grades"
  <2>1. /\ CreateErrors(d, t, v) = JobGradeCreate(d, v) /\ UpdateErrors(d, t, id, v) = JobGradeUpdate(d, id, v)
        /\ RoutesOf(t) = JobGradeRoutes
    BY <1>6, ServiceOfTable DEF OrganizationTables
  <2> QED
    BY <1>6, <2>1, JobGradesFit
<1>7. CASE t = "employment_types"
  <2>1. /\ CreateErrors(d, t, v) = EmploymentTypeCreate(d, v) /\ UpdateErrors(d, t, id, v) = EmploymentTypeUpdate(d, id, v)
        /\ RoutesOf(t) = EmploymentTypeRoutes
    BY <1>7, ServiceOfTable DEF OrganizationTables
  <2> QED
    BY <1>7, <2>1, EmploymentTypesFit
<1>8. CASE t = "employment_statuses"
  <2>1. /\ CreateErrors(d, t, v) = EmploymentStatusCreate(d, v) /\ UpdateErrors(d, t, id, v) = EmploymentStatusUpdate(d, id, v)
        /\ RoutesOf(t) = EmploymentStatusRoutes
    BY <1>8, ServiceOfTable DEF OrganizationTables
  <2> QED
    BY <1>8, <2>1, EmploymentStatusesFit
<1>9. CASE t = "shifts"
  <2>1. /\ CreateErrors(d, t, v) = ShiftCreate(d, v) /\ UpdateErrors(d, t, id, v) = ShiftUpdate(d, id, v)
        /\ RoutesOf(t) = ShiftRoutes
    BY <1>9, ServiceOfTable DEF OrganizationTables
  <2> QED
    BY <1>9, <2>1, ShiftsFit
<1>10. CASE t = "roles"
  <2>1. /\ CreateErrors(d, t, v) = RoleCreate(d, v) /\ UpdateErrors(d, t, id, v) = RoleUpdate(d, id, v)
        /\ RoutesOf(t) = RoleRoutes
    BY <1>10, ServiceOfTable DEF OrganizationTables
  <2> QED
    BY <1>10, <2>1, RolesFit
<1> QED
  BY <1>1, <1>2, <1>3, <1>4, <1>5, <1>6, <1>7, <1>8, <1>9, <1>10 DEF TablesWithServices

\* The tables of whose rows no constraint speaks.
LEMMA FreeTablesFit ==
  ASSUME NEW d, NEW t \in {"organizations", "users"}, NEW id, NEW row
  PROVE  Fits(d, t, id, row)
BY ForeignKeysByTable, UniqueKeysByTable DEF Fits

\* A request that its service accepts, and that does not give a location type
\* a code, fits in the tables it was checked against.
LEMMA CheckedRequestsFit ==
  ASSUME TypeOK, NEW r \in Requests, NEW t, t = r.table,
         OrganizationErrors(db, r) = {},
         ~(t = "location_types" /\ "code" \in DOMAIN r.values)
  PROVE  /\ r.op = "create" => Fits(db, t, 0, r.values)
         /\ r.op = "update" /\ r.id \in DOMAIN db[t] =>
              Fits(db, t, r.id, Patched(db[t][r.id], r.values))
<1>1. t \in OrganizationTables
  BY RequestTables
<1>2. ASSUME r.op = "create" PROVE Fits(db, t, 0, r.values)
  <2>1. CreateErrors(db, t, r.values) = {}
    BY <1>2 DEF OrganizationErrors
  <2>2. CASE t = "user_roles"
    BY <1>1, <2>1, <2>2, AssignmentsFit, ServiceOfTable
  <2>3. CASE t = "location_types"
    <3>1. Unique("location_types", {"code"}) \in OrganizationUniqueKeys
      BY DEF OrganizationUniqueKeys
    <3>2. "code" \in Columns(t)
      BY <2>3, <3>1 DEF Columns, Unique
    <3> QED
      BY <1>2, <2>3, <3>2, RequestAssumption
  <2>4. CASE t \in {"organizations", "users"}
    BY <2>4, FreeTablesFit
  <2>5. CASE t \in TablesWithServices
    BY <2>1, <2>5, ServicesFit
  <2> QED
    BY <1>1, <2>2, <2>3, <2>4, <2>5 DEF OrganizationTables, TablesWithServices
<1>3. ASSUME r.op = "update", r.id \in DOMAIN db[t]
      PROVE  Fits(db, t, r.id, Patched(db[t][r.id], r.values))
  <2>1. UpdateErrors(db, t, r.id, r.values) = {} /\ t # "user_roles"
    BY <1>3, RequestAssumption DEF OrganizationErrors
  <2>2. Updatable(db, t, r.id)
    BY <1>1, <1>3 DEF TypeOK, Updatable
  <2>3. CASE t = "location_types"
    <3>1. \A f \in OrganizationForeignKeys : f.from # t
      BY <2>3, ForeignKeysByTable
    <3>2. \A k \in OrganizationUniqueKeys : k.table = t => k.columns \cap DOMAIN r.values = {}
      BY <2>3, UniqueKeysByTable
    <3> QED
      BY <1>3, <2>2, <3>1, <3>2, UpdateFits DEF Updatable
  <2>4. CASE t \in {"organizations", "users"}
    BY <2>4, FreeTablesFit
  <2>5. CASE t \in TablesWithServices
    BY <2>1, <2>2, <2>5, ServicesFit
  <2> QED
    BY <1>1, <2>1, <2>3, <2>4, <2>5 DEF OrganizationTables, TablesWithServices
<1> QED
  BY <1>2, <1>3

\* If a row is complete and the others stay as they are, so do the NOT NULL columns.
LEMMA CompleteRowsStay ==
  ASSUME NEW d, DOMAIN d = OrganizationTables, RowsComplete(d, OrganizationRequired),
         NEW t \in DOMAIN OrganizationRequired, NEW id, NEW row,
         Complete(row, OrganizationRequired[t])
  PROVE  RowsComplete(Stored(d, t, id, row), OrganizationRequired)
<1> DEFINE after == Stored(d, t, id, row)
<1>1. DOMAIN OrganizationRequired \subseteq OrganizationTables
  BY DEF OrganizationRequired, OrganizationTables
<1>2. SUFFICES ASSUME NEW u \in DOMAIN OrganizationRequired, NEW i \in DOMAIN after[u]
               PROVE  Complete(after[u][i], OrganizationRequired[u])
  BY DEF RowsComplete
<1>3. CASE u = t /\ i = id
  BY <1>1, <1>3 DEF Stored
<1>4. CASE ~(u = t /\ i = id)
  <2>1. i \in DOMAIN d[u] /\ after[u][i] = d[u][i]
    BY <1>1, <1>2, <1>4 DEF Stored
  <2> QED
    BY <2>1 DEF RowsComplete
<1> QED
  BY <1>3, <1>4

\* An update that sends no null for such a column leaves the row complete.
LEMMA PatchedComplete ==
  ASSUME NEW old, NEW v, NEW required, Complete(old, required), Complete(v, required)
  PROVE  /\ Complete(Patched(old, v), required)
         /\ Complete(Patched(old, Dirty(old, v)), required)
BY DEF Complete, Patched, Dirty

\* A shift is stored, and sent, with the duration of its breaks.
LEMMA BreakColumn ==
  /\ "break_duration_minutes" \in Columns("shifts")
  /\ "shifts" \in DOMAIN OrganizationRequired /\ "shifts" \in OrganizationTables
  /\ "break_duration_minutes" \in OrganizationRequired["shifts"]
BY DEF Columns, OrganizationRequired, OrganizationTables

\* A row that no other refers to can be deleted: the keys and the NOT NULL columns
\* of the others hold as they did.  (No key has the column that a deleted user is
\* taken from, and that column may be null.)
LEMMA DeleteIsAccepted ==
  ASSUME TypeOK, NEW h \in Handlers, handler[h].at = "checked", NEW r, r = handler[h].request,
         T!Deletes(r), NEW t, t = r.table, NEW id \in DOMAIN db[t], id = r.id,
         ~StillReferred(db, OrganizationForeignKeys, t, id)
  PROVE  T!Accepted(db, handler[h], T!NextId(h))
<1> DEFINE after == Removed(db, OrganizationForeignKeys, t, id)
<1>1. T!Flushed(db, handler[h], T!NextId(h)) = after
  BY SameTables DEF T!Flushed, T!Inserts, T!Deletes
<1>2. ReferencesHold(after, OrganizationForeignKeys)
  BY DEF StillReferred
<1>3. DOMAIN db = OrganizationTables
  BY DEF TypeOK
<1>4. /\ \A u \in OrganizationTables : DOMAIN after[u] \subseteq DOMAIN db[u]
      /\ \A u \in OrganizationTables : \A i \in DOMAIN after[u] :
           DOMAIN after[u][i] = DOMAIN db[u][i]
      /\ \A u \in OrganizationTables : \A i \in DOMAIN after[u] : \A c \in DOMAIN db[u][i] :
           u # "hr_employees" \/ c # "user_id" => after[u][i][c] = db[u][i][c]
  BY <1>3, RemovedTables
<1> HIDE DEF after
<1>5. KeysHold(after, OrganizationUniqueKeys)
  <2> SUFFICES ASSUME NEW k \in OrganizationUniqueKeys, NEW i \in DOMAIN after[k.table],
                      Taken(after, k.table, i, k.columns, after[k.table][i])
               PROVE  FALSE
    BY DEF KeysHold
  <2>1. /\ k.table \in OrganizationTables /\ k.columns \subseteq Columns(k.table)
        /\ k.table # "hr_employees" \/ "user_id" \notin k.columns
    BY KeysOfTables, UniqueKeysByTable
  <2>2. PICK j \in DOMAIN after[k.table] \ {i} :
          \A c \in k.columns : after[k.table][j][c] = after[k.table][i][c]
    BY DEF Taken
  <2>3. \A row \in DOMAIN after[k.table] : k.columns \subseteq DOMAIN db[k.table][row]
    BY <1>4, <2>1 DEF TypeOK
  <2>4. \A c \in k.columns : db[k.table][j][c] = db[k.table][i][c]
    BY <1>4, <2>1, <2>2, <2>3
  <2>5. j \in DOMAIN db[k.table] \ {i} /\ i \in DOMAIN db[k.table]
    BY <1>4, <2>1, <2>2
  <2>6. KeysHold(db, OrganizationUniqueKeys)
    BY DEF TypeOK
  <2> QED
    BY <2>4, <2>5, <2>6 DEF KeysHold, Taken
<1>6. RowsComplete(after, OrganizationRequired)
  <2>1. /\ RowsComplete(db, OrganizationRequired)
        /\ DOMAIN OrganizationRequired \subseteq OrganizationTables
    BY DEF TypeOK, OrganizationRequired, OrganizationTables
  <2>2. "user_id" \notin OrganizationRequired["hr_employees"]
    BY DEF OrganizationRequired, EmployeeReferences
  <2> QED
    BY <1>4, <2>1, <2>2 DEF RowsComplete, Complete
<1>7. T!Exists(db, t, id)
  BY DEF T!Exists
<1> QED
  BY <1>1, <1>2, <1>5, <1>6, <1>7, SameTables DEF T!Accepted

\* The database takes an INSERT and an UPDATE of a request that nobody overtook,
\* but for the code of a location type and a null in a NOT NULL column.
LEMMA InsertOrUpdateIsAccepted ==
  ASSUME TypeOK, NEW h \in Handlers, handler[h].at = "checked", T!Current(h),
         NEW r, r = handler[h].request, r.op # "delete",
         ~(r.table = "location_types" /\ "code" \in DOMAIN r.values), ~T!SendsNull(db, r)
  PROVE  T!Accepted(db, handler[h], T!NextId(h))
<1> DEFINE t == r.table
           c == handler[h]
           new == lastId[t] + 1
<1>1. /\ r \in Requests /\ r.op \in {"create", "update"} /\ t \in OrganizationTables
      /\ c.request = r /\ c.values = r.values /\ t \in DOMAIN OrganizationRequired
      /\ Complete(r.values, OrganizationRequired[t])
  <2>1. /\ r \in Requests /\ r.op \in {"create", "update"} /\ t \in OrganizationTables
        /\ c.request = r /\ c.values = r.values /\ t \in DOMAIN OrganizationRequired
    BY RequestAssumption, RequestTables DEF TypeOK
  <2> QED
    BY <2>1, SameTables DEF T!SendsNull, T!Deletes, OrganizationAssigned
<1>2. /\ OrganizationErrors(db, r) = {}
      /\ r.op = "update" => r.id \in DOMAIN db[t] /\ c.loaded = db[t][r.id]
  BY <1>1, SameTables DEF T!Current, T!Refused, T!Found, Exists
<1>3. /\ DOMAIN db = OrganizationTables /\ lastId[t] \in Nat /\ DOMAIN db[t] \subseteq 1 .. lastId[t]
      /\ ReferencesHold(db, OrganizationForeignKeys) /\ KeysHold(db, OrganizationUniqueKeys)
      /\ RowsComplete(db, OrganizationRequired)
      /\ \A id \in DOMAIN db[t] : Columns(t) \subseteq DOMAIN db[t][id]
  BY <1>1 DEF TypeOK
<1>4. T!NextId(h) = new
  BY DEF T!NextId
<1>5. CASE r.op = "create"
  <2>1. T!Flushed(db, c, new) = Stored(db, t, new, r.values) /\ T!Inserts(r)
    BY <1>1, <1>5, SameTables DEF T!Flushed, T!Inserts
  <2>2. Fits(db, t, 0, r.values)
    BY <1>1, <1>2, <1>5, CheckedRequestsFit
  <2>3. DOMAIN db[t] \ {0} = DOMAIN db[t] \ {new}
    BY <1>3
  <2>4. /\ \A f \in OrganizationForeignKeys :
             f.from = t => r.values[f.column] \in DOMAIN db[f.to] \cup {Null}
        /\ \A k \in OrganizationUniqueKeys : k.table = t => ~Taken(db, t, new, k.columns, r.values)
    BY <2>2, <2>3 DEF Fits, Taken
  <2>5. /\ ReferencesHold(Stored(db, t, new, r.values), OrganizationForeignKeys)
        /\ KeysHold(Stored(db, t, new, r.values), OrganizationUniqueKeys)
    BY <1>1, <1>3, <2>4, StoredKeepsConstraints
  <2>6. RowsComplete(Stored(db, t, new, r.values), OrganizationRequired)
    BY <1>1, <1>3, CompleteRowsStay
  <2> QED
    BY <1>1, <1>4, <2>1, <2>5, <2>6, SameTables DEF T!Accepted
<1>6. CASE r.op = "update"
  <2> DEFINE row == Patched(db[t][r.id], Dirty(db[t][r.id], r.values))
             effective == Patched(db[t][r.id], r.values)
  <2>1. T!Flushed(db, c, new) = Stored(db, t, r.id, row) /\ T!Exists(db, t, r.id)
    <3>1. T!Flushed(db, c, new)
            = T!Stored(db, t, r.id, T!Patched(db[t][r.id], T!Dirty(c.loaded, r.values)))
      BY <1>1, <1>6 DEF T!Flushed, T!Inserts, T!Deletes
    <3>2. T!Flushed(db, c, new) = Stored(db, t, r.id, Patched(db[t][r.id], Dirty(c.loaded, r.values)))
      BY <3>1, SameTables
    <3>3. T!Exists(db, t, r.id)
      BY <1>2, <1>6, SameTables DEF Exists
    <3> QED
      BY <1>2, <1>6, <3>2, <3>3
  <2>2. Fits(db, t, r.id, effective)
    BY <1>1, <1>2, <1>6, CheckedRequestsFit
  <2>3. \A column \in Columns(t) : effective[column] = row[column]
    BY <1>2, <1>3, <1>6 DEF Patched, Dirty
  <2>6. Complete(row, OrganizationRequired[t])
    <3>1. Complete(db[t][r.id], OrganizationRequired[t])
      BY <1>1, <1>2, <1>3, <1>6 DEF RowsComplete
    <3> QED
      BY <1>1, <3>1, PatchedComplete
  <2> HIDE DEF row, effective
  <2>4. Fits(db, t, r.id, row)
    BY <2>2, <2>3, FitsByColumns
  <2>5. /\ ReferencesHold(Stored(db, t, r.id, row), OrganizationForeignKeys)
        /\ KeysHold(Stored(db, t, r.id, row), OrganizationUniqueKeys)
    BY <1>1, <1>3, <2>4, StoredKeepsConstraints DEF Fits
  <2>7. RowsComplete(Stored(db, t, r.id, row), OrganizationRequired)
    BY <1>1, <1>3, <2>6, CompleteRowsStay
  <2> QED
    BY <1>1, <1>4, <2>1, <2>5, <2>7, SameTables DEF T!Accepted
<1> QED
  BY <1>1, <1>5, <1>6

\* The same for every write, but for the deletion of a row that others refer to.
LEMMA CurrentIsAccepted ==
  ASSUME TypeOK, NEW h \in Handlers, handler[h].at = "checked", T!Current(h),
         NEW r, r = handler[h].request,
         ~(r.op = "delete" /\ StillReferred(db, OrganizationForeignKeys, r.table, r.id)),
         ~(r.table = "location_types" /\ "code" \in DOMAIN r.values), ~T!SendsNull(db, r)
  PROVE  T!Accepted(db, handler[h], T!NextId(h))
<1>1. CASE r.op = "delete"
  <2>1. r.id \in DOMAIN db[r.table]
    BY <1>1, SameTables DEF T!Current, T!Refused, T!Found, Exists
  <2> QED
    BY <1>1, <2>1, DeleteIsAccepted DEF T!Deletes
<1>2. CASE r.op # "delete"
  BY <1>2, InsertOrUpdateIsAccepted
<1> QED
  BY <1>1, <1>2

\* A service raises nothing that its route does not turn into an answer, unless
\* null is sent for a NOT NULL column.
LEMMA RoutesKnowErrors ==
  ASSUME NEW d, NEW r \in Requests, ~T!SendsNull(d, r), r.op = "create" \/ r.id \in DOMAIN d[r.table],
         RowsComplete(d, OrganizationRequired),
         \A i \in DOMAIN d["shifts"] : Columns("shifts") \subseteq DOMAIN d["shifts"][i]
  PROVE  OrganizationErrors(d, r) \subseteq OrganizationRoutes(r)
<1> DEFINE t == r.table
<1>1. r.op \in {"create", "update", "delete"} /\ t \in OrganizationTables
  BY RequestAssumption, RequestTables
<1>2. CASE r.op = "delete"
  BY <1>2 DEF OrganizationErrors, OrganizationRoutes
<1>3. ASSUME r.op = "create" PROVE CreateErrors(d, t, r.values) \subseteq RoutesOf(t).create
  <2>1. CASE t \in TablesWithServices
    <3>1. t = "shifts" => r.values.break_duration_minutes # Null
      BY <1>3, BreakColumn, RequestAssumption DEF Complete
    <3> QED
      BY <2>1, <3>1, ServicesFit
  <2>2. CASE t = "user_roles"
    <3>1. CreateErrors(d, "user_roles", r.values) = AssignRole(d, r.values)
      BY DEF CreateErrors
    <3>2. RoutesOf("user_roles") = AssignmentRoutes
      BY DEF RoutesOf
    <3>3. AssignRole(d, r.values) \subseteq AssignmentRoutes.create
      BY AssignmentsFit
    <3> QED
      BY <2>2, <3>1, <3>2, <3>3
  <2>3. CASE t \in {"organizations", "location_types", "users"}
    BY <1>1, <2>3, ServiceOfTable
  <2> QED
    BY <1>1, <2>1, <2>2, <2>3 DEF OrganizationTables, TablesWithServices
<1>4. ASSUME r.op = "update"
      PROVE  UpdateErrors(d, t, r.id, r.values) \subseteq RoutesOf(t).update
  <2>1. CASE t \in TablesWithServices
    <3>1. ASSUME t = "shifts" PROVE Patched(d[t][r.id], r.values).break_duration_minutes # Null
      <4>1. /\ Complete(d[t][r.id], OrganizationRequired[t])
            /\ "break_duration_minutes" \in DOMAIN d[t][r.id]
        BY <1>4, <3>1, BreakColumn DEF RowsComplete
      <4>2. Complete(r.values, OrganizationRequired[t])
        BY <1>4, SameTables DEF T!SendsNull, T!Deletes, OrganizationAssigned
      <4>3. Complete(Patched(d[t][r.id], r.values), OrganizationRequired[t])
        BY <4>1, <4>2, PatchedComplete
      <4>4. "break_duration_minutes" \in DOMAIN Patched(d[t][r.id], r.values)
        BY <4>1 DEF Patched
      <4> QED
        BY <3>1, <4>3, <4>4, BreakColumn DEF Complete
    <3> QED
      BY <2>1, <3>1, ServicesFit
  <2>2. CASE t \in {"organizations", "location_types", "users"}
    BY <1>1, <2>2, ServiceOfTable
  <2> QED
    BY <1>1, <1>4, <2>1, <2>2, RequestAssumption DEF OrganizationTables, TablesWithServices
<1> QED
  BY <1>1, <1>2, <1>3, <1>4 DEF OrganizationErrors, OrganizationRoutes

\* Every request that nobody overtook gets an answer, whatever the database
\* holds and whoever else is at work, but for the three kinds of requests that
\* AnsweredUnlessOvertaken names: the deletion of a row that others refer to, the
\* code of a location type, and an update that sends null for a NOT NULL column.
THEOREM OrganizationAnswers == Spec => []AnsweredUnlessOvertaken
<1>1. TypeOK => AnsweredUnlessOvertaken
  <2> SUFFICES ASSUME TypeOK, NEW h \in Handlers, T!Unanswered(h), NEW r, r = handler[h].request,
                      ~(r.op = "delete" /\ StillReferred(db, OrganizationForeignKeys, r.table, r.id)),
                      ~(r.table = "location_types" /\ "code" \in DOMAIN r.values),
                      ~T!SendsNull(db, r)
               PROVE  FALSE
    BY DEF AnsweredUnlessOvertaken
  <2>1. CASE handler[h].at = "entered"
    <3>1. /\ r \in Requests /\ RowsComplete(db, OrganizationRequired)
          /\ ~(OrganizationErrors(db, r) \subseteq OrganizationRoutes(r))
          /\ r.op = "create" \/ r.id \in DOMAIN db[r.table]
      BY <2>1, SameTables DEF TypeOK, T!Unanswered, T!Found, Exists
    <3>2. \A i \in DOMAIN db["shifts"] : Columns("shifts") \subseteq DOMAIN db["shifts"][i]
      BY BreakColumn DEF TypeOK
    <3> QED
      BY <3>1, <3>2, RoutesKnowErrors
  <2>2. CASE handler[h].at = "checked"
    BY <2>2, CurrentIsAccepted DEF T!Unanswered
  <2> QED
    BY <2>1, <2>2 DEF T!Unanswered
<1> QED
  BY <1>1, OrganizationTypeCorrect, PTL

-----------------------------------------------------------------------------
(* Who may leave rows in disagreement *)

\* What has to agree: a reference, and columns that both rows have.
LEMMA AgreementColumns ==
  ASSUME NEW a \in Agreements
  PROVE  /\ a.from \in OrganizationTables /\ a.to \in OrganizationTables \ {"hr_employees"}
         /\ a.column \in Columns(a.from) \ {"user_id"}
         /\ a.shared \in Columns(a.from) \ {"user_id"} /\ a.shared \in Columns(a.to)
         /\ \E f \in OrganizationForeignKeys :
              f.from = a.from /\ f.column = a.column /\ f.to = a.to
<1> DEFINE Key(t, c, u) ==
      \E f \in OrganizationForeignKeys : f.from = t /\ f.column = c /\ f.to = u
<1>1. \A t, c, u : Key(t, c, u) => c \in Columns(t)
  BY DEF Columns
<1>2. ASSUME NEW t, NEW c, NEW u, NEW onDelete,
             Reference(t, c, u, onDelete) \in OrganizationForeignKeys
      PROVE  Key(t, c, u)
  BY <1>2 DEF Reference
<1>3. /\ Reference("departments", "organization_id", "organizations", "cascade") \in OrganizationForeignKeys
      /\ Reference("departments", "parent_id", "departments", "restrict") \in OrganizationForeignKeys
      /\ Reference("teams", "organization_id", "organizations", "restrict") \in OrganizationForeignKeys
      /\ Reference("teams", "department_id", "departments", "restrict") \in OrganizationForeignKeys
      /\ Reference("teams", "parent_id", "teams", "restrict") \in OrganizationForeignKeys
      /\ Reference("positions", "organization_id", "organizations", "restrict") \in OrganizationForeignKeys
      /\ Reference("positions", "department_id", "departments", "restrict") \in OrganizationForeignKeys
  BY DEF OrganizationForeignKeys, DepartmentKeys, TeamKeys, PositionKeys, References
<1>4. \A c \in DOMAIN EmployeeReferences :
        Reference("hr_employees", c, EmployeeReferences[c], "restrict") \in OrganizationForeignKeys
  BY DEF OrganizationForeignKeys, EmployeeKeys
<1>5. ASSUME NEW c \in {"organization_id", "department_id", "position_id", "team_id"}
      PROVE  /\ c \in DOMAIN EmployeeReferences
             /\ c = "organization_id" => EmployeeReferences[c] = "organizations"
             /\ c = "department_id" => EmployeeReferences[c] = "departments"
             /\ c = "position_id" => EmployeeReferences[c] = "positions"
             /\ c = "team_id" => EmployeeReferences[c] = "teams"
  BY DEF EmployeeReferences
<1> HIDE DEF Key
<1>6. /\ Key("departments", "organization_id", "organizations")
      /\ Key("departments", "parent_id", "departments")
      /\ Key("teams", "organization_id", "organizations")
      /\ Key("teams", "department_id", "departments") /\ Key("teams", "parent_id", "teams")
      /\ Key("positions", "organization_id", "organizations")
      /\ Key("positions", "department_id", "departments")
  BY <1>2, <1>3
<1>7. /\ Key("hr_employees", "organization_id", "organizations")
      /\ Key("hr_employees", "department_id", "departments")
      /\ Key("hr_employees", "position_id", "positions")
      /\ Key("hr_employees", "team_id", "teams")
  BY <1>2, <1>4, <1>5
<1>8. /\ a.from \in OrganizationTables /\ a.to \in OrganizationTables \ {"hr_employees"}
      /\ a.column # "user_id" /\ a.shared # "user_id"
  BY DEF Agreements, OrganizationTables
<1>9. Key(a.from, a.column, a.to)
  BY <1>6, <1>7 DEF Agreements
<1>10. a.shared \in Columns(a.from) /\ a.shared \in Columns(a.to)
  BY <1>1, <1>6, <1>7 DEF Agreements
<1> QED
  BY <1>1, <1>8, <1>9, <1>10 DEF Key

\* A service that accepts a row has seen it agree with the rows it refers to,
\* and not refer to itself.
LEMMA AcceptedRowsAgree ==
  ASSUME NEW d, NEW r, OrganizationErrors(d, r) = {},
         NEW a \in Agreements, a.from = r.table
  PROVE  /\ r.op = "create" =>
              ~Mismatch(d, a.to, r.values[a.column], a.shared, r.values[a.shared])
         /\ r.op = "update" =>
              LET row == Patched(d[r.table][r.id], r.values) IN
              /\ ~Mismatch(d, a.to, row[a.column], a.shared, row[a.shared])
              /\ a.to = a.from => row[a.column] # r.id
<1>1. a.from \in {"departments", "teams", "positions", "hr_employees"}
  BY DEF Agreements
<1> DEFINE row == Patched(d[r.table][r.id], r.values)
<1>2. CASE a.from = "departments"
  <2>1. /\ a.to = "departments" /\ a.column = "parent_id" /\ a.shared = "organization_id"
    BY <1>2 DEF Agreements
  <2>2. ASSUME r.op = "create"
        PROVE ~Mismatch(d, "departments", r.values.parent_id, "organization_id", r.values.organization_id)
    BY <1>2, <2>2 DEF OrganizationErrors, CreateErrors, DepartmentCreate, Raise
  <2>3. ASSUME r.op = "update"
        PROVE /\ ~Mismatch(d, "departments", row.parent_id, "organization_id", row.organization_id)
              /\ row.parent_id # r.id
    BY <1>2, <2>3 DEF OrganizationErrors, UpdateErrors, DepartmentUpdate, Raise
  <2> HIDE DEF row
  <2> QED
    BY <2>1, <2>2, <2>3 DEF row
<1>3. CASE a.from = "teams"
  <2>1. \/ a.to = "departments" /\ a.column = "department_id" /\ a.shared = "organization_id"
        \/ a.to = "teams" /\ a.column = "parent_id" /\ a.shared = "organization_id"
        \/ a.to = "teams" /\ a.column = "parent_id" /\ a.shared = "department_id"
    BY <1>3 DEF Agreements
  <2>2. ASSUME r.op = "create"
        PROVE /\ ~Mismatch(d, "departments", r.values.department_id, "organization_id", r.values.organization_id)
              /\ ~Mismatch(d, "teams", r.values.parent_id, "organization_id", r.values.organization_id)
              /\ ~Mismatch(d, "teams", r.values.parent_id, "department_id", r.values.department_id)
    BY <1>3, <2>2 DEF OrganizationErrors, CreateErrors, TeamCreate, DepartmentErrors,
         TeamParentErrors, Raise
  <2>3. ASSUME r.op = "update"
        PROVE /\ ~Mismatch(d, "departments", row.department_id, "organization_id", row.organization_id)
              /\ ~Mismatch(d, "teams", row.parent_id, "organization_id", row.organization_id)
              /\ ~Mismatch(d, "teams", row.parent_id, "department_id", row.department_id)
              /\ row.parent_id # r.id
    BY <1>3, <2>3 DEF OrganizationErrors, UpdateErrors, TeamUpdate, DepartmentErrors,
         TeamParentErrors, Raise
  <2> HIDE DEF row
  <2> QED
    BY <1>3, <2>1, <2>2, <2>3 DEF row
<1>4. CASE a.from = "positions"
  <2>1. a.to = "departments" /\ a.column = "department_id" /\ a.shared = "organization_id"
    BY <1>4 DEF Agreements
  <2>2. ASSUME r.op = "create"
        PROVE ~Mismatch(d, "departments", r.values.department_id, "organization_id", r.values.organization_id)
    BY <1>4, <2>2 DEF OrganizationErrors, CreateErrors, PositionCreate, DepartmentErrors, Raise
  <2>3. ASSUME r.op = "update"
        PROVE ~Mismatch(d, "departments", row.department_id, "organization_id", row.organization_id)
    BY <1>4, <2>3 DEF OrganizationErrors, UpdateErrors, PositionUpdate, DepartmentErrors, Raise
  <2> HIDE DEF row
  <2> QED
    BY <1>4, <2>1, <2>2, <2>3 DEF row
<1>5. CASE a.from = "hr_employees"
  <2>1. \/ a.to = "departments" /\ a.column = "department_id" /\ a.shared = "organization_id"
        \/ a.to = "positions" /\ a.column = "position_id" /\ a.shared = "organization_id"
        \/ a.to = "teams" /\ a.column = "team_id" /\ a.shared = "organization_id"
        \/ a.to = "teams" /\ a.column = "team_id" /\ a.shared = "department_id"
    BY <1>5 DEF Agreements
  <2>2. ASSUME NEW v, EmployeeErrors(d, v) = {}
        PROVE /\ ~Mismatch(d, "departments", v.department_id, "organization_id", v.organization_id)
              /\ ~Mismatch(d, "positions", v.position_id, "organization_id", v.organization_id)
              /\ ~Mismatch(d, "teams", v.team_id, "organization_id", v.organization_id)
              /\ ~Mismatch(d, "teams", v.team_id, "department_id", v.department_id)
    BY <2>2 DEF EmployeeErrors, DepartmentErrors, Raise
  <2>3. r.op = "create" => EmployeeErrors(d, r.values) = {}
    BY <1>5 DEF OrganizationErrors, CreateErrors, EmployeeCreate
  <2>4. r.op = "update" => EmployeeErrors(d, row) = {}
    BY <1>5 DEF OrganizationErrors, UpdateErrors, EmployeeUpdate
  <2> HIDE DEF row
  <2> QED
    BY <1>5, <2>1, <2>2, <2>3, <2>4 DEF row
<1> QED
  BY <1>1, <1>2, <1>3, <1>4, <1>5

\* The write of a request that nobody overtook: a creation under a new id, an
\* update that leaves the effective row, a deletion.
LEMMA CurrentWriteByKind ==
  ASSUME TypeOK, NEW h \in Handlers, T!Write(h), T!Current(h),
         NEW r, r = handler[h].request, NEW t, t = r.table
  PROVE  /\ r \in Requests /\ t \in OrganizationTables /\ OrganizationErrors(db, r) = {}
         /\ \/ /\ r.op = "create"
               /\ \E new : /\ new \notin DOMAIN db[t] \cup {Null}
                           /\ db' = Stored(db, t, new, r.values)
            \/ /\ r.op = "update" /\ r.id \in DOMAIN db[t]
               /\ \E row : /\ db' = Stored(db, t, r.id, row)
                           /\ LET effective == Patched(db[t][r.id], r.values) IN
                                \A c \in DOMAIN db[t][r.id] : row[c] = effective[c]
            \/ /\ r.op = "delete"
               /\ db' = Removed(db, OrganizationForeignKeys, t, r.id)
<1> DEFINE new == lastId[t] + 1
           row == Patched(db[t][r.id], Dirty(handler[h].loaded, r.values))
           effective == Patched(db[t][r.id], r.values)
<1>1. /\ r \in Requests /\ r.op \in {"create", "update", "delete"} /\ t \in OrganizationTables
  BY RequestAssumption, RequestTables DEF TypeOK, T!Write
<1>2. r.op # "create" => handler[h].loaded = db[t][r.id]
  BY DEF T!Current
<1>3. OrganizationErrors(db, r) = {}
  BY DEF T!Current, T!Refused
<1>4. /\ r.op = "create" => db' = Stored(db, t, new, r.values)
      /\ r.op = "update" => db' = Stored(db, t, r.id, row) /\ r.id \in DOMAIN db[t]
      /\ r.op = "delete" => db' = Removed(db, OrganizationForeignKeys, t, r.id)
  BY WriteByKind
<1>5. new \notin DOMAIN db[t] \cup {Null}
  BY <1>1, NullIsNoId DEF TypeOK
<1>6. r.op = "update" => \A c \in DOMAIN db[t][r.id] : row[c] = effective[c]
  BY <1>2, <1>3 DEF Patched, Dirty
<1> HIDE DEF new, row
<1> QED
  BY <1>1, <1>3, <1>4, <1>5, <1>6

\* The rows after an INSERT or UPDATE.
LEMMA StoredRows ==
  ASSUME NEW d, DOMAIN d = OrganizationTables, NEW t \in OrganizationTables,
         NEW id, NEW row, NEW after, after = Stored(d, t, id, row)
  PROVE  /\ \A u \in OrganizationTables \ {t} : after[u] = d[u]
         /\ DOMAIN after[t] = DOMAIN d[t] \cup {id} /\ after[t][id] = row
         /\ \A j \in DOMAIN d[t] \ {id} : after[t][j] = d[t][j]
BY StoredTables

\* The rows after a DELETE.
LEMMA RemovedRows ==
  ASSUME NEW d, DOMAIN d = OrganizationTables, NEW t, NEW id,
         NEW after, after = Removed(d, OrganizationForeignKeys, t, id),
         NEW u \in OrganizationTables, NEW j \in DOMAIN after[u]
  PROVE  /\ j \in DOMAIN d[u]
         /\ \A c \in DOMAIN d[u][j] \ {"user_id"} : after[u][j][c] = d[u][j][c]
BY RemovedTables

\* Rows i in disagreement after the write, that were not before.
LEMMA OnlyMovesDrift ==
  ASSUME TypeOK, NEW h \in Handlers, T!Write(h), T!Current(h),
         NEW r, r = handler[h].request,
         NEW a \in Agreements, NEW i \in DOMAIN db'[a.from],
         Mismatch(db', a.to, db'[a.from][i][a.column], a.shared, db'[a.from][i][a.shared]),
         ~( /\ i \in DOMAIN db[a.from]
            /\ Mismatch(db, a.to, db[a.from][i][a.column], a.shared, db[a.from][i][a.shared]) )
  PROVE  /\ r.op = "update" /\ r.table = a.to /\ a.shared \in DOMAIN r.values
         /\ db'[a.from][i][a.column] = r.id
<1> DEFINE t == r.table
           p == db'[a.from][i][a.column]
<1>1. /\ a.from \in OrganizationTables /\ a.to \in OrganizationTables \ {"hr_employees"}
      /\ a.column # "user_id" /\ a.shared # "user_id"
      /\ a.column \in Columns(a.from) /\ a.shared \in Columns(a.from) /\ a.shared \in Columns(a.to)
  BY AgreementColumns
<1>2. PICK f \in OrganizationForeignKeys : f.from = a.from /\ f.column = a.column /\ f.to = a.to
  BY AgreementColumns
<1>3. \A j \in DOMAIN db[a.from] : db[a.from][j][a.column] \in DOMAIN db[a.to] \cup {Null}
  BY <1>2 DEF TypeOK, ReferencesHold
<1>9. /\ \A j \in DOMAIN db[a.from] : a.column \in DOMAIN db[a.from][j]
      /\ \A j \in DOMAIN db[a.from] : a.shared \in DOMAIN db[a.from][j]
      /\ \A j \in DOMAIN db[a.to] : a.shared \in DOMAIN db[a.to][j]
  BY <1>1 DEF TypeOK
<1>10. Null \notin DOMAIN db[a.to]
  BY <1>1, NullIsNoId DEF TypeOK
<1>11. DOMAIN db = OrganizationTables
  BY DEF TypeOK
<1>4. p \in DOMAIN db'[a.to] /\ db'[a.to][p][a.shared] # db'[a.from][i][a.shared]
  BY DEF Mismatch, Exists
<1>5. /\ t \in OrganizationTables /\ OrganizationErrors(db, r) = {} /\ r \in Requests
  BY CurrentWriteByKind
<1>6. CASE r.op = "create"
  <2>1. PICK new : new \notin DOMAIN db[t] \cup {Null} /\ db' = Stored(db, t, new, r.values)
    BY <1>6, CurrentWriteByKind
  <2>2. /\ \A u \in OrganizationTables \ {t} : db'[u] = db[u]
        /\ DOMAIN db'[t] = DOMAIN db[t] \cup {new} /\ db'[t][new] = r.values
        /\ \A j \in DOMAIN db[t] \ {new} : db'[t][j] = db[t][j]
    <3> DEFINE d == db
               after == db'
               u == t
    <3>1. DOMAIN d = OrganizationTables /\ u \in OrganizationTables
      BY <1>5, <1>11
    <3>2. after = Stored(d, u, new, r.values)
      BY <2>1
    <3> HIDE DEF d, after, u
    <3>3. \A v \in OrganizationTables \ {u} : after[v] = d[v]
      BY <3>1, <3>2, StoredRows
    <3>4. DOMAIN after[u] = DOMAIN d[u] \cup {new} /\ after[u][new] = r.values
      BY <3>1, <3>2, StoredRows
    <3>5. \A j \in DOMAIN d[u] \ {new} : after[u][j] = d[u][j]
      BY <3>1, <3>2, StoredRows
    <3> QED
      BY <3>3, <3>4, <3>5 DEF d, after, u
  <2>5. p \in DOMAIN db[a.to] \cup {Null} => p \in DOMAIN db[a.to] /\ db'[a.to][p] = db[a.to][p]
    <3>1. Null \notin DOMAIN db'[a.to]
      BY <1>1, <1>10, <2>1, <2>2
    <3>2. \A q \in DOMAIN db[a.to] : db'[a.to][q] = db[a.to][q]
      BY <1>1, <2>1, <2>2
    <3> QED
      BY <1>4, <3>1, <3>2
  <2>3. CASE a.from = t /\ i = new
    <3>1. p = r.values[a.column] /\ db'[a.from][i][a.shared] = r.values[a.shared]
      BY <2>2, <2>3
    <3>2. p \in DOMAIN db[a.to] \cup {Null}
      <4>1. ~(t = "location_types" /\ "code" \in DOMAIN r.values)
        BY <2>3 DEF Agreements
      <4>2. Fits(db, t, 0, r.values)
        BY <1>5, <1>6, <4>1, CheckedRequestsFit
      <4> QED
        BY <1>2, <2>3, <3>1, <4>2 DEF Fits
    <3>4. p \in DOMAIN db[a.to] /\ db'[a.to][p] = db[a.to][p]
      BY <2>5, <3>2
    <3>5. ~Mismatch(db, a.to, r.values[a.column], a.shared, r.values[a.shared])
      BY <1>5, <1>6, <2>3, AcceptedRowsAgree
    <3> QED
      BY <1>4, <3>1, <3>4, <3>5 DEF Mismatch, Exists
  <2>4. CASE ~(a.from = t /\ i = new)
    <3>1. i \in DOMAIN db[a.from] /\ db'[a.from][i] = db[a.from][i]
      BY <1>1, <2>2, <2>4
    <3>2. p \in DOMAIN db[a.to] \cup {Null}
      BY <1>3, <3>1
    <3>3. p \in DOMAIN db[a.to] /\ db'[a.to][p] = db[a.to][p]
      BY <2>5, <3>2
    <3> QED
      BY <1>4, <3>1, <3>3 DEF Mismatch, Exists
  <2> QED
    BY <2>3, <2>4
<1>7. CASE r.op = "update"
  <2> DEFINE effective == Patched(db[t][r.id], r.values)
  <2>1. r.id \in DOMAIN db[t]
    BY <1>7, CurrentWriteByKind
  <2>2. PICK row : /\ db' = Stored(db, t, r.id, row)
                   /\ \A c \in DOMAIN db[t][r.id] : row[c] = effective[c]
    BY <1>7, CurrentWriteByKind, SMTT(30)
  <2>3. /\ \A u \in OrganizationTables \ {t} : db'[u] = db[u]
        /\ DOMAIN db'[t] = DOMAIN db[t] /\ db'[t][r.id] = row
        /\ \A j \in DOMAIN db[t] \ {r.id} : db'[t][j] = db[t][j]
    <3>1. /\ \A u \in OrganizationTables \ {t} : db'[u] = db[u]
          /\ DOMAIN db'[t] = DOMAIN db[t] \cup {r.id} /\ db'[t][r.id] = row
          /\ \A j \in DOMAIN db[t] \ {r.id} : db'[t][j] = db[t][j]
      <4> DEFINE d == db
                 after == db'
                 u == t
                 id == r.id
      <4>1. DOMAIN d = OrganizationTables /\ u \in OrganizationTables
        BY <1>5, <1>11
      <4>2. after = Stored(d, u, id, row)
        BY <2>2
      <4> HIDE DEF d, after, u, id
      <4>3. \A v \in OrganizationTables \ {u} : after[v] = d[v]
        BY <4>1, <4>2, StoredRows
      <4>4. DOMAIN after[u] = DOMAIN d[u] \cup {id} /\ after[u][id] = row
        BY <4>1, <4>2, StoredRows
      <4>5. \A j \in DOMAIN d[u] \ {id} : after[u][j] = d[u][j]
        BY <4>1, <4>2, StoredRows
      <4> QED
        BY <4>3, <4>4, <4>5 DEF d, after, u, id
    <3> QED
      BY <2>1, <3>1
  <2>4. \A c \in DOMAIN db[t][r.id] \ DOMAIN r.values : row[c] = db[t][r.id][c]
    BY <2>2 DEF Patched
  <2> HIDE DEF effective
  <2>5. i \in DOMAIN db[a.from] /\ p \in DOMAIN db[a.to]
    BY <1>1, <1>4, <2>3
  <2>6. CASE a.from = t /\ i = r.id
    <3>1. p = effective[a.column] /\ db'[a.from][i][a.shared] = effective[a.shared]
      <4>1. a.column \in DOMAIN db[t][r.id] /\ a.shared \in DOMAIN db[t][r.id]
        BY <1>9, <2>1, <2>6
      <4>2. row[a.column] = effective[a.column] /\ row[a.shared] = effective[a.shared]
        BY <2>2, <4>1
      <4> QED
        BY <2>3, <2>6, <4>2
    <3>2. /\ ~Mismatch(db, a.to, effective[a.column], a.shared, effective[a.shared])
          /\ a.to = a.from => effective[a.column] # r.id
      BY <1>5, <1>7, <2>6, AcceptedRowsAgree DEF effective
    <3>3. db'[a.to][p] = db[a.to][p]
      BY <1>1, <2>3, <2>5, <2>6, <3>1, <3>2
    <3> QED
      BY <1>4, <2>5, <3>1, <3>2, <3>3 DEF Mismatch, Exists
  <2>7. CASE ~(a.from = t /\ i = r.id)
    <3>1. db'[a.from][i] = db[a.from][i]
      BY <1>1, <2>3, <2>5, <2>7
    <3>2. db'[a.to][p][a.shared] # db[a.to][p][a.shared]
      BY <1>4, <2>5, <3>1 DEF Mismatch, Exists
    <3>3. a.to = t /\ p = r.id
      <4>1. a.to # t => db'[a.to] = db[a.to]
        BY <1>1, <2>3
      <4>2. a.to = t /\ p # r.id => db'[a.to][p] = db[a.to][p]
        BY <2>3, <2>5
      <4> QED
        BY <3>2, <4>1, <4>2
    <3>4. a.shared \in DOMAIN r.values
      <4>1. a.shared \in DOMAIN db[t][r.id]
        BY <1>9, <2>1, <3>3
      <4> QED
        BY <2>3, <2>4, <3>2, <3>3, <4>1
    <3> QED
      BY <1>7, <3>3, <3>4
  <2> QED
    BY <2>6, <2>7
<1>8. CASE r.op = "delete"
  <2>1. db' = Removed(db, OrganizationForeignKeys, t, r.id)
    BY <1>8, CurrentWriteByKind
  <2>2. \A u \in OrganizationTables : \A j \in DOMAIN db'[u] :
          /\ j \in DOMAIN db[u]
          /\ \A c \in DOMAIN db[u][j] \ {"user_id"} : db'[u][j][c] = db[u][j][c]
    <3> DEFINE d == db
               after == db'
               u == t
               id == r.id
    <3>1. DOMAIN d = OrganizationTables /\ after = Removed(d, OrganizationForeignKeys, u, id)
      BY <1>11, <2>1
    <3> HIDE DEF d, after, u, id
    <3>2. \A v \in OrganizationTables : \A j \in DOMAIN after[v] :
            /\ j \in DOMAIN d[v]
            /\ \A c \in DOMAIN d[v][j] \ {"user_id"} : after[v][j][c] = d[v][j][c]
      BY <3>1, RemovedRows
    <3> QED
      BY <3>2 DEF d, after
  <2>3. /\ i \in DOMAIN db[a.from] /\ p \in DOMAIN db[a.to]
        /\ db'[a.from][i][a.column] = db[a.from][i][a.column]
        /\ db'[a.from][i][a.shared] = db[a.from][i][a.shared]
        /\ db'[a.to][p][a.shared] = db[a.to][p][a.shared]
    <3>1. i \in DOMAIN db[a.from] /\ p \in DOMAIN db[a.to]
      BY <1>1, <1>4, <2>2
    <3>2. /\ a.column \in DOMAIN db[a.from][i] \ {"user_id"}
          /\ a.shared \in DOMAIN db[a.from][i] \ {"user_id"}
          /\ a.shared \in DOMAIN db[a.to][p] \ {"user_id"}
      BY <1>1, <1>9, <3>1
    <3> QED
      BY <1>1, <1>4, <2>2, <3>2
  <2> QED
    BY <1>4, <2>3 DEF Mismatch, Exists
<1> QED
  BY <1>5, <1>6, <1>7, <1>8, RequestAssumption

LEMMA ShiftColumns == {"start_time", "end_time"} \subseteq Columns("shifts")
BY DEF Columns

\* A shift that a request stores ends at another time than it starts.
LEMMA StoredShiftsLast ==
  ASSUME TypeOK, NEW h \in Handlers, T!Write(h), T!Current(h),
         NEW r, r = handler[h].request, r.table = "shifts",
         NEW i \in DOMAIN db'["shifts"]
  PROVE  \/ db'["shifts"][i].start_time # db'["shifts"][i].end_time
         \/ /\ i \in DOMAIN db["shifts"]
            /\ db'["shifts"][i].start_time = db["shifts"][i].start_time
            /\ db'["shifts"][i].end_time = db["shifts"][i].end_time
<1> DEFINE d == db
           after == db'
           u == "shifts"
           id == r.id
<1>1. /\ DOMAIN d = OrganizationTables /\ u \in OrganizationTables
      /\ \A j \in DOMAIN d[u] : {"start_time", "end_time"} \subseteq DOMAIN d[u][j]
  <2>1. {"start_time", "end_time"} \subseteq Columns(u)
    BY ShiftColumns
  <2>2. u \in OrganizationTables
    BY DEF OrganizationTables
  <2> HIDE DEF u
  <2> QED
    BY <2>1, <2>2 DEF TypeOK
<1>2. OrganizationErrors(d, r) = {} /\ r \in Requests
  BY CurrentWriteByKind
<1>3. i \in DOMAIN after[u]
  OBVIOUS
<1>4. CASE r.op = "create"
  <2>1. PICK new : after = Stored(d, u, new, r.values)
    BY <1>4, CurrentWriteByKind
  <2>2. r.values.start_time # r.values.end_time
    BY <1>2, <1>4 DEF OrganizationErrors, CreateErrors, ShiftCreate, Raise
  <2> HIDE DEF d, after, u
  <2>3. /\ DOMAIN after[u] = DOMAIN d[u] \cup {new} /\ after[u][new] = r.values
        /\ \A j \in DOMAIN d[u] \ {new} : after[u][j] = d[u][j]
    BY <1>1, <2>1, StoredRows
  <2>4. i = new \/ (i \in DOMAIN d[u] /\ after[u][i] = d[u][i])
    BY <1>3, <2>3
  <2> QED
    BY <2>2, <2>3, <2>4 DEF d, after, u
<1>5. CASE r.op = "update"
  <2> DEFINE effective == Patched(d[u][id], r.values)
  <2>1. id \in DOMAIN d[u]
    BY <1>5, CurrentWriteByKind
  <2>2. PICK row : /\ after = Stored(d, u, id, row)
                   /\ \A c \in DOMAIN d[u][id] : row[c] = effective[c]
    BY <1>5, CurrentWriteByKind
  <2>3. effective.start_time # effective.end_time
    BY <1>2, <1>5 DEF OrganizationErrors, UpdateErrors, ShiftUpdate, Raise
  <2> HIDE DEF d, after, u, id, effective
  <2>4. /\ DOMAIN after[u] = DOMAIN d[u] \cup {id} /\ after[u][id] = row
        /\ \A j \in DOMAIN d[u] \ {id} : after[u][j] = d[u][j]
    BY <1>1, <2>2, StoredRows
  <2>5. i = id \/ (i \in DOMAIN d[u] /\ after[u][i] = d[u][i])
    BY <1>3, <2>4
  <2>6. row.start_time # row.end_time
    BY <1>1, <2>1, <2>2, <2>3
  <2> QED
    BY <2>4, <2>5, <2>6 DEF d, after, u
<1>6. CASE r.op = "delete"
  <2>1. after = Removed(d, OrganizationForeignKeys, u, id)
    BY <1>6, CurrentWriteByKind
  <2> HIDE DEF d, after, u, id
  <2>2. /\ i \in DOMAIN d[u]
        /\ \A c \in DOMAIN d[u][i] \ {"user_id"} : after[u][i][c] = d[u][i][c]
    BY <1>1, <1>3, <2>1, RemovedRows
  <2>3. after[u][i].start_time = d[u][i].start_time /\ after[u][i].end_time = d[u][i].end_time
    BY <1>1, <2>2
  <2> QED
    BY <2>2, <2>3 DEF d, after, u
<1> QED
  BY <1>2, <1>4, <1>5, <1>6, RequestAssumption

\* A write whose checks still hold puts rows out of agreement with the rows they
\* refer to only because it moved those, on any database and whatever is asked by
\* how many handlers; and no such write stores a shift that ends when it starts.
\* Of a write that was overtaken after its checks this says nothing: two edits of
\* one shift, of its start and of its end, may leave them equal.
THEOREM OnlyMovesMakeRowsDrift == Spec => DriftOnlyByMoves
<1> DEFINE Allowed(h) ==
      LET r == handler[h].request IN
      /\ \A x \in Drifted(db') \ Drifted(db) :
           LET a == x[1] IN
           /\ r.op = "update" /\ r.table = a.to /\ a.shared \in DOMAIN r.values
           /\ db'[a.from][x[2]][a.column] = r.id
      /\ r.table = "shifts" => \A i \in DOMAIN db'["shifts"] :
           \/ db'["shifts"][i].start_time # db'["shifts"][i].end_time
           \/ /\ i \in DOMAIN db["shifts"]
              /\ db'["shifts"][i].start_time = db["shifts"][i].start_time
              /\ db'["shifts"][i].end_time = db["shifts"][i].end_time
<1>1. TypeOK /\ [Next]_vars => [\A h \in Handlers : T!Writes(h) /\ T!Current(h) => Allowed(h)]_vars
  <2> SUFFICES ASSUME TypeOK, Next, NEW h \in Handlers, T!Writes(h), T!Current(h)
               PROVE  Allowed(h)
    OBVIOUS
  <2> DEFINE r == handler[h].request
  <2>1. T!Write(h)
    BY OnlyWrites DEF TypeOK
  <2>2. ASSUME NEW x \in Drifted(db') \ Drifted(db)
        PROVE  /\ r.op = "update" /\ r.table = x[1].to /\ x[1].shared \in DOMAIN r.values
               /\ db'[x[1].from][x[2]][x[1].column] = r.id
    <3>1. PICK a \in Agreements : \E i \in DOMAIN db'[a.from] :
            /\ x = <<a, i>>
            /\ Mismatch(db', a.to, db'[a.from][i][a.column], a.shared, db'[a.from][i][a.shared])
      BY <2>2 DEF Drifted
    <3>2. PICK i \in DOMAIN db'[a.from] :
            /\ x = <<a, i>>
            /\ Mismatch(db', a.to, db'[a.from][i][a.column], a.shared, db'[a.from][i][a.shared])
      BY <3>1
    <3>3. ~( /\ i \in DOMAIN db[a.from]
             /\ Mismatch(db, a.to, db[a.from][i][a.column], a.shared, db[a.from][i][a.shared]) )
      BY <2>2, <3>2 DEF Drifted
    <3>4. /\ r.op = "update" /\ r.table = a.to /\ a.shared \in DOMAIN r.values
          /\ db'[a.from][i][a.column] = r.id
      BY <2>1, <3>2, <3>3, OnlyMovesDrift
    <3> QED
      BY <3>2, <3>4
  <2>3. ASSUME r.table = "shifts", NEW i \in DOMAIN db'["shifts"]
        PROVE  \/ db'["shifts"][i].start_time # db'["shifts"][i].end_time
               \/ /\ i \in DOMAIN db["shifts"]
                  /\ db'["shifts"][i].start_time = db["shifts"][i].start_time
                  /\ db'["shifts"][i].end_time = db["shifts"][i].end_time
    BY <2>1, <2>3, StoredShiftsLast
  <2> QED
    BY <2>2, <2>3
<1> QED
  BY <1>1, OrganizationTypeCorrect, PTL DEF Spec, DriftOnlyByMoves
=============================================================================
