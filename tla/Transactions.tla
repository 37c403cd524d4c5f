---------------------------- MODULE Transactions ----------------------------
(***************************************************************************)
(* How one request to a record service is handled: the route's guard, in a *)
(* transaction of its own; the service method's checks on what it reads;   *)
(* and the write, which the database takes or rejects.  Requests of other  *)
(* handlers run between any two of these steps.  PostgreSQL runs each      *)
(* transaction READ COMMITTED and no SELECT locks, so nothing that was     *)
(* checked need hold at the write; the constraints are checked at the      *)
(* write.                                                                  *)
(*                                                                         *)
(* A component gives the constraints of its tables, the guard of each      *)
(* request and the errors each request raises.                             *)
(***************************************************************************)
EXTENDS Tables

CONSTANTS
  Handlers,             \* concurrent request handlers
  Requests,             \* the requests the clients may send
  MaxRequests,          \* bound on the requests handled
  ForeignKeys, UniqueKeys,
  Required,             \* per table, its NOT NULL columns
  Permitted(_, _),      \* whether the route lets the request through
  Errors(_, _),         \* the errors the service raises for the request
  Assigned(_, _),       \* the columns the service hands to the repository
  Routes(_)             \* the errors the route turns into an answer

VARIABLES
  db,           \* the committed database
  lastId,       \* per table, the last id given to a row: ids are not reused
  handler,      \* what each handler is doing
  handled       \* the requests accepted so far

vars == <<db, lastId, handler, handled>>

Idle == [at |-> "idle"]
NoRow == <<>>

\* A creation addresses no row; everything else the row of its id.  A
\* correction inserts, the other operations update.
Inserts(r) == r.op \in {"create", "correct"}
Deletes(r) == r.op = "delete"
Found(d, r) == r.op = "create" \/ Exists(d, r.table, r.id)

StartWith(d) ==
  /\ db = d
  /\ lastId = [t \in DOMAIN d |-> Cardinality(DOMAIN d[t])]
  /\ handler = [h \in Handlers |-> Idle]
  /\ handled = 0

\* The route's dependencies let the request through.
Enter(h, r) ==
  /\ handler[h].at = "idle"
  /\ handled < MaxRequests
  /\ Permitted(db, r)
  /\ handler' = [handler EXCEPT ![h] = [at |-> "entered", request |-> r]]
  /\ handled' = handled + 1
  /\ UNCHANGED <<db, lastId>>

\* Whether the service answers without a write: None for a row that is not
\* there, an error otherwise.
Refused(d, r) == Found(d, r) => Errors(d, r) # {}

\* loaded: the row as the session read it.
Check(h) ==
  LET r == handler[h].request IN
  /\ handler[h].at = "entered"
  /\ ~Refused(db, r)
  /\ handler' = [handler EXCEPT ![h] =
       [at |-> "checked", request |-> r, values |-> Assigned(db, r),
        loaded |-> IF r.op = "create" THEN NoRow ELSE db[r.table][r.id]]]
  /\ UNCHANGED <<db, lastId, handled>>

Refuse(h) ==
  /\ handler[h].at = "entered"
  /\ Refused(db, handler[h].request)
  /\ handler' = [handler EXCEPT ![h] = Idle]
  /\ UNCHANGED <<db, lastId, handled>>

\* The database after the flush of a checked request c, constraints aside.
\* An UPDATE writes the columns that differ from the loaded row.
Flushed(d, c, id) ==
  LET r == c.request IN
  IF Inserts(r) THEN Stored(d, r.table, id, c.values)
  ELSE IF Deletes(r) THEN Removed(d, ForeignKeys, r.table, r.id)
  ELSE Stored(d, r.table, r.id, Patched(d[r.table][r.id], Dirty(c.loaded, c.values)))

\* Mutant of Accepted: the tables were created without their unique keys.
AcceptedWithoutKeys(d, c, id) ==
  /\ Inserts(c.request) \/ Exists(d, c.request.table, c.request.id)
  /\ LET after == Flushed(d, c, id) IN
       ReferencesHold(after, ForeignKeys) /\ RowsComplete(after, Required)

\* Whether the flush succeeds: the row is still there, the constraints hold.
Accepted(d, c, id) ==
  /\ Inserts(c.request) \/ Exists(d, c.request.table, c.request.id)
  /\ LET after == Flushed(d, c, id) IN
       /\ ReferencesHold(after, ForeignKeys) /\ KeysHold(after, UniqueKeys)
       /\ RowsComplete(after, Required)

NextId(h) == lastId[handler[h].request.table] + 1

Write(h) ==
  LET r == handler[h].request IN
  /\ handler[h].at = "checked"
  /\ Accepted(db, handler[h], NextId(h))
  /\ db' = Flushed(db, handler[h], NextId(h))
  /\ lastId' = IF Inserts(r) THEN [lastId EXCEPT ![r.table] = @ + 1] ELSE lastId
  /\ handler' = [handler EXCEPT ![h] = Idle]
  /\ UNCHANGED handled

\* The flush raises, and the unit of work rolls back.
Fail(h) ==
  /\ handler[h].at = "checked"
  /\ ~Accepted(db, handler[h], NextId(h))
  /\ handler' = [handler EXCEPT ![h] = Idle]
  /\ UNCHANGED <<db, lastId, handled>>

Step(h) == Check(h) \/ Refuse(h) \/ Write(h) \/ Fail(h)

Next == \E h \in Handlers : Step(h) \/ \E r \in Requests : Enter(h, r)

-----------------------------------------------------------------------------
(* For properties: the step is the write of h; and whether what h checked    *)
(* still holds, so that nobody overtook it.                                  *)
Writes(h) == handler[h].at = "checked" /\ handler'[h].at = "idle" /\ db' # db

Current(h) ==
  LET r == handler[h].request IN
  /\ ~Refused(db, r)
  /\ r.op = "create" \/ handler[h].loaded = db[r.table][r.id]

\* The client sends null for a NOT NULL column.  The update schemas, in which None
\* is the default of every column, let it through, and the services pass it on.
SendsNull(d, r) == ~Deletes(r) /\ ~Complete(Assigned(d, r), Required[r.table])

\* The request of h ends, or would end now, in an exception that no handler
\* catches - status 500 - although nobody overtook it: an error of the service
\* that the route does not know, or a constraint the service does not check.
Unanswered(h) ==
  LET r == handler[h].request IN
  \/ handler[h].at = "entered" /\ Found(db, r) /\ ~(Errors(db, r) \subseteq Routes(r))
  \/ handler[h].at = "checked" /\ Current(h) /\ ~Accepted(db, handler[h], NextId(h))
=============================================================================
