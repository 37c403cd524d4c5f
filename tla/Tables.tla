------------------------------- MODULE Tables -------------------------------
(***************************************************************************)
(* The database as the services see it: a function from table names to     *)
(* tables, a table being a function from the ids of its rows to the rows,  *)
(* and a row a record of its columns.  What the repositories ask of it and *)
(* what PostgreSQL enforces: foreign keys with their ON DELETE rule,       *)
(* unique keys and NOT NULL columns.                                       *)
(***************************************************************************)
EXTENDS Integers, FiniteSets

CONSTANT Null       \* SQL NULL, None in the code

ASSUME NullIsNoId == Null \notin Int

Exists(d, t, id) == id \in DOMAIN d[t]

\* Whether the row exists and has another value in a column.
Mismatch(d, t, id, column, value) ==
  Exists(d, t, id) /\ d[t][id][column] # value

\* Another row of the table has the same values in these columns.
Taken(d, t, id, columns, row) ==
  \E other \in DOMAIN d[t] \ {id} :
    \A c \in columns : d[t][other][c] = row[c]

\* A row after some of its columns were assigned.
Patched(row, values) ==
  [c \in DOMAIN row \cup DOMAIN values |->
     IF c \in DOMAIN values THEN values[c] ELSE row[c]]

\* The assignments that change something: the only columns an UPDATE writes.
Dirty(row, values) ==
  [c \in {k \in DOMAIN values : values[k] # row[k]} |-> values[c]]

\* The errors a service raises, as the set of those whose condition holds.
Raise(condition, error) == IF condition THEN {error} ELSE {}

\* The same for an order of two values: Python does not compare None.
Compare(a, b, condition, error) ==
  IF Null \in {a, b} THEN {"TypeError"} ELSE Raise(condition, error)

-----------------------------------------------------------------------------
(* Constraints *)

Reference(from, column, to, onDelete) ==
  [from |-> from, column |-> column, to |-> to, onDelete |-> onDelete]

References(from, columns, to, onDelete) ==
  {Reference(from, c, to, onDelete) : c \in columns}

Unique(table, columns) == [table |-> table, columns |-> columns]

ReferencesHold(d, references) ==
  \A f \in references : \A id \in DOMAIN d[f.from] :
    d[f.from][id][f.column] \in DOMAIN d[f.to] \cup {Null}

KeysHold(d, keys) ==
  \A k \in keys : \A id \in DOMAIN d[k.table] :
    ~Taken(d, k.table, id, k.columns, d[k.table][id])

\* No NOT NULL column of a row is NULL.
Complete(row, required) == \A c \in required \cap DOMAIN row : row[c] # Null

RowsComplete(d, required) ==
  \A t \in DOMAIN required : \A id \in DOMAIN d[t] : Complete(d[t][id], required[t])

-----------------------------------------------------------------------------
(* Statements *)

\* INSERT, or UPDATE of a whole row.
Stored(d, t, id, row) ==
  [d EXCEPT ![t] = [i \in DOMAIN d[t] \cup {id} |->
                      IF i = id THEN row ELSE d[t][i]]]

\* The rows of table u that go, or lose a reference, with row id of table t.
Dependents(d, references, t, id, u, onDelete) ==
  {i \in DOMAIN d[u] : \E f \in references :
     /\ f.from = u /\ f.to = t /\ f.onDelete = onDelete
     /\ d[u][i][f.column] = id}

\* DELETE of one row, with the rows that cascade and the columns set to NULL.
\* A row that still refers to one that is gone makes the statement fail
\* (ReferencesHold): that is RESTRICT.
Removed(d, references, t, id) ==
  [u \in DOMAIN d |->
    [i \in DOMAIN d[u] \ ( (IF u = t THEN {id} ELSE {})
                           \cup Dependents(d, references, t, id, u, "cascade") ) |->
      [c \in DOMAIN d[u][i] |->
        IF \E f \in references :
             /\ f.from = u /\ f.column = c /\ f.to = t
             /\ f.onDelete = "set null" /\ d[u][i][c] = id
        THEN Null ELSE d[u][i][c]]]]

\* The DELETE fails: a row that stays refers to one that goes.
StillReferred(d, references, t, id) ==
  ~ReferencesHold(Removed(d, references, t, id), references)
=============================================================================
