---------------------------- MODULE Organization ----------------------------
(***************************************************************************)
(* The organization and its people: organizations, departments, teams,     *)
(* positions, employees and locations, the catalogues employees refer to,  *)
(* and the roles that guard the catalogues.  Every service has the same    *)
(* shape - create, update, delete by id - and its own checks; a partial    *)
(* update is checked on the row it will produce, the effective row.        *)
(* Names, descriptions and other columns no check reads are left out.      *)
(***************************************************************************)
EXTENDS Tables

CONSTANTS
  Handlers, Requests, MaxRequests,
  Database          \* the database the system starts from

VARIABLES db, lastId, handler, handled

OrganizationTables ==
  {"organizations", "departments", "teams", "positions", "hr_employees",
   "locations", "location_types", "job_grades", "employment_types",
   "employment_statuses", "shifts", "users", "roles", "user_roles"}

-----------------------------------------------------------------------------
(* Rows and their constraints *)

DepartmentKeys ==
  References("departments", {"organization_id"}, "organizations", "cascade")
  \cup References("departments", {"parent_id"}, "departments", "restrict")

TeamKeys ==
  References("teams", {"organization_id"}, "organizations", "restrict")
  \cup References("teams", {"department_id"}, "departments", "restrict")
  \cup References("teams", {"parent_id"}, "teams", "restrict")

PositionKeys ==
  References("positions", {"organization_id"}, "organizations", "restrict")
  \cup References("positions", {"department_id"}, "departments", "restrict")

LocationKeys ==
  References("locations", {"location_type_id"}, "location_types", "restrict")
  \cup References("locations", {"parent_id"}, "locations", "restrict")

EmployeeReferences ==
  [ organization_id |-> "organizations", department_id |-> "departments",
    position_id |-> "positions", team_id |-> "teams",
    location_id |-> "locations", manager_id |-> "hr_employees",
    job_grade_id |-> "job_grades", employment_type_id |-> "employment_types",
    employment_status_id |-> "employment_statuses", shift_id |-> "shifts" ]

EmployeeKeys ==
  {Reference("hr_employees", c, EmployeeReferences[c], "restrict") :
     c \in DOMAIN EmployeeReferences}
  \cup References("hr_employees", {"user_id"}, "users", "set null")

AssignmentKeys ==
  References("user_roles", {"user_id"}, "users", "cascade")
  \cup References("user_roles", {"role_id"}, "roles", "cascade")

OrganizationForeignKeys ==
  DepartmentKeys \cup TeamKeys \cup PositionKeys \cup LocationKeys
  \cup EmployeeKeys \cup AssignmentKeys

OrganizationUniqueKeys ==
  {Unique(t, {"organization_id", "code"}) : t \in {"departments", "teams", "positions"}}
  \cup {Unique(t, {"code"}) : t \in {"locations", "location_types", "job_grades",
          "employment_types", "employment_statuses", "shifts"}}
  \cup {Unique("job_grades", {"level"}), Unique("roles", {"name"}),
        Unique("hr_employees", {"employee_number"}), Unique("hr_employees", {"email"}),
        Unique("user_roles", {"user_id", "role_id"})}

\* The NOT NULL columns of the tables that requests write.
OrganizationRequired ==
  LET coded == {"code", "name"} IN
  [ organizations |-> {"name"},
    departments |-> coded \cup {"organization_id"},
    teams |-> coded \cup {"organization_id", "department_id"},
    positions |-> coded \cup {"organization_id", "department_id"},
    hr_employees |->
      (DOMAIN EmployeeReferences \ {"manager_id"})
      \cup {"employee_number", "email", "first_name", "last_name", "full_name", "hire_date",
            "employment_status"},
    locations |-> coded \cup {"location_type_id"},
    location_types |-> coded, employment_types |-> coded, employment_statuses |-> coded,
    job_grades |-> coded \cup {"level"},
    shifts |->
      coded \cup {"start_time", "end_time", "break_duration_minutes", "grace_period_minutes"},
    roles |-> {"name"}, user_roles |-> {"user_id", "role_id"} ]

-----------------------------------------------------------------------------
(* Trees *)

\* A set of rows that holds the parents of its members.
ClosedUpwards(table, S) ==
  \A n \in S : n \in DOMAIN table /\ table[n].parent_id # Null
                 => table[n].parent_id \in S

\* a is n or above n: in every set that holds n and is closed upwards.
IsAncestorOrSelf(table, a, n) ==
  \A S \in SUBSET (DOMAIN table \cup {a, n}) :
    n \in S /\ ClosedUpwards(table, S) => a \in S

\* The walk up from the proposed parent meets the row that moves.
WouldCreateCycle(table, id, parent_id) == IsAncestorOrSelf(table, id, parent_id)

\* No set of rows has all its parents in itself.
Acyclic(table) ==
  \A S \in SUBSET DOMAIN table :
    S # {} => \E n \in S : table[n].parent_id \notin S

-----------------------------------------------------------------------------
(* The services' checks.  v: the columns of the request. *)

DepartmentCreate(d, v) ==
  Raise(~Exists(d, "organizations", v.organization_id), "OrganizationNotFound")
  \cup Raise(v.parent_id # Null /\ ~Exists(d, "departments", v.parent_id),
             "ParentDepartmentNotFound")
  \cup Raise(Mismatch(d, "departments", v.parent_id, "organization_id", v.organization_id),
             "ParentOrganizationMismatch")
  \cup Raise(Taken(d, "departments", 0, {"organization_id", "code"}, v),
             "DuplicateDepartmentCode")

DepartmentUpdate(d, id, v) ==
  LET row == Patched(d["departments"][id], v) IN
  Raise(row.parent_id = id, "SelfParentDepartment")
  \cup Raise("organization_id" \in DOMAIN v
               /\ ~Exists(d, "organizations", row.organization_id),
             "OrganizationNotFound")
  \cup Raise(row.parent_id # Null /\ ~Exists(d, "departments", row.parent_id),
             "ParentDepartmentNotFound")
  \cup Raise(Mismatch(d, "departments", row.parent_id, "organization_id", row.organization_id),
             "ParentOrganizationMismatch")
  \cup Raise(row.parent_id # Null
               /\ WouldCreateCycle(d["departments"], id, row.parent_id),
             "CyclicParentDepartment")
  \cup Raise({"organization_id", "code"} \cap DOMAIN v # {}
               /\ Taken(d, "departments", id, {"organization_id", "code"}, row),
             "DuplicateDepartmentCode")

\* What teams and positions share: their department, in their organization.
DepartmentErrors(d, row) ==
  Raise(~Exists(d, "departments", row.department_id), "DepartmentNotFound")
  \cup Raise(Mismatch(d, "departments", row.department_id, "organization_id", row.organization_id),
             "DepartmentOrganizationMismatch")

TeamParentErrors(d, row) ==
  Raise(row.parent_id # Null /\ ~Exists(d, "teams", row.parent_id), "ParentTeamNotFound")
  \cup Raise(Mismatch(d, "teams", row.parent_id, "organization_id", row.organization_id),
             "ParentOrganizationMismatch")
  \cup Raise(Mismatch(d, "teams", row.parent_id, "department_id", row.department_id),
             "ParentDepartmentMismatch")

TeamCreate(d, v) ==
  Raise(~Exists(d, "organizations", v.organization_id), "OrganizationNotFound")
  \cup DepartmentErrors(d, v) \cup TeamParentErrors(d, v)
  \cup Raise(Taken(d, "teams", 0, {"organization_id", "code"}, v), "DuplicateTeamCode")

\* Mutant of TeamUpdate: the department is checked only when it is sent.
TeamUpdateSentOnly(d, id, v) ==
  LET row == Patched(d["teams"][id], v) IN
  (IF "department_id" \in DOMAIN v THEN DepartmentErrors(d, row) ELSE {})
  \cup Raise(row.parent_id = id, "SelfParentTeam")
  \cup Raise(row.parent_id # Null /\ WouldCreateCycle(d["teams"], id, row.parent_id),
             "CyclicParentTeam")
  \cup TeamParentErrors(d, row)

TeamUpdate(d, id, v) ==
  LET row == Patched(d["teams"][id], v) IN
  Raise(row.parent_id = id, "SelfParentTeam")
  \cup Raise("organization_id" \in DOMAIN v
               /\ ~Exists(d, "organizations", row.organization_id),
             "OrganizationNotFound")
  \cup DepartmentErrors(d, row) \cup TeamParentErrors(d, row)
  \cup Raise(row.parent_id # Null /\ WouldCreateCycle(d["teams"], id, row.parent_id),
             "CyclicParentTeam")
  \cup Raise({"organization_id", "code"} \cap DOMAIN v # {}
               /\ Taken(d, "teams", id, {"organization_id", "code"}, row),
             "DuplicateTeamCode")

PositionCreate(d, v) ==
  Raise(~Exists(d, "organizations", v.organization_id), "OrganizationNotFound")
  \cup DepartmentErrors(d, v)
  \cup Raise(Taken(d, "positions", 0, {"organization_id", "code"}, v), "DuplicatePositionCode")

\* Mutant of PositionUpdate: a code is looked up only when it is sent.
PositionUpdateCodeOnly(d, id, v) ==
  LET row == Patched(d["positions"][id], v) IN
  Raise("organization_id" \in DOMAIN v
          /\ ~Exists(d, "organizations", row.organization_id),
        "OrganizationNotFound")
  \cup DepartmentErrors(d, row)
  \cup Raise("code" \in DOMAIN v
               /\ Taken(d, "positions", id, {"organization_id", "code"}, row),
             "DuplicatePositionCode")

PositionUpdate(d, id, v) ==
  LET row == Patched(d["positions"][id], v) IN
  Raise("organization_id" \in DOMAIN v
          /\ ~Exists(d, "organizations", row.organization_id),
        "OrganizationNotFound")
  \cup DepartmentErrors(d, row)
  \cup Raise({"organization_id", "code"} \cap DOMAIN v # {}
               /\ Taken(d, "positions", id, {"organization_id", "code"}, row),
             "DuplicatePositionCode")

LocationCreate(d, v) ==
  Raise(~Exists(d, "location_types", v.location_type_id), "LocationTypeNotFound")
  \cup Raise(v.parent_id # Null /\ ~Exists(d, "locations", v.parent_id),
             "ParentLocationNotFound")
  \cup Raise(Taken(d, "locations", 0, {"code"}, v), "DuplicateLocationCode")

\* Mutant of LocationUpdate: only the location itself is refused as its parent.
LocationUpdateSelfOnly(d, id, v) ==
  LET row == Patched(d["locations"][id], v) IN
  Raise("parent_id" \in DOMAIN v /\ row.parent_id = id, "SelfParentLocation")
  \cup Raise("parent_id" \in DOMAIN v /\ row.parent_id # Null
               /\ ~Exists(d, "locations", row.parent_id), "ParentLocationNotFound")

\* Unlike a department's, a location's parent is only checked when it is sent.
LocationUpdate(d, id, v) ==
  LET row == Patched(d["locations"][id], v)
      moves == "parent_id" \in DOMAIN v /\ row.parent_id # Null
  IN
  Raise(moves /\ row.parent_id = id, "SelfParentLocation")
  \cup Raise(moves /\ ~Exists(d, "locations", row.parent_id), "ParentLocationNotFound")
  \cup Raise(moves /\ WouldCreateCycle(d["locations"], id, row.parent_id),
             "CyclicParentLocation")
  \cup Raise("location_type_id" \in DOMAIN v
               /\ ~Exists(d, "location_types", row.location_type_id),
             "LocationTypeNotFound")
  \cup Raise("code" \in DOMAIN v /\ Taken(d, "locations", id, {"code"}, row),
             "DuplicateLocationCode")

\* The references of an employee besides the department, of the effective row.
EmployeeErrors(d, row) ==
  DepartmentErrors(d, row)
  \cup Raise(~Exists(d, "positions", row.position_id), "PositionNotFound")
  \cup Raise(Mismatch(d, "positions", row.position_id, "organization_id", row.organization_id),
             "PositionOrganizationMismatch")
  \cup Raise(~Exists(d, "teams", row.team_id), "TeamNotFound")
  \cup Raise(Mismatch(d, "teams", row.team_id, "organization_id", row.organization_id),
             "TeamOrganizationMismatch")
  \cup Raise(Mismatch(d, "teams", row.team_id, "department_id", row.department_id),
             "TeamDepartmentMismatch")
  \cup Raise(~Exists(d, "locations", row.location_id), "LocationNotFound")
  \cup Raise(~Exists(d, "job_grades", row.job_grade_id), "JobGradeNotFound")
  \cup Raise(~Exists(d, "employment_types", row.employment_type_id), "EmploymentTypeNotFound")
  \cup Raise(~Exists(d, "employment_statuses", row.employment_status_id),
             "EmploymentStatusNotFound")
  \cup Raise(~Exists(d, "shifts", row.shift_id), "ShiftNotFound")
  \cup Raise(row.manager_id # Null /\ ~Exists(d, "hr_employees", row.manager_id),
             "ManagerNotFound")

EmployeeCreate(d, v) ==
  Raise(~Exists(d, "organizations", v.organization_id), "OrganizationNotFound")
  \cup EmployeeErrors(d, v)
  \cup Raise(v.user_id # Null /\ ~Exists(d, "users", v.user_id), "UserNotFound")
  \cup Raise(Taken(d, "hr_employees", 0, {"employee_number"}, v), "DuplicateEmployeeNumber")
  \cup Raise(Taken(d, "hr_employees", 0, {"email"}, v), "DuplicateEmployeeEmail")

\* Managers may form a cycle of more than one: only self-management is refused.
EmployeeUpdate(d, id, v) ==
  LET row == Patched(d["hr_employees"][id], v) IN
  Raise("organization_id" \in DOMAIN v
          /\ ~Exists(d, "organizations", row.organization_id),
        "OrganizationNotFound")
  \cup EmployeeErrors(d, row)
  \cup Raise("user_id" \in DOMAIN v /\ row.user_id # Null
               /\ ~Exists(d, "users", row.user_id), "UserNotFound")
  \cup Raise(row.manager_id = id, "SelfManager")
  \cup Raise("employee_number" \in DOMAIN v
               /\ Taken(d, "hr_employees", id, {"employee_number"}, row),
             "DuplicateEmployeeNumber")
  \cup Raise("email" \in DOMAIN v /\ Taken(d, "hr_employees", id, {"email"}, row),
             "DuplicateEmployeeEmail")

JobGradeCreate(d, v) ==
  Raise(Taken(d, "job_grades", 0, {"code"}, v), "DuplicateJobGradeCode")
  \cup Raise(Taken(d, "job_grades", 0, {"level"}, v), "DuplicateJobGradeLevel")

JobGradeUpdate(d, id, v) ==
  Raise("code" \in DOMAIN v /\ Taken(d, "job_grades", id, {"code"}, v),
        "DuplicateJobGradeCode")
  \cup Raise("level" \in DOMAIN v /\ Taken(d, "job_grades", id, {"level"}, v),
             "DuplicateJobGradeLevel")

EmploymentTypeCreate(d, v) ==
  Raise(Taken(d, "employment_types", 0, {"code"}, v), "DuplicateEmploymentTypeCode")

EmploymentTypeUpdate(d, id, v) ==
  Raise("code" \in DOMAIN v /\ Taken(d, "employment_types", id, {"code"}, v),
        "DuplicateEmploymentTypeCode")

EmploymentStatusCreate(d, v) ==
  Raise(Taken(d, "employment_statuses", 0, {"code"}, v), "DuplicateEmploymentStatusCode")

EmploymentStatusUpdate(d, id, v) ==
  Raise("code" \in DOMAIN v /\ Taken(d, "employment_statuses", id, {"code"}, v),
        "DuplicateEmploymentStatusCode")

\* An update may send null for the duration.
BreakErrors(row) ==
  Compare(row.break_duration_minutes, 0, row.break_duration_minutes < 0, "InvalidBreakDuration")

ShiftCreate(d, v) ==
  Raise(Taken(d, "shifts", 0, {"code"}, v), "DuplicateShiftCode")
  \cup Raise(v.start_time = v.end_time, "InvalidShiftTime") \cup BreakErrors(v)

ShiftUpdate(d, id, v) ==
  LET row == Patched(d["shifts"][id], v) IN
  Raise("code" \in DOMAIN v /\ Taken(d, "shifts", id, {"code"}, v), "DuplicateShiftCode")
  \cup Raise(row.start_time = row.end_time, "InvalidShiftTime") \cup BreakErrors(row)

RoleCreate(d, v) == Raise(Taken(d, "roles", 0, {"name"}, v), "DuplicateRoleName")

RoleUpdate(d, id, v) ==
  Raise("name" \in DOMAIN v /\ Taken(d, "roles", id, {"name"}, v), "DuplicateRoleName")

AssignRole(d, v) ==
  Raise(~Exists(d, "roles", v.role_id), "RoleNotFound")
  \cup Raise(~Exists(d, "users", v.user_id), "UserNotFound")
  \cup Raise(Taken(d, "user_roles", 0, {"user_id", "role_id"}, v), "DuplicateRoleAssignment")

CreateErrors(d, t, v) ==
  CASE t = "departments" -> DepartmentCreate(d, v)
    [] t = "teams" -> TeamCreate(d, v)
    [] t = "positions" -> PositionCreate(d, v)
    [] t = "locations" -> LocationCreate(d, v)
    [] t = "hr_employees" -> EmployeeCreate(d, v)
    [] t = "job_grades" -> JobGradeCreate(d, v)
    [] t = "employment_types" -> EmploymentTypeCreate(d, v)
    [] t = "employment_statuses" -> EmploymentStatusCreate(d, v)
    [] t = "shifts" -> ShiftCreate(d, v)
    [] t = "roles" -> RoleCreate(d, v)
    [] t = "user_roles" -> AssignRole(d, v)
    [] OTHER -> {}          \* organizations, location_types: no checks

UpdateErrors(d, t, id, v) ==
  CASE t = "departments" -> DepartmentUpdate(d, id, v)
    [] t = "teams" -> TeamUpdate(d, id, v)
    [] t = "positions" -> PositionUpdate(d, id, v)
    [] t = "locations" -> LocationUpdate(d, id, v)
    [] t = "hr_employees" -> EmployeeUpdate(d, id, v)
    [] t = "job_grades" -> JobGradeUpdate(d, id, v)
    [] t = "employment_types" -> EmploymentTypeUpdate(d, id, v)
    [] t = "employment_statuses" -> EmploymentStatusUpdate(d, id, v)
    [] t = "shifts" -> ShiftUpdate(d, id, v)
    [] t = "roles" -> RoleUpdate(d, id, v)
    [] OTHER -> {}

\* A deletion checks nothing: foreign keys restrict it.
OrganizationErrors(d, r) ==
  CASE r.op = "create" -> CreateErrors(d, r.table, r.values)
    [] r.op = "update" -> UpdateErrors(d, r.table, r.id, r.values)
    [] r.op = "delete" -> {}

\* The payload's columns, as they came.
OrganizationAssigned(d, r) == r.values

-----------------------------------------------------------------------------
(* The routes: who may call, and which errors they turn into an answer *)

HasRole(d, user, name) ==
  \E a \in DOMAIN d["user_roles"], i \in DOMAIN d["roles"] :
    /\ d["user_roles"][a].user_id = user /\ d["user_roles"][a].role_id = i
    /\ d["roles"][i].name = name

\* Mutant of OpenTables: the roles are open to every user.
OpenTablesAndRoles ==
  {"organizations", "departments", "teams", "positions", "hr_employees", "roles"}

\* Organization, its departments, teams, positions and employees are open to
\* every user; the rest is behind RequireRole("admin").
OpenTables == {"organizations", "departments", "teams", "positions", "hr_employees"}

OrganizationPermitted(d, r) ==
  /\ r.by \in DOMAIN d["users"]
  /\ r.table \in OpenTables \/ HasRole(d, r.by, "admin")

DepartmentRoutes ==
  LET shared == {"OrganizationNotFound", "ParentDepartmentNotFound",
                 "ParentOrganizationMismatch", "DuplicateDepartmentCode"} IN
  [ create |-> shared,
    update |-> shared \cup {"SelfParentDepartment", "CyclicParentDepartment"} ]

TeamRoutes ==
  LET shared == {"OrganizationNotFound", "DepartmentNotFound",
                 "DepartmentOrganizationMismatch", "ParentTeamNotFound",
                 "ParentOrganizationMismatch", "ParentDepartmentMismatch",
                 "DuplicateTeamCode"} IN
  [ create |-> shared, update |-> shared \cup {"SelfParentTeam", "CyclicParentTeam"} ]

PositionRoutes ==
  LET shared == {"OrganizationNotFound", "DepartmentNotFound",
                 "DepartmentOrganizationMismatch", "DuplicatePositionCode"} IN
  [ create |-> shared, update |-> shared ]

LocationRoutes ==
  LET shared == {"LocationTypeNotFound", "ParentLocationNotFound", "DuplicateLocationCode"} IN
  [ create |-> shared,
    update |-> shared \cup {"SelfParentLocation", "CyclicParentLocation"} ]

EmployeeRoutes ==
  LET shared == {"OrganizationNotFound", "DepartmentNotFound",
        "DepartmentOrganizationMismatch", "PositionNotFound",
        "PositionOrganizationMismatch", "TeamNotFound", "TeamOrganizationMismatch",
        "TeamDepartmentMismatch", "LocationNotFound", "JobGradeNotFound",
        "EmploymentTypeNotFound", "EmploymentStatusNotFound", "ShiftNotFound",
        "UserNotFound", "ManagerNotFound", "DuplicateEmployeeNumber",
        "DuplicateEmployeeEmail"} IN
  [ create |-> shared, update |-> shared \cup {"SelfManager"} ]

JobGradeRoutes ==
  LET both == {"DuplicateJobGradeCode", "DuplicateJobGradeLevel"} IN
  [ create |-> both, update |-> both ]
EmploymentTypeRoutes ==
  [ create |-> {"DuplicateEmploymentTypeCode"}, update |-> {"DuplicateEmploymentTypeCode"} ]
EmploymentStatusRoutes ==
  [ create |-> {"DuplicateEmploymentStatusCode"},
    update |-> {"DuplicateEmploymentStatusCode"} ]
ShiftRoutes ==
  LET both == {"DuplicateShiftCode", "InvalidShiftTime", "InvalidBreakDuration"} IN
  [ create |-> both, update |-> both ]
RoleRoutes == [ create |-> {"DuplicateRoleName"}, update |-> {"DuplicateRoleName"} ]
AssignmentRoutes ==
  [ create |-> {"RoleNotFound", "UserNotFound", "DuplicateRoleAssignment"} ]

RoutesOf(t) ==      \* organizations, location_types: no errors to answer
  CASE t = "departments" -> DepartmentRoutes
    [] t = "teams" -> TeamRoutes
    [] t = "positions" -> PositionRoutes
    [] t = "locations" -> LocationRoutes
    [] t = "hr_employees" -> EmployeeRoutes
    [] t = "job_grades" -> JobGradeRoutes
    [] t = "employment_types" -> EmploymentTypeRoutes
    [] t = "employment_statuses" -> EmploymentStatusRoutes
    [] t = "shifts" -> ShiftRoutes
    [] t = "roles" -> RoleRoutes
    [] t = "user_roles" -> AssignmentRoutes
    [] OTHER -> [ create |-> {}, update |-> {} ]

OrganizationRoutes(r) == IF r.op = "delete" THEN {} ELSE RoutesOf(r.table)[r.op]

-----------------------------------------------------------------------------
(* What the constants are *)

Trees == {"departments", "teams", "locations"}

\* The columns that the constraints and the checks of a table name: every row
\* has them.
Columns(t) ==
  {f.column : f \in {g \in OrganizationForeignKeys : g.from = t}}
  \cup (UNION {k.columns : k \in {u \in OrganizationUniqueKeys : u.table = t}})
  \cup {c \in {"start_time", "end_time", "break_duration_minutes"} : t = "shifts"}

ASSUME DatabaseAssumption ==
  /\ Database = [t \in OrganizationTables |-> Database[t]]
  /\ \A t \in OrganizationTables :
       /\ IsFiniteSet(DOMAIN Database[t])
       /\ DOMAIN Database[t] = 1 .. Cardinality(DOMAIN Database[t])
  /\ \A t \in OrganizationTables : \A id \in DOMAIN Database[t] :
       Columns(t) \subseteq DOMAIN Database[t][id]
  /\ ReferencesHold(Database, OrganizationForeignKeys)
  /\ KeysHold(Database, OrganizationUniqueKeys)
  /\ RowsComplete(Database, OrganizationRequired)

\* What the request schemas let through: a creation sends every column, and no
\* null for one that is NOT NULL.
ASSUME RequestAssumption ==
  \A r \in Requests :
    /\ r.op \in {"create", "update", "delete"} /\ r.table \in DOMAIN OrganizationRequired
    /\ r.op = "update" => r.table # "user_roles"
    /\ r.op = "create" =>
         /\ Columns(r.table) \subseteq DOMAIN r.values
         /\ Complete(r.values, OrganizationRequired[r.table])

-----------------------------------------------------------------------------
(* Specification *)

T == INSTANCE Transactions WITH
       ForeignKeys <- OrganizationForeignKeys, UniqueKeys <- OrganizationUniqueKeys,
       Required <- OrganizationRequired,
       Permitted <- OrganizationPermitted, Errors <- OrganizationErrors,
       Assigned <- OrganizationAssigned, Routes <- OrganizationRoutes

vars == <<db, lastId, handler, handled>>

Init == T!StartWith(Database)

Next == T!Next

Spec == Init /\ [][Next]_vars

-----------------------------------------------------------------------------
(* Properties *)

\* The committed tables are sound, whoever wrote them at the same time: every
\* row has an id of its own, and every constraint holds.
TypeOK ==
  /\ db = [t \in OrganizationTables |-> db[t]]
  /\ lastId \in [OrganizationTables -> Nat]
  /\ \A t \in OrganizationTables : DOMAIN db[t] \subseteq 1 .. lastId[t]
  /\ \A t \in OrganizationTables : \A id \in DOMAIN db[t] :
       Columns(t) \subseteq DOMAIN db[t][id]
  /\ ReferencesHold(db, OrganizationForeignKeys)
  /\ KeysHold(db, OrganizationUniqueKeys)
  /\ RowsComplete(db, OrganizationRequired)
  /\ DOMAIN handler = Handlers
  /\ \A h \in Handlers : handler[h].at # "idle" => handler[h].request \in Requests
  /\ \A h \in Handlers :
       handler[h].at = "checked" => handler[h].values = handler[h].request.values

\* The parent a department, team or location gets never closes a cycle, as
\* long as what the walk up from it read is still true at the write.  (Two
\* moves that overtake each other may close one: department.py:162.)
CurrentWritesKeepForest ==
  [][\A h \in Handlers : T!Writes(h) /\ T!Current(h) =>
       \A t \in Trees : Acyclic(db[t]) => Acyclic(db'[t])]_vars

\* Where a row and the row it refers to must agree in a column.
Agreements ==
  {[from |-> "departments", column |-> "parent_id", to |-> "departments", shared |-> "organization_id"],
   [from |-> "teams", column |-> "department_id", to |-> "departments", shared |-> "organization_id"],
   [from |-> "teams", column |-> "parent_id", to |-> "teams", shared |-> "organization_id"],
   [from |-> "teams", column |-> "parent_id", to |-> "teams", shared |-> "department_id"],
   [from |-> "positions", column |-> "department_id", to |-> "departments", shared |-> "organization_id"],
   [from |-> "hr_employees", column |-> "department_id", to |-> "departments", shared |-> "organization_id"],
   [from |-> "hr_employees", column |-> "position_id", to |-> "positions", shared |-> "organization_id"],
   [from |-> "hr_employees", column |-> "team_id", to |-> "teams", shared |-> "organization_id"],
   [from |-> "hr_employees", column |-> "team_id", to |-> "teams", shared |-> "department_id"]}

Drifted(d) ==
  UNION {{<<a, id>> : id \in {i \in DOMAIN d[a.from] :
            Mismatch(d, a.to, d[a.from][i][a.column], a.shared, d[a.from][i][a.shared])}}
         : a \in Agreements}

\* An edit whose checks still hold leaves rows in disagreement only where the
\* update docstrings say it may: a department, team or position that moves to
\* another organization or department leaves the rows that refer to it behind.
\* The row such an edit writes agrees with the rows it refers to, whichever
\* columns the request sent, and a shift it writes ends at another time than it
\* starts.  (Edits that overtake each other do store such rows: one of a shift's
\* start, one of its end, each checked with the other end as it was, make the two
\* equal, which shift.py:35-41 says an update never does.)
DriftOnlyByMoves ==
  [][\A h \in Handlers : T!Writes(h) /\ T!Current(h) =>
       LET r == handler[h].request IN
       /\ \A x \in Drifted(db') \ Drifted(db) :
            LET a == x[1] IN
            /\ r.op = "update" /\ r.table = a.to /\ a.shared \in DOMAIN r.values
            /\ db'[a.from][x[2]][a.column] = r.id
       /\ r.table = "shifts" => \A i \in DOMAIN db'["shifts"] :
            \/ db'["shifts"][i].start_time # db'["shifts"][i].end_time
            \/ /\ i \in DOMAIN db["shifts"]
               /\ db'["shifts"][i].start_time = db["shifts"][i].start_time
               /\ db'["shifts"][i].end_time = db["shifts"][i].end_time]_vars

\* A request that nobody overtook gets an answer: its route knows every error
\* its service raises, and the service checks all that the keys will.  Three
\* kinds do not, and end in status 500: deleting a row that others refer to; the
\* code of a location type, which LocationTypeService does not look up; and an
\* update that sends null for a NOT NULL column (department.py:17 of the schemas).
AnsweredUnlessOvertaken ==
  \A h \in Handlers :
    LET r == handler[h].request IN
    T!Unanswered(h) =>
      \/ r.op = "delete" /\ StillReferred(db, OrganizationForeignKeys, r.table, r.id)
      \/ r.table = "location_types" /\ "code" \in DOMAIN r.values
      \/ T!SendsNull(db, r)

Admins(d) == {u \in DOMAIN d["users"] : HasRole(d, u, "admin")}

\* Nobody is an admin, and no request of a former admin is under way.
LockedOut ==
  /\ Admins(db) = {}
  /\ \A h \in Handlers :
       handler[h].at = "idle" \/ handler[h].request.table \notin {"roles", "user_roles"}

\* Admins come from admins: once the last assignment was removed, or the role
\* renamed or deleted, no sequence of requests makes anyone an admin again.
LockoutLasts == [][LockedOut => LockedOut']_vars
=============================================================================
