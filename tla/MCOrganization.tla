--------------------------- MODULE MCOrganization ---------------------------
(* Organization for TLC: two organizations, a department with a child and a  *)
(* grandchild, and one row or two of everything else.  The requests are the *)
(* edits that move, rename or detach something another request reads, with  *)
(* the creations and deletions that compete with them.                      *)
EXTENDS Organization, TLC

Employee(code, user, manager) ==
  [ organization_id |-> 1, department_id |-> 1, position_id |-> 1, team_id |-> 1,
    location_id |-> 1, manager_id |-> manager, job_grade_id |-> 1,
    employment_type_id |-> 1, employment_status_id |-> 1, shift_id |-> 1,
    user_id |-> user, employee_number |-> code, email |-> code ]

Node(code, parent) == [code |-> code, parent_id |-> parent]
In(org, row) == row @@ "organization_id" :> org
Of(department, row) == row @@ "department_id" :> department
Coded(code) == "code" :> code

MCDatabase ==
  [ organizations |-> << Coded("o"), Coded("p") >>,
    departments |-> << In(1, Node("a", Null)), In(1, Node("b", 1)), In(1, Node("c", 2)),
                       In(2, Node("a", Null)) >>,
    teams |-> << In(1, Of(1, Node("a", Null))), In(1, Of(1, Node("b", 1))) >>,
    positions |-> << In(1, Of(1, Coded("a"))), In(2, Of(4, Coded("b"))) >>,
    hr_employees |-> << Employee("e", 1, Null) >>,
    locations |-> << Node("a", Null) @@ "location_type_id" :> 1,
                     Node("b", 1) @@ "location_type_id" :> 1 >>,
    location_types |-> << Coded("a") >>,
    job_grades |-> << [code |-> "a", level |-> 1], [code |-> "b", level |-> 2] >>,
    employment_types |-> << Coded("a") >>,
    employment_statuses |-> << Coded("a") >>,
    shifts |-> << [code |-> "a", start_time |-> 8, end_time |-> 16,
                   break_duration_minutes |-> 30] >>,
    users |-> << Coded("u"), Coded("v") >>,
    roles |-> << [name |-> "admin"], [name |-> "clerk"] >>,
    user_roles |-> << [user_id |-> 1, role_id |-> 1], [user_id |-> 2, role_id |-> 2] >> ]

Ask(user, op, table, id, values) ==
  [by |-> user, op |-> op, table |-> table, id |-> id, values |-> values]
Create(table, values) == Ask(1, "create", table, 0, values)
Update(table, id, values) == Ask(1, "update", table, id, values)
Delete(table, id) == Ask(1, "delete", table, id, <<>>)

TreeRequests ==
  { Update("departments", 1, "parent_id" :> 3), Update("departments", 1, "parent_id" :> 2),
    Update("departments", 2, "parent_id" :> Null),
    Update("departments", 3, "parent_id" :> Null),
    Update("departments", 1, "organization_id" :> 2),
    Update("departments", 4, "organization_id" :> 1 @@ "code" :> "d"),
    Update("departments", 2, "code" :> "a"), Update("departments", 2, "code" :> Null),
    Create("departments", In(2, Node("b", 4))), Delete("departments", 3),
    Update("teams", 1, "parent_id" :> 2), Update("teams", 1, "organization_id" :> 2),
    Update("teams", 2, "department_id" :> 4),
    Update("teams", 1, "organization_id" :> 2 @@ "department_id" :> 4),
    Create("teams", In(1, Of(2, Node("b", Null)))), Delete("teams", 2),
    Update("positions", 2, "organization_id" :> 1 @@ "department_id" :> 1),
    Update("positions", 2, "code" :> "a"),
    Create("positions", In(1, Of(1, Coded("b")))), Delete("positions", 1),
    Update("locations", 1, "parent_id" :> 2),
    Create("locations", Node("c", 2) @@ "location_type_id" :> 1) }

PeopleRequests ==
  { Create("hr_employees", Employee("f", 1, 1)), Create("hr_employees", Employee("e", Null, Null)),
    Update("hr_employees", 1, "team_id" :> 2 @@ "manager_id" :> 2),
    Update("hr_employees", 1, "organization_id" :> 2),
    Update("hr_employees", 2, "employee_number" :> "e"), Delete("hr_employees", 1),
    Create("location_types", Coded("a")), Delete("organizations", 2),
    Update("organizations", 1, Coded("q")), Update("job_grades", 2, "level" :> 1),
    Update("employment_types", 1, Coded("b")),
    Create("employment_statuses", Coded("a")), Create("shifts", MCDatabase["shifts"][1]),
    Update("shifts", 1, "end_time" :> 20), Update("shifts", 1, "start_time" :> 16),
    Update("shifts", 1, "start_time" :> 20), Update("shifts", 1, "break_duration_minutes" :> Null) }

RoleRequests ==
  { Update("roles", 1, "name" :> "chief"), Delete("roles", 1), Delete("user_roles", 1),
    Ask(2, "update", "roles", 2, "name" :> "admin"), Ask(2, "delete", "hr_employees", 1, <<>>),
    Ask(2, "create", "user_roles", 0, [user_id |-> 2, role_id |-> 1]),
    Ask(2, "delete", "user_roles", 2, <<>>),
    Create("user_roles", [user_id |-> 2, role_id |-> 1]),
    Create("roles", [name |-> "admin"]) }

MCRequests == TreeRequests \cup PeopleRequests \cup RoleRequests

Alike == Permutations(Handlers)

\* The walk of the services, hop by hop, and that WouldCreateCycle is what it
\* computes: on every table of three rows, cyclic ones included.
RECURSIVE WalkMeets(_, _, _, _)
WalkMeets(table, id, current, visited) ==
  /\ current # Null
  /\ \/ current = id
     \/ /\ current \notin visited \cup {id}
        /\ current \in DOMAIN table
        /\ WalkMeets(table, id, table[current].parent_id, visited \cup {current})

ASSUME WalkIsWouldCreateCycle ==
  \A table \in [1 .. 3 -> [parent_id : 1 .. 3 \cup {Null}]], id \in 1 .. 3 :
    \A parent_id \in 1 .. 4 :
      WouldCreateCycle(table, id, parent_id) = WalkMeets(table, id, parent_id, {})
=============================================================================
