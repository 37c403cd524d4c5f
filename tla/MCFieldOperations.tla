-------------------------- MODULE MCFieldOperations --------------------------
(* FieldOperations for TLC: an admin and two field employees, a visit of      *)
(* each, one record of every kind on the first, and three files: in a photo, *)
(* in a selfie, and in nothing.                                              *)
EXTENDS FieldOperations, TLC

Coded(code) == "code" :> code
Mission(employee, store) == [employee_id |-> employee, store_id |-> store]
Visit(employee, store) == Mission(employee, store) @@ "visited_at" :> "today"
On(visit) == "visit_id" :> visit
Photo(visit, file) == On(visit) @@ "file_object_id" :> file
Survey(visit) == On(visit) @@ "stock_available" :> FALSE
Posm(visit) == On(visit) @@ "condition" :> "worn"
Selfie(employee, file) == [employee_id |-> employee, selfie_file_id |-> file]
Blob(key) == [storage_key |-> key, size |-> 1]
Store(code, org, type) == [code |-> code, organization_id |-> org, store_type_id |-> type]

MCDatabase ==
  [ users |-> << [admin |-> TRUE], [admin |-> FALSE], [admin |-> FALSE] >>,
    hr_employees |-> << [user_id |-> 2], [user_id |-> 3] >>,
    organizations |-> << Coded("o") >>,
    store_types |-> << Coded("a"), Coded("b") >>,
    stores |-> << Store("a", 1, 1), Store("b", 1, 1) >>,
    missions |-> << Mission(1, 1) >>,
    visits |-> << Visit(1, 1), Visit(2, 1) >>,
    visit_photos |-> << Photo(1, 1) >>,
    surveys |-> << Survey(1) >>,
    display_audits |-> << On(1) >>, posm_audits |-> << Posm(1) >>,
    competitor_activities |-> << On(1) >>,
    field_attendance_events |-> << Selfie(2, 2) >>,
    file_objects |-> << Blob("k1"), Blob("k2"), Blob("k3") >> ]

Ask(user, op, table, id, values) ==
  [by |-> user, op |-> op, table |-> table, id |-> id, values |-> values]

StoreRequests ==
  { Ask(1, "update", "store_types", 2, Coded("a")), Ask(1, "create", "store_types", 0, Coded("a")),
    Ask(1, "delete", "stores", 2, <<>>), Ask(2, "delete", "stores", 2, <<>>),
    Ask(1, "update", "stores", 2, Coded("a")), Ask(1, "update", "stores", 2, "store_type_id" :> 3),
    Ask(1, "create", "stores", 0, Store("c", 2, 1)), Ask(1, "update", "stores", 2, Coded(Null)),
    Ask(1, "update", "missions", 1, "store_id" :> 2), Ask(1, "create", "missions", 0, Mission(3, 2)),
    Ask(2, "delete", "missions", 1, <<>>) }

VisitRequests ==
  { Ask(2, "create", "visits", 0, Visit(1, 2)), Ask(2, "create", "visits", 0, Visit(2, 2)),
    Ask(2, "update", "visits", 1, "employee_id" :> 2 @@ "store_id" :> 2), Ask(3, "update", "visits", 1, "employee_id" :> 2),
    Ask(3, "update", "visits", 2, "employee_id" :> 3),
    Ask(2, "update", "visits", 1, "visited_at" :> Null),
    Ask(2, "delete", "visits", 1, <<>>), Ask(3, "delete", "visits", 2, <<>>) }

RecordRequests ==
  UNION {{ Ask(2, "delete", t, 1, <<>>), Ask(3, "delete", t, 1, <<>>) } : t \in VisitRecords}
  \cup { Ask(3, "create", "surveys", 0, Survey(2)), Ask(2, "create", "surveys", 0, Survey(1)),
         Ask(3, "update", "surveys", 1, "stock_available" :> TRUE),
         Ask(2, "update", "surveys", 1, "stock_available" :> Null),
         Ask(2, "create", "display_audits", 0, On(3)),
         Ask(2, "create", "posm_audits", 0, Posm(2)),
         Ask(3, "create", "competitor_activities", 0, On(2)),
         Ask(2, "update", "posm_audits", 1, "condition" :> "good") }

PictureRequests ==
  { Ask(2, "create", "visit_photos", 0, Photo(1, 3)), Ask(3, "create", "visit_photos", 0, Photo(2, 4)),
    Ask(2, "update", "visit_photos", 1, "file_object_id" :> 3),
    Ask(3, "create", "field_attendance_events", 0, Selfie(2, 4)),
    Ask(3, "update", "field_attendance_events", 1, "selfie_file_id" :> 1),
    Ask(3, "update", "field_attendance_events", 1, "employee_id" :> 1),
    Ask(2, "delete", "field_attendance_events", 1, <<>>),
    Ask(3, "create", "file_objects", 0, Blob("k4")),
    Ask(2, "create", "file_objects", 0, [Blob("k5") EXCEPT !.size = 2]) }
  \cup { Ask(3, "delete", "file_objects", f, <<>>) : f \in 1 .. 4 }

MCRequests == StoreRequests \cup VisitRequests \cup RecordRequests \cup PictureRequests

Alike == Permutations(Handlers)
=============================================================================
