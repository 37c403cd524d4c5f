------------------------------ MODULE MCTalent ------------------------------
(* Talent for TLC: two candidates and requisitions, two applications, one at *)
(* each end of the funnel; a draft review and a finalized one; two targets,  *)
(* one achieved.                                                             *)
EXTENDS Talent, TLC

Application(candidate, requisition) ==
  [candidate_id |-> candidate, job_requisition_id |-> requisition]
Requisition(code) ==
  [code |-> code, organization_id |-> 1, department_id |-> 1, position_id |-> 1]
Review(employee, first, last) ==
  [ employee_id |-> employee, review_period_start |-> first, review_period_end |-> last,
    notes |-> "n" ]
Target(kpi, employee, period) ==
  [kpi_id |-> kpi, employee_id |-> employee, period |-> period, goal_value |-> 1]
Achievement(target) == [target_id |-> target, actual_value |-> 1]
For(application) == "application_id" :> application
In(status) == "status" :> status

MCDatabase ==
  [ users |-> << [admin |-> TRUE], [admin |-> FALSE] >>,
    hr_employees |-> << [user_id |-> 2], [user_id |-> Null] >>,
    organizations |-> << "code" :> "o" >>, departments |-> << "code" :> "d" >>,
    positions |-> << "code" :> "p" >>,
    candidates |-> << "email" :> "a", "email" :> "b" >>,
    job_requisitions |-> << Requisition("r"), Requisition("s") >>,
    applications |-> << Application(1, 1) @@ In("interviewing"), Application(2, 2) @@ In("offered") >>,
    interviews |-> << For(1) >>, offers |-> << For(2) >>,
    performance_reviews |-> << Review(1, 1, 4) @@ In("draft"), Review(2, 1, 4) @@ In("finalized") >>,
    kpis |-> << "code" :> "k", "code" :> "l" >>,
    targets |-> << Target(1, 1, 1), Target(1, 2, 1) >>,
    achievements |-> << Achievement(1) >> ]

Ask(user, op, table, id, values) ==
  [by |-> user, op |-> op, table |-> table, id |-> id, values |-> values]
Create(table, values) == Ask(1, "create", table, 0, values)
Update(table, id, values) == Ask(1, "update", table, id, values)
Delete(table, id) == Ask(1, "delete", table, id, <<>>)
Transition(id, status) == Ask(1, "transition", "applications", id, In(status))

RecruitmentRequests ==
  { Transition(1, "offered"), Transition(1, "hired"), Transition(1, "screening"),
    Transition(1, "rejected"), Transition(2, "hired"), Transition(2, "withdrawn"),
    Transition(3, "screening"), Ask(2, "transition", "applications", 1, In("offered")),
    Update("applications", 1, In("hired")), Update("applications", 2, "candidate_id" :> 1),
    Update("applications", 1, "job_requisition_id" :> 2),
    Update("applications", 1, "candidate_id" :> 3),
    Create("applications", Application(2, 1)), Create("applications", Application(2, 2)),
    Delete("applications", 1), Delete("applications", 2),
    Delete("interviews", 1), Delete("offers", 1), Create("interviews", For(2)),
    Create("interviews", For(3)), Update("offers", 1, For(1)), Create("offers", For(1)),
    Update("candidates", 1, "email" :> "b"), Update("candidates", 2, "email" :> Null),
    Update("interviews", 1, For(Null)), Create("candidates", "email" :> "b"),
    Delete("candidates", 1), Update("job_requisitions", 2, "code" :> "r"),
    Create("job_requisitions", [Requisition("t") EXCEPT !.position_id = 2]) }

PerformanceRequests ==
  { Update("performance_reviews", 1, "review_period_start" :> 4),
    Update("performance_reviews", 1, "review_period_start" :> 5),
    Update("performance_reviews", 1, "review_period_end" :> 2),
    Update("performance_reviews", 1, "review_period_end" :> Null),
    Update("performance_reviews", 1, "employee_id" :> 3),
    Update("performance_reviews", 1, "notes" :> "m"),
    Update("performance_reviews", 2, "notes" :> "m"),
    Update("performance_reviews", 2, In("draft")),
    Ask(1, "finalize", "performance_reviews", 1, <<>>),
    Ask(1, "finalize", "performance_reviews", 2, <<>>),
    Delete("performance_reviews", 2), Create("performance_reviews", Review(2, 4, 3)),
    Create("performance_reviews", Review(1, 2, 2)),
    Update("targets", 1, "employee_id" :> 2 @@ "goal_value" :> 2), Delete("targets", 1),
    Update("targets", 2, "goal_value" :> 2), Update("targets", 2, "goal_value" :> Null),
    Create("targets", Target(2, 1, 1)),
    Create("targets", Target(1, 2, 1)), Delete("targets", 2),
    Create("achievements", Achievement(1)), Create("achievements", Achievement(2)),
    Update("achievements", 1, "actual_value" :> 2 @@ "target_id" :> 2),
    Delete("achievements", 1), Update("kpis", 2, "code" :> "k"), Delete("kpis", 1) }

MCRequests == RecruitmentRequests \cup PerformanceRequests

Alike == Permutations(Handlers)
=============================================================================
