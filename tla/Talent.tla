------------------------------- MODULE Talent -------------------------------
(***************************************************************************)
(* Recruitment - candidates, job requisitions, applications and their      *)
(* interviews and offers - and performance - reviews, KPIs, the targets    *)
(* employees have for them and the achievements against targets.  All of   *)
(* it belongs to the admins.  An application goes down a funnel and a      *)
(* review is finalized, each by an operation of its own; the other columns *)
(* are edited by updates, which take the columns their schema has and      *)
(* ignore everything else a client sends.                                  *)
(***************************************************************************)
EXTENDS Callers

CONSTANTS
  Handlers, Requests, MaxRequests,
  Database          \* the database the system starts from

VARIABLES db, lastId, handler, handled

TalentTables ==
  { "users", "hr_employees", "organizations", "departments", "positions", "candidates",
    "job_requisitions", "applications", "interviews", "offers", "performance_reviews",
    "kpis", "targets", "achievements" }

-----------------------------------------------------------------------------
(* Constraints *)

JobRequisitionKeys ==
  References("job_requisitions", {"organization_id"}, "organizations", "restrict")
  \cup References("job_requisitions", {"department_id"}, "departments", "restrict")
  \cup References("job_requisitions", {"position_id"}, "positions", "restrict")

ApplicationKeys ==
  References("applications", {"candidate_id"}, "candidates", "restrict")
  \cup References("applications", {"job_requisition_id"}, "job_requisitions", "restrict")

InterviewKeys == References("interviews", {"application_id"}, "applications", "restrict")
OfferKeys == References("offers", {"application_id"}, "applications", "restrict")
ReviewKeys == References("performance_reviews", {"employee_id"}, "hr_employees", "restrict")

TargetKeys ==
  References("targets", {"kpi_id"}, "kpis", "restrict")
  \cup References("targets", {"employee_id"}, "hr_employees", "restrict")

\* Mutant of AchievementKeys: achievements go with their target.
AchievementKeysCascade == References("achievements", {"target_id"}, "targets", "cascade")

AchievementKeys == References("achievements", {"target_id"}, "targets", "restrict")

TalentForeignKeys ==
  JobRequisitionKeys \cup ApplicationKeys \cup InterviewKeys \cup OfferKeys
  \cup ReviewKeys \cup TargetKeys \cup AchievementKeys

ApplicationPair == {"candidate_id", "job_requisition_id"}
TargetIdentity == {"employee_id", "kpi_id", "period"}    \* period: year and month

TalentUniqueKeys ==
  { Unique("candidates", {"email"}), Unique("job_requisitions", {"code"}),
    Unique("applications", ApplicationPair), Unique("kpis", {"code"}),
    Unique("targets", TargetIdentity), Unique("achievements", {"target_id"}) }

\* The NOT NULL columns of the tables that requests write.
TalentRequired ==
  [ candidates |-> {"first_name", "last_name", "full_name", "email"},
    job_requisitions |->
      {"code", "title", "organization_id", "department_id", "position_id", "status"},
    applications |-> ApplicationPair \cup {"status", "applied_date"},
    interviews |-> {"application_id", "scheduled_at"},
    offers |-> {"application_id", "issued_date"},
    performance_reviews |->
      {"employee_id", "review_period_start", "review_period_end", "status"},
    kpis |-> {"code", "name"}, targets |-> TargetIdentity \cup {"goal_value"},
    achievements |-> {"target_id", "actual_value"} ]

-----------------------------------------------------------------------------
(* The columns an update may change: those of its schema. *)

UpdateColumns ==
  [ candidates |-> {"first_name", "last_name", "full_name", "email", "phone"},
    job_requisitions |->
      {"code", "title", "organization_id", "department_id", "position_id", "status",
       "description"},
    applications |-> ApplicationPair \cup {"applied_date"},
    interviews |-> {"application_id", "scheduled_at", "notes"},
    offers |-> {"application_id", "issued_date", "notes"},
    performance_reviews |->
      {"employee_id", "review_period_start", "review_period_end", "notes"},
    kpis |-> {"code", "name", "unit", "description"},
    targets |-> {"goal_value"}, achievements |-> {"actual_value"} ]

Sent(r) == [c \in DOMAIN r.values \cap UpdateColumns[r.table] |-> r.values[c]]

-----------------------------------------------------------------------------
(* Recruitment *)

CandidateCreate(d, v) ==
  Raise(Taken(d, "candidates", 0, {"email"}, v), "DuplicateCandidateEmail")

CandidateUpdate(d, id, v) ==
  Raise("email" \in DOMAIN v /\ Taken(d, "candidates", id, {"email"}, v),
        "DuplicateCandidateEmail")

Dangling(d, v, column, table) ==
  column \in DOMAIN v /\ ~Exists(d, table, v[column])

JobRequisitionCreate(d, v) ==
  Raise(Taken(d, "job_requisitions", 0, {"code"}, v), "DuplicateJobRequisitionCode")
  \cup Raise(~Exists(d, "organizations", v.organization_id), "OrganizationNotFound")
  \cup Raise(~Exists(d, "departments", v.department_id), "DepartmentNotFound")
  \cup Raise(~Exists(d, "positions", v.position_id), "PositionNotFound")

JobRequisitionUpdate(d, id, v) ==
  Raise("code" \in DOMAIN v /\ Taken(d, "job_requisitions", id, {"code"}, v),
        "DuplicateJobRequisitionCode")
  \cup Raise(Dangling(d, v, "organization_id", "organizations"), "OrganizationNotFound")
  \cup Raise(Dangling(d, v, "department_id", "departments"), "DepartmentNotFound")
  \cup Raise(Dangling(d, v, "position_id", "positions"), "PositionNotFound")

\* On the row as it will be, if the update touches either side of the pair.
ApplicationPairErrors(d, id, row) ==
  Raise(~Exists(d, "candidates", row.candidate_id), "CandidateNotFound")
  \cup Raise(~Exists(d, "job_requisitions", row.job_requisition_id), "JobRequisitionNotFound")
  \cup Raise(Taken(d, "applications", id, ApplicationPair, row), "DuplicateApplication")

ApplicationCreate(d, v) == ApplicationPairErrors(d, 0, v)

ApplicationUpdate(d, id, v) ==
  IF DOMAIN v \cap ApplicationPair = {} THEN {}
  ELSE ApplicationPairErrors(d, id, Patched(d["applications"][id], v))

Closing == {"rejected", "withdrawn"}

ValidTransitions ==
  [ applied |-> {"screening"} \cup Closing, screening |-> {"interviewing"} \cup Closing,
    interviewing |-> {"offered"} \cup Closing, offered |-> {"hired"} \cup Closing,
    hired |-> {}, rejected |-> {}, withdrawn |-> {} ]

\* Mutant of ApplicationTransition: a closed application is opened again.
ApplicationTransitionAnyhow(d, id, status) ==
  Raise(status \notin ValidTransitions[d["applications"][id].status] \cup {"screening"},
        "InvalidApplicationTransition")

ApplicationTransition(d, id, status) ==
  Raise(status \notin ValidTransitions[d["applications"][id].status],
        "InvalidApplicationTransition")

InterviewCreate(d, v) ==
  Raise(~Exists(d, "applications", v.application_id), "ApplicationNotFound")
InterviewUpdate(d, v) ==
  Raise(Dangling(d, v, "application_id", "applications"), "ApplicationNotFound")

OfferCreate(d, v) ==
  Raise(~Exists(d, "applications", v.application_id), "ApplicationNotFound")
OfferUpdate(d, v) ==
  Raise(Dangling(d, v, "application_id", "applications"), "ApplicationNotFound")

-----------------------------------------------------------------------------
(* Performance *)

\* An update may send null for an end of the period.
ValidatePeriod(row) ==
  Compare(row.review_period_end, row.review_period_start,
          row.review_period_end < row.review_period_start, "InvalidPerformanceReviewPeriod")

ReviewCreate(d, v) ==
  ValidatePeriod(v) \cup Raise(Dangling(d, v, "employee_id", "hr_employees"), "EmployeeNotFound")

\* Mutant of ReviewUpdate: the notes of a finalized review are no substance.
ReviewUpdateNotes(d, id, v) ==
  LET row == d["performance_reviews"][id] IN
  Raise(row.status = "finalized" /\ DOMAIN v \ {"notes"} # {}, "PerformanceReviewFinalized")
  \cup ValidatePeriod(Patched(row, v))
  \cup Raise(Dangling(d, v, "employee_id", "hr_employees"), "EmployeeNotFound")

ReviewUpdate(d, id, v) ==
  LET row == d["performance_reviews"][id] IN
  Raise(row.status = "finalized" /\ DOMAIN v # {}, "PerformanceReviewFinalized")
  \cup (IF DOMAIN v \cap {"review_period_start", "review_period_end"} = {} THEN {}
        ELSE ValidatePeriod(Patched(row, v)))
  \cup Raise(Dangling(d, v, "employee_id", "hr_employees"), "EmployeeNotFound")

ReviewFinalize(d, id) ==
  Raise(d["performance_reviews"][id].status # "draft", "InvalidPerformanceReviewTransition")

KpiCreate(d, v) == Raise(Taken(d, "kpis", 0, {"code"}, v), "DuplicateKpiCode")

KpiUpdate(d, id, v) ==
  Raise("code" \in DOMAIN v /\ Taken(d, "kpis", id, {"code"}, v), "DuplicateKpiCode")

TargetCreate(d, v) ==
  Raise(~Exists(d, "kpis", v.kpi_id), "KpiNotFound")
  \cup Raise(~Exists(d, "hr_employees", v.employee_id), "EmployeeNotFound")
  \cup Raise(Taken(d, "targets", 0, TargetIdentity, v), "DuplicateTarget")

AchievementCreate(d, v) ==
  Raise(~Exists(d, "targets", v.target_id), "TargetNotFound")
  \cup Raise(Taken(d, "achievements", 0, {"target_id"}, v), "DuplicateAchievement")

-----------------------------------------------------------------------------
(* Requests *)

TalentPermitted(d, r) == IsAdmin(d, r.by)

CreateErrors(d, t, v) ==
  CASE t = "candidates" -> CandidateCreate(d, v)
    [] t = "job_requisitions" -> JobRequisitionCreate(d, v)
    [] t = "applications" -> ApplicationCreate(d, v)
    [] t = "interviews" -> InterviewCreate(d, v)
    [] t = "offers" -> OfferCreate(d, v)
    [] t = "performance_reviews" -> ReviewCreate(d, v)
    [] t = "kpis" -> KpiCreate(d, v)
    [] t = "targets" -> TargetCreate(d, v)
    [] t = "achievements" -> AchievementCreate(d, v)

UpdateErrors(d, t, id, v) ==
  CASE t = "candidates" -> CandidateUpdate(d, id, v)
    [] t = "job_requisitions" -> JobRequisitionUpdate(d, id, v)
    [] t = "applications" -> ApplicationUpdate(d, id, v)
    [] t = "interviews" -> InterviewUpdate(d, v)
    [] t = "offers" -> OfferUpdate(d, v)
    [] t = "performance_reviews" -> ReviewUpdate(d, id, v)
    [] t = "kpis" -> KpiUpdate(d, id, v)
    [] t \in {"targets", "achievements"} -> {}

TalentErrors(d, r) ==
  CASE r.op = "create" -> CreateErrors(d, r.table, r.values)
    [] r.op = "update" -> UpdateErrors(d, r.table, r.id, Sent(r))
    [] r.op = "transition" -> ApplicationTransition(d, r.id, r.values.status)
    [] r.op = "finalize" -> ReviewFinalize(d, r.id)
    [] r.op = "delete" -> {}

TalentAssigned(d, r) ==
  CASE r.op = "create" /\ r.table = "applications" -> Patched(r.values, [status |-> "applied"])
    [] r.op = "create" /\ r.table = "performance_reviews" ->
         Patched(r.values, [status |-> "draft"])
    [] r.op = "update" -> Sent(r)
    [] r.op = "finalize" -> [status |-> "finalized"]
    [] OTHER -> r.values

CandidateRoutes == [create |-> {"DuplicateCandidateEmail"}, update |-> {"DuplicateCandidateEmail"}]
JobRequisitionRoutes ==
  LET write == {"DuplicateJobRequisitionCode", "OrganizationNotFound",
                "DepartmentNotFound", "PositionNotFound"} IN
  [create |-> write, update |-> write]

\* Mutant of ApplicationRoutes: an edit is thought never to make a duplicate.
ApplicationRoutesTrusting ==
  LET write == {"CandidateNotFound", "JobRequisitionNotFound"} IN
  [ create |-> write \cup {"DuplicateApplication"}, update |-> write,
    transition |-> {"InvalidApplicationTransition"} ]

ApplicationRoutes ==
  LET write == {"CandidateNotFound", "JobRequisitionNotFound", "DuplicateApplication"} IN
  [create |-> write, update |-> write, transition |-> {"InvalidApplicationTransition"}]
InterviewRoutes == [create |-> {"ApplicationNotFound"}, update |-> {"ApplicationNotFound"}]
OfferRoutes == [create |-> {"ApplicationNotFound"}, update |-> {"ApplicationNotFound"}]
ReviewRoutes ==
  [ create |-> {"EmployeeNotFound", "InvalidPerformanceReviewPeriod"},
    update |-> {"EmployeeNotFound", "InvalidPerformanceReviewPeriod", "PerformanceReviewFinalized"},
    finalize |-> {"InvalidPerformanceReviewTransition"} ]
KpiRoutes == [create |-> {"DuplicateKpiCode"}, update |-> {"DuplicateKpiCode"}]
TargetRoutes == [create |-> {"KpiNotFound", "EmployeeNotFound", "DuplicateTarget"}, update |-> {}]
AchievementRoutes == [create |-> {"TargetNotFound", "DuplicateAchievement"}, update |-> {}]

RoutesOf ==
  [ candidates |-> CandidateRoutes, job_requisitions |-> JobRequisitionRoutes,
    applications |-> ApplicationRoutes, interviews |-> InterviewRoutes,
    offers |-> OfferRoutes, performance_reviews |-> ReviewRoutes, kpis |-> KpiRoutes,
    targets |-> TargetRoutes, achievements |-> AchievementRoutes ]

TalentRoutes(r) == IF r.op = "delete" THEN {} ELSE RoutesOf[r.table][r.op]

-----------------------------------------------------------------------------
(* What the program starts from, and what it is asked *)

\* The columns of every row that something here looks at.
Columns ==
  [ users |-> {"admin"}, hr_employees |-> {"user_id"},
    organizations |-> {}, departments |-> {}, positions |-> {},
    candidates |-> {"email"},
    job_requisitions |-> {"code", "organization_id", "department_id", "position_id"},
    applications |-> ApplicationPair \cup {"status"},
    interviews |-> {"application_id"}, offers |-> {"application_id"},
    performance_reviews |->
      {"employee_id", "review_period_start", "review_period_end", "notes", "status"},
    kpis |-> {"code"}, targets |-> TargetIdentity \cup {"goal_value"},
    achievements |-> {"target_id", "actual_value"} ]

Operations ==
  [t \in DOMAIN UpdateColumns |->
     {"create", "update", "delete"}
     \cup (IF t = "applications" THEN {"transition"} ELSE {})
     \cup (IF t = "performance_reviews" THEN {"finalize"} ELSE {})]

IsRow(row) == row = [c \in DOMAIN row |-> row[c]]

\* A status is one of the funnel's.
RowsAreSound(d) ==
  \A i \in DOMAIN d["applications"] : d["applications"][i].status \in DOMAIN ValidTransitions

ASSUME DatabaseAssumption ==
  /\ Database = [t \in TalentTables |-> Database[t]]
  /\ \A t \in TalentTables :
       /\ IsFiniteSet(DOMAIN Database[t])
       /\ DOMAIN Database[t] = 1 .. Cardinality(DOMAIN Database[t])
  /\ \A t \in TalentTables : \A id \in DOMAIN Database[t] :
       IsRow(Database[t][id]) /\ Columns[t] \subseteq DOMAIN Database[t][id]
  /\ ReferencesHold(Database, TalentForeignKeys)
  /\ KeysHold(Database, TalentUniqueKeys)
  /\ RowsComplete(Database, TalentRequired)
  /\ RowsAreSound(Database)

\* What the request schemas let through: a creation sends every column but the
\* status, and no null for one that is NOT NULL; a transition a status of the funnel
\* and nothing else.
ASSUME RequestAssumption ==
  \A r \in Requests :
    /\ r.table \in DOMAIN Operations /\ r.op \in Operations[r.table] /\ IsRow(r.values)
    /\ r.op = "create" =>
         /\ Columns[r.table] \ {"status"} \subseteq DOMAIN r.values
         /\ Complete(r.values, TalentRequired[r.table])
    /\ r.op = "transition" =>
         DOMAIN r.values = {"status"} /\ r.values.status \in DOMAIN ValidTransitions

-----------------------------------------------------------------------------
(* Specification *)

T == INSTANCE Transactions WITH
       ForeignKeys <- TalentForeignKeys, UniqueKeys <- TalentUniqueKeys,
       Required <- TalentRequired,
       Permitted <- TalentPermitted, Errors <- TalentErrors,
       Assigned <- TalentAssigned, Routes <- TalentRoutes

vars == <<db, lastId, handler, handled>>

Init == T!StartWith(Database)
Next == T!Next
Spec == Init /\ [][Next]_vars

-----------------------------------------------------------------------------
(* Properties *)

\* The committed tables are sound, whoever wrote them at the same time: every
\* row has an id of its own and every constraint holds; and what a handler is
\* about to write is what its service assigns.
TypeOK ==
  /\ db = [t \in TalentTables |-> db[t]]
  /\ lastId \in [TalentTables -> Nat]
  /\ \A t \in TalentTables : DOMAIN db[t] \subseteq 1 .. lastId[t]
  /\ \A t \in TalentTables : \A id \in DOMAIN db[t] :
       IsRow(db[t][id]) /\ Columns[t] \subseteq DOMAIN db[t][id]
  /\ ReferencesHold(db, TalentForeignKeys)
  /\ KeysHold(db, TalentUniqueKeys)
  /\ RowsComplete(db, TalentRequired)
  /\ RowsAreSound(db)
  /\ DOMAIN handler = Handlers
  /\ \A h \in Handlers : handler[h].at # "idle" => handler[h].request \in Requests
  /\ \A h \in Handlers : handler[h].at = "checked" =>
       handler[h].values = TalentAssigned(db, handler[h].request)

\* How far a candidate has come for a requisition.
Standing(d, candidate, requisition) ==
  {d["applications"][a].status :
     a \in {i \in DOMAIN d["applications"] :
              /\ d["applications"][i].candidate_id = candidate
              /\ d["applications"][i].job_requisition_id = requisition}}

\* A candidate stands in one place for a requisition, and a request whose
\* checks still hold moves them only along the funnel, one stage at a time and
\* not out of a closed one - or makes the pair anew, takes it away, or points
\* an application at another pair, which an edit may do at any stage, hired
\* included.  (Two transitions that overtake each other do reopen a closed
\* application: application.py:171.)
FunnelKept ==
  [][\A h \in Handlers : T!Writes(h) /\ T!Current(h) =>
       \A candidate \in DOMAIN db["candidates"], requisition \in DOMAIN db["job_requisitions"] :
         LET r == handler[h].request
             before == Standing(db, candidate, requisition)
             after == Standing(db', candidate, requisition) IN
         \/ after = before
         \/ r.op = "create" /\ before = {} /\ after = {"applied"}
         \/ r.op = "delete" /\ after = {}
         \/ r.op = "transition" /\ \E s \in DOMAIN ValidTransitions :
              before = {s} /\ \E n \in ValidTransitions[s] : after = {n}
         \/ /\ r.op = "update" /\ DOMAIN r.values \cap ApplicationPair # {}
            /\ before = {} \/ after = {}
            /\ after # {} => after = {db["applications"][r.id].status}]_vars

\* A finalized review says what it said when it was finalized, until it is
\* deleted, and no period comes to end before it starts, whichever ends of it a
\* request moves - unless an edit had read the review before somebody else
\* wrote it.
ReviewsStand ==
  [][\A h \in Handlers : T!Writes(h) /\ T!Current(h) =>
       /\ \A i \in DOMAIN db["performance_reviews"] :
            LET review == db["performance_reviews"][i] IN
            review.status = "finalized" =>
              \/ i \in DOMAIN db'["performance_reviews"] /\ db'["performance_reviews"][i] = review
              \/ handler[h].request.op = "delete" /\ handler[h].request.id = i
       /\ \A i \in DOMAIN db'["performance_reviews"] :
            \/ ValidatePeriod(db'["performance_reviews"][i]) = {}
            \/ i \in DOMAIN db["performance_reviews"]
                 /\ ValidatePeriod(db["performance_reviews"][i]) # {}]_vars

\* Whom and what an achievement measures is fixed for good, however requests
\* interleave: it keeps its target, that keeps its employee, KPI and month,
\* and nothing but its own deletion takes it away.
MeasuredStands ==
  [][\A a \in DOMAIN db["achievements"] :
       LET target == db["achievements"][a].target_id IN
       \/ /\ a \in DOMAIN db'["achievements"]
          /\ db'["achievements"][a].target_id = target
          /\ \A c \in TargetIdentity : db'["targets"][target][c] = db["targets"][target][c]
       \/ \E h \in Handlers :
            /\ T!Writes(h) /\ handler[h].request.op = "delete"
            /\ handler[h].request.table = "achievements" /\ handler[h].request.id = a]_vars

\* A request that nobody overtook gets an answer: its route knows every error its
\* service raises, and the service checks all that the keys will.  Two kinds do
\* not, and end in status 500: the delete of a row that others refer to, and an
\* update that sends null for a NOT NULL column (target.py:23 of the schemas).
AnsweredUnlessOvertaken ==
  \A h \in Handlers :
    LET r == handler[h].request IN
    T!Unanswered(h) =>
      \/ r.op = "delete" /\ StillReferred(db, TalentForeignKeys, r.table, r.id)
      \/ T!SendsNull(db, r)
=============================================================================
