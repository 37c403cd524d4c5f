-------------------------- MODULE FieldOperations --------------------------
(***************************************************************************)
(* Field work: stores and missions, which the admins keep; the visits an   *)
(* employee makes, with the photos, survey, audits and competitor sightings *)
(* recorded on them; field attendance with a selfie; and the files the     *)
(* pictures are in.  A record of a visit has no employee of its own: it    *)
(* belongs to whoever the visit belongs to.  A file is a row here and an   *)
(* object in a bucket that no transaction covers.                          *)
(***************************************************************************)
EXTENDS Callers

CONSTANTS
  Handlers, Requests, MaxRequests,
  Database,         \* the database the system starts from
  MaxSize           \* the largest upload, file_upload_max_size_bytes

VARIABLES
  db, lastId, handler, handled,
  objects           \* the keys that have an object in the bucket

VisitRecords ==
  {"visit_photos", "surveys", "display_audits", "posm_audits", "competitor_activities"}

FieldTables ==
  VisitRecords \cup
  { "users", "hr_employees", "organizations", "store_types", "stores", "missions", "visits",
    "field_attendance_events", "file_objects" }

-----------------------------------------------------------------------------
(* Constraints *)

StoreKeys ==
  References("stores", {"organization_id"}, "organizations", "restrict")
  \cup References("stores", {"store_type_id"}, "store_types", "restrict")

AssigneeKeys(t) ==
  References(t, {"employee_id"}, "hr_employees", "restrict")
  \cup References(t, {"store_id"}, "stores", "restrict")

VisitKeys == AssigneeKeys("visits")
MissionKeys == AssigneeKeys("missions")

VisitPhotoKeys ==
  References("visit_photos", {"visit_id"}, "visits", "restrict")
  \cup References("visit_photos", {"file_object_id"}, "file_objects", "restrict")
SurveyKeys == References("surveys", {"visit_id"}, "visits", "restrict")
DisplayAuditKeys == References("display_audits", {"visit_id"}, "visits", "restrict")
PosmAuditKeys == References("posm_audits", {"visit_id"}, "visits", "restrict")
CompetitorActivityKeys ==
  References("competitor_activities", {"visit_id"}, "visits", "restrict")

FieldAttendanceKeys ==
  References("field_attendance_events", {"employee_id"}, "hr_employees", "restrict")
  \cup References("field_attendance_events", {"selfie_file_id"}, "file_objects", "restrict")

FieldForeignKeys ==
  StoreKeys \cup VisitKeys \cup MissionKeys \cup VisitPhotoKeys \cup SurveyKeys
  \cup DisplayAuditKeys \cup PosmAuditKeys \cup CompetitorActivityKeys
  \cup FieldAttendanceKeys

FieldUniqueKeys ==
  { Unique("stores", {"code"}), Unique("store_types", {"code"}),
    Unique("surveys", {"visit_id"}), Unique("file_objects", {"storage_key"}) }

\* The NOT NULL columns of the tables that requests write.
FieldRequired ==
  [ store_types |-> {"code", "name"},
    stores |-> {"code", "name", "organization_id", "store_type_id"},
    missions |-> {"employee_id", "store_id", "scheduled_date"},
    visits |-> {"employee_id", "store_id", "visited_at"},
    visit_photos |-> {"visit_id", "file_object_id"},
    surveys |-> {"visit_id", "display_compliant", "stock_available", "posm_available"},
    display_audits |-> {"visit_id", "display_area", "observation"},
    posm_audits |-> {"visit_id", "posm_type", "condition"},
    competitor_activities |-> {"visit_id", "competitor_name", "activity_type"},
    field_attendance_events |->
      {"employee_id", "event_type", "event_time", "latitude", "longitude",
       "gps_accuracy_meters", "selfie_file_id"},
    file_objects |-> {"filename", "content_type", "size", "storage_key", "bucket"} ]

-----------------------------------------------------------------------------
(* Guards of the routes *)

FieldPermitted(d, r) ==
  CASE r.table \in {"stores", "store_types", "missions"} -> IsAdmin(d, r.by)
    [] r.table = "file_objects" -> IsUser(d, r.by)
    [] OTHER -> HasContext(d, r.by)

-----------------------------------------------------------------------------
(* The services' checks *)

\* A column the client sent refers to nothing.
Dangling(d, v, column, table) ==
  column \in DOMAIN v /\ ~Exists(d, table, v[column])

StoreTypeCreate(d, v) ==
  Raise(Taken(d, "store_types", 0, {"code"}, v), "DuplicateStoreTypeCode")

StoreTypeUpdate(d, id, v) ==
  Raise("code" \in DOMAIN v /\ Taken(d, "store_types", id, {"code"}, v),
        "DuplicateStoreTypeCode")

StoreReferences(d, v) ==
  Raise(Dangling(d, v, "organization_id", "organizations"), "OrganizationNotFound")
  \cup Raise(Dangling(d, v, "store_type_id", "store_types"), "StoreTypeNotFound")

StoreCreate(d, v) ==
  Raise(Taken(d, "stores", 0, {"code"}, v), "DuplicateStoreCode") \cup StoreReferences(d, v)

StoreUpdate(d, id, v) ==
  Raise("code" \in DOMAIN v /\ Taken(d, "stores", id, {"code"}, v), "DuplicateStoreCode")
  \cup StoreReferences(d, v)

\* A mission names its employee and its store, and so does a visit.
MissionCreate(d, v) ==
  Raise(~Exists(d, "hr_employees", v.employee_id), "EmployeeNotFound")
  \cup Raise(~Exists(d, "stores", v.store_id), "StoreNotFound")

MissionUpdate(d, v) ==
  Raise(Dangling(d, v, "employee_id", "hr_employees"), "EmployeeNotFound")
  \cup Raise(Dangling(d, v, "store_id", "stores"), "StoreNotFound")

\* Mutant of VisitOwner: the policy is asked about the row as it will be.
VisitOwnerAfter(d, r) ==
  Owner(d, r, (IF r.op = "create" THEN r.values
               ELSE Patched(d[r.table][r.id], r.values)).employee_id)

\* A visit, or a field attendance event, is the caller's own.
VisitOwner(d, r) ==
  Owner(d, r, IF r.op = "create" THEN r.values.employee_id ELSE d[r.table][r.id].employee_id)

VisitCreate(d, r) ==
  MissionCreate(d, r.values) \cup Raise(~VisitOwner(d, r), "VisitAuthorizationDenied")

VisitUpdate(d, r) ==
  Raise(~VisitOwner(d, r), "VisitAuthorizationDenied") \cup MissionUpdate(d, r.values)

VisitDelete(d, r) == Raise(~VisitOwner(d, r), "VisitAuthorizationDenied")

FieldAttendanceCreate(d, r) ==
  Raise(~Exists(d, "hr_employees", r.values.employee_id), "EmployeeNotFound")
  \cup Raise(~Exists(d, "file_objects", r.values.selfie_file_id), "SelfieFileNotFound")
  \cup Raise(~VisitOwner(d, r), "FieldAttendanceAuthorizationDenied")

FieldAttendanceUpdate(d, r) ==
  Raise(~VisitOwner(d, r), "FieldAttendanceAuthorizationDenied")
  \cup Raise(Dangling(d, r.values, "employee_id", "hr_employees"), "EmployeeNotFound")
  \cup Raise(Dangling(d, r.values, "selfie_file_id", "file_objects"), "SelfieFileNotFound")

FieldAttendanceDelete(d, r) ==
  Raise(~VisitOwner(d, r), "FieldAttendanceAuthorizationDenied")

\* A record is created for a visit of the caller, and then stays with it.
OnVisit(d, r, visit) ==
  IF ~Exists(d, "visits", visit) THEN {"VisitNotFound"}
  ELSE Raise(~Owner(d, r, d["visits"][visit].employee_id), "AuthorizationDenied")

NewRecord(d, r) == OnVisit(d, r, r.values.visit_id)
OldRecord(d, r) == OnVisit(d, r, d[r.table][r.id].visit_id)

DisplayAuditCreate(d, r) == NewRecord(d, r)
DisplayAuditUpdate(d, r) == OldRecord(d, r)
DisplayAuditDelete(d, r) == OldRecord(d, r)

PosmAuditCreate(d, r) == NewRecord(d, r)
PosmAuditUpdate(d, r) == OldRecord(d, r)
PosmAuditDelete(d, r) == OldRecord(d, r)

CompetitorActivityCreate(d, r) == NewRecord(d, r)
CompetitorActivityUpdate(d, r) == OldRecord(d, r)
CompetitorActivityDelete(d, r) == OldRecord(d, r)

SurveyCreate(d, r) ==
  NewRecord(d, r)
  \cup Raise(Taken(d, "surveys", 0, {"visit_id"}, r.values), "DuplicateSurvey")
SurveyUpdate(d, r) == OldRecord(d, r)
SurveyDelete(d, r) == OldRecord(d, r)

VisitPhotoCreate(d, r) ==
  NewRecord(d, r)
  \cup Raise(~Exists(d, "file_objects", r.values.file_object_id), "FileObjectNotFound")
VisitPhotoUpdate(d, r) ==
  OldRecord(d, r)
  \cup Raise(Dangling(d, r.values, "file_object_id", "file_objects"), "FileObjectNotFound")
VisitPhotoDelete(d, r) == OldRecord(d, r)

Upload(r) == Raise(r.values.size > MaxSize, "FileTooLarge")

CreateErrors(d, r) ==
  CASE r.table = "store_types" -> StoreTypeCreate(d, r.values)
    [] r.table = "stores" -> StoreCreate(d, r.values)
    [] r.table = "missions" -> MissionCreate(d, r.values)
    [] r.table = "visits" -> VisitCreate(d, r)
    [] r.table = "visit_photos" -> VisitPhotoCreate(d, r)
    [] r.table = "surveys" -> SurveyCreate(d, r)
    [] r.table = "display_audits" -> DisplayAuditCreate(d, r)
    [] r.table = "posm_audits" -> PosmAuditCreate(d, r)
    [] r.table = "competitor_activities" -> CompetitorActivityCreate(d, r)
    [] r.table = "field_attendance_events" -> FieldAttendanceCreate(d, r)
    [] r.table = "file_objects" -> Upload(r)

UpdateErrors(d, r) ==
  CASE r.table = "store_types" -> StoreTypeUpdate(d, r.id, r.values)
    [] r.table = "stores" -> StoreUpdate(d, r.id, r.values)
    [] r.table = "missions" -> MissionUpdate(d, r.values)
    [] r.table = "visits" -> VisitUpdate(d, r)
    [] r.table = "visit_photos" -> VisitPhotoUpdate(d, r)
    [] r.table = "surveys" -> SurveyUpdate(d, r)
    [] r.table = "display_audits" -> DisplayAuditUpdate(d, r)
    [] r.table = "posm_audits" -> PosmAuditUpdate(d, r)
    [] r.table = "competitor_activities" -> CompetitorActivityUpdate(d, r)
    [] r.table = "field_attendance_events" -> FieldAttendanceUpdate(d, r)

\* What the admins keep, and a file, is deleted without a check.
DeleteErrors(d, r) ==
  CASE r.table = "visits" -> VisitDelete(d, r)
    [] r.table = "visit_photos" -> VisitPhotoDelete(d, r)
    [] r.table = "surveys" -> SurveyDelete(d, r)
    [] r.table = "display_audits" -> DisplayAuditDelete(d, r)
    [] r.table = "posm_audits" -> PosmAuditDelete(d, r)
    [] r.table = "competitor_activities" -> CompetitorActivityDelete(d, r)
    [] r.table = "field_attendance_events" -> FieldAttendanceDelete(d, r)
    [] OTHER -> {}

FieldErrors(d, r) ==
  CASE r.op = "create" -> CreateErrors(d, r)
    [] r.op = "update" -> UpdateErrors(d, r)
    [] r.op = "delete" -> DeleteErrors(d, r)

\* Every create is the payload, every update the columns sent.
FieldAssigned(d, r) == r.values

-----------------------------------------------------------------------------
(* The errors the routes answer; the denials have a name per component. *)

StoreTypeRoutes == [create |-> {"DuplicateStoreTypeCode"}, update |-> {"DuplicateStoreTypeCode"},
                    delete |-> {}]
StoreRoutes ==
  LET write == {"DuplicateStoreCode", "OrganizationNotFound", "StoreTypeNotFound"} IN
  [create |-> write, update |-> write, delete |-> {}]
MissionRoutes ==
  LET write == {"EmployeeNotFound", "StoreNotFound"} IN
  [create |-> write, update |-> write, delete |-> {}]
VisitRoutes ==
  LET write == {"EmployeeNotFound", "StoreNotFound", "VisitAuthorizationDenied"} IN
  [create |-> write, update |-> write, delete |-> {"VisitAuthorizationDenied"}]
FieldAttendanceRoutes ==
  LET write == {"EmployeeNotFound", "SelfieFileNotFound", "FieldAttendanceAuthorizationDenied"} IN
  [create |-> write, update |-> write, delete |-> {"FieldAttendanceAuthorizationDenied"}]

\* Mutant of VisitPhotoRoutes: the file of an edit is thought to be there.
VisitPhotoRoutesTrusting ==
  [ create |-> {"VisitNotFound", "FileObjectNotFound", "AuthorizationDenied"},
    update |-> {"AuthorizationDenied"}, delete |-> {"AuthorizationDenied"} ]

VisitPhotoRoutes ==
  [ create |-> {"VisitNotFound", "FileObjectNotFound", "AuthorizationDenied"},
    update |-> {"FileObjectNotFound", "AuthorizationDenied"},
    delete |-> {"AuthorizationDenied"} ]
SurveyRoutes ==
  [ create |-> {"VisitNotFound", "DuplicateSurvey", "AuthorizationDenied"},
    update |-> {"AuthorizationDenied"}, delete |-> {"AuthorizationDenied"} ]
DisplayAuditRoutes ==
  [ create |-> {"VisitNotFound", "AuthorizationDenied"},
    update |-> {"AuthorizationDenied"}, delete |-> {"AuthorizationDenied"} ]
PosmAuditRoutes ==
  [ create |-> {"VisitNotFound", "AuthorizationDenied"},
    update |-> {"AuthorizationDenied"}, delete |-> {"AuthorizationDenied"} ]
CompetitorActivityRoutes ==
  [ create |-> {"VisitNotFound", "AuthorizationDenied"},
    update |-> {"AuthorizationDenied"}, delete |-> {"AuthorizationDenied"} ]
FileRoutes == [create |-> {"FileTooLarge"}, delete |-> {}]

FieldRoutes(r) ==
  CASE r.table = "store_types" -> StoreTypeRoutes[r.op]
    [] r.table = "stores" -> StoreRoutes[r.op]
    [] r.table = "missions" -> MissionRoutes[r.op]
    [] r.table = "visits" -> VisitRoutes[r.op]
    [] r.table = "visit_photos" -> VisitPhotoRoutes[r.op]
    [] r.table = "surveys" -> SurveyRoutes[r.op]
    [] r.table = "display_audits" -> DisplayAuditRoutes[r.op]
    [] r.table = "posm_audits" -> PosmAuditRoutes[r.op]
    [] r.table = "competitor_activities" -> CompetitorActivityRoutes[r.op]
    [] r.table = "field_attendance_events" -> FieldAttendanceRoutes[r.op]
    [] r.table = "file_objects" -> FileRoutes[r.op]

-----------------------------------------------------------------------------
(* What the program starts from, and what it is asked *)

\* The columns of every row that something here looks at.
Columns ==
  [ users |-> {"admin"}, hr_employees |-> {"user_id"}, organizations |-> {},
    store_types |-> {"code"}, stores |-> {"code", "organization_id", "store_type_id"},
    missions |-> {"employee_id", "store_id"}, visits |-> {"employee_id", "store_id"},
    visit_photos |-> {"visit_id", "file_object_id"}, surveys |-> {"visit_id"},
    display_audits |-> {"visit_id"}, posm_audits |-> {"visit_id"},
    competitor_activities |-> {"visit_id"},
    field_attendance_events |-> {"employee_id", "selfie_file_id"},
    file_objects |-> {"storage_key", "size"} ]

\* A file is uploaded and deleted, and not edited.
Operations ==
  [t \in FieldTables \ {"users", "hr_employees", "organizations"} |->
     {"create", "delete"} \cup (IF t = "file_objects" THEN {} ELSE {"update"})]

IsRow(row) == row = [c \in DOMAIN row |-> row[c]]

ASSUME DatabaseAssumption ==
  /\ Database = [t \in FieldTables |-> Database[t]]
  /\ \A t \in FieldTables :
       /\ IsFiniteSet(DOMAIN Database[t])
       /\ DOMAIN Database[t] = 1 .. Cardinality(DOMAIN Database[t])
  /\ \A t \in FieldTables : \A id \in DOMAIN Database[t] :
       IsRow(Database[t][id]) /\ Columns[t] \subseteq DOMAIN Database[t][id]
  /\ ReferencesHold(Database, FieldForeignKeys)
  /\ KeysHold(Database, FieldUniqueKeys)
  /\ RowsComplete(Database, FieldRequired)

\* What the request schemas let through: a creation sends every column, and no
\* null for one that is NOT NULL; an edit of a record cannot send another visit.
ASSUME RequestAssumption ==
  \A r \in Requests :
    /\ r.table \in DOMAIN Operations /\ r.op \in Operations[r.table] /\ IsRow(r.values)
    /\ r.op = "create" =>
         /\ Columns[r.table] \subseteq DOMAIN r.values
         /\ Complete(r.values, FieldRequired[r.table])
    /\ r.op = "update" /\ r.table \in VisitRecords => "visit_id" \notin DOMAIN r.values

-----------------------------------------------------------------------------
(* Specification *)

T == INSTANCE Transactions WITH
       ForeignKeys <- FieldForeignKeys, UniqueKeys <- FieldUniqueKeys,
       Required <- FieldRequired,
       Permitted <- FieldPermitted, Errors <- FieldErrors,
       Assigned <- FieldAssigned, Routes <- FieldRoutes

vars == <<db, lastId, handler, handled, objects>>

KeyOf(d, file) == d["file_objects"][file].storage_key

\* Uploads under way, and their keys.
Uploads(h) ==
  /\ handler[h].at # "idle" /\ handler[h].request.table = "file_objects"
  /\ handler[h].request.op = "create"

Uploading ==
  {handler[h].request.values.storage_key : h \in {g \in Handlers : Uploads(g)}}

\* Mutant of FreshKey: the key is the name of the file.
NamedKey(r) == TRUE

\* An upload draws a new uuid as its key.
FreshKey(r) ==
  (r.table = "file_objects" /\ r.op = "create") =>
    /\ r.values.storage_key \notin objects \cup Uploading
    /\ \A f \in DOMAIN db["file_objects"] : KeyOf(db, f) # r.values.storage_key

\* Mutant of Bucket: the object of a deleted file is left for later.
BucketKeeps(r) ==
  objects \cup IF r.table = "file_objects" /\ r.op = "create"
               THEN {r.values.storage_key} ELSE {}

\* The bucket after the call to the storage that a checked request makes
\* before its row is written: put of an upload, remove of a delete.
Bucket(r) ==
  IF r.table # "file_objects" THEN objects
  ELSE IF r.op = "create" THEN objects \cup {r.values.storage_key}
  ELSE objects \ {KeyOf(db, r.id)}

\* The process dies, or the storage does not answer.
Crash(h) ==
  /\ handler[h].at # "idle"
  /\ handler' = [handler EXCEPT ![h] = T!Idle]
  /\ UNCHANGED <<db, lastId, handled>>

Init ==
  /\ T!StartWith(Database)
  /\ objects = {KeyOf(Database, f) : f \in DOMAIN Database["file_objects"]}

Enter(h) == /\ \E r \in Requests : T!Enter(h, r) /\ FreshKey(r)
            /\ UNCHANGED objects
Check(h) == T!Check(h) /\ objects' = Bucket(handler[h].request)
Finish(h) == (T!Refuse(h) \/ T!Write(h) \/ T!Fail(h) \/ Crash(h)) /\ UNCHANGED objects

Next == \E h \in Handlers : Enter(h) \/ Check(h) \/ Finish(h)

Spec == Init /\ [][Next]_vars

-----------------------------------------------------------------------------
(* Properties *)

\* The committed tables are sound, whoever wrote them at the same time: every
\* row has an id of its own and every constraint holds; and what a handler is
\* about to write is what its request says.
TypeOK ==
  /\ db = [t \in FieldTables |-> db[t]]
  /\ lastId \in [FieldTables -> Nat]
  /\ \A t \in FieldTables : DOMAIN db[t] \subseteq 1 .. lastId[t]
  /\ \A t \in FieldTables : \A id \in DOMAIN db[t] :
       IsRow(db[t][id]) /\ Columns[t] \subseteq DOMAIN db[t][id]
  /\ ReferencesHold(db, FieldForeignKeys)
  /\ KeysHold(db, FieldUniqueKeys)
  /\ RowsComplete(db, FieldRequired)
  /\ DOMAIN handler = Handlers
  /\ \A h \in Handlers : handler[h].at # "idle" => handler[h].request \in Requests
  /\ \A h \in Handlers : handler[h].at = "checked" =>
       handler[h].values = handler[h].request.values

\* What an employee's lists show: visits and field attendance of theirs, and
\* the records of their visits.
Listed(d, employee, t) ==
  {id \in DOMAIN d[t] :
     IF t \in VisitRecords THEN d["visits"][d[t][id].visit_id].employee_id = employee
     ELSE d[t][id].employee_id = employee}

\* What belongs to an employee is changed by nobody else: the lists of the
\* others show the same rows after a write whose checks still hold, and a row
\* can be put into them only by handing over a visit or an attendance event,
\* with all that is recorded on it.
OthersRecordsStand ==
  [][\A h \in Handlers : T!Writes(h) /\ T!Current(h) =>
       LET r == handler[h].request IN
       \A employee \in {e \in DOMAIN db["hr_employees"] : ~Owner(db, r, e)} :
         \A t \in VisitRecords \cup {"visits", "field_attendance_events"} :
           /\ \A id \in Listed(db, employee, t) :
                id \in Listed(db', employee, t) /\ db'[t][id] = db[t][id]
           /\ \A id \in Listed(db', employee, t) \ Listed(db, employee, t) :
                /\ r.op = "update" /\ "employee_id" \in DOMAIN r.values
                /\ r.values.employee_id = employee]_vars

Readable(f) == KeyOf(db, f) \in objects

Removes(h) ==
  /\ handler[h].at = "checked" /\ handler[h].request.table = "file_objects"
  /\ handler[h].request.op = "delete"

Deleting(f) == \E h \in Handlers : Removes(h) /\ handler[h].request.id = f

Shown(d, f) ==
  \/ \E p \in DOMAIN d["visit_photos"] : d["visit_photos"][p].file_object_id = f
  \/ \E e \in DOMAIN d["field_attendance_events"] :
       d["field_attendance_events"][e].selfie_file_id = f

\* A row of a file has its object, whatever crashes between the two stores:
\* only its own delete takes the object away, and the row stays behind only
\* if that delete dies between the two steps, or a picture refers to the file -
\* then for good, however often the delete is retried.
FilesReadable ==
  [][\A f \in DOMAIN db'["file_objects"] :
       \/ Readable(f)'
       \/ Deleting(f)'
       \/ f \in DOMAIN db["file_objects"] /\ ~Readable(f) /\ ~Deleting(f)
       \/ Deleting(f) /\ (Shown(db, f) \/ \E h \in Handlers : Crash(h))]_vars

\* What a request under way has in the bucket: an upload has a key that is
\* nobody else's, with its object once that was put; the object of a delete is
\* gone before its row is, and the row does not get it back.
BucketOK ==
  \A h \in Handlers :
    /\ Uploads(h) =>
         LET key == handler[h].request.values.storage_key IN
         /\ \A f \in DOMAIN db["file_objects"] : KeyOf(db, f) # key
         /\ \A g \in Handlers \ {h} : Uploads(g) => handler[g].request.values.storage_key # key
         /\ handler[h].at = "checked" => key \in objects
    /\ Removes(h) =>
         LET f == handler[h].request.id IN
         /\ f \in 1 .. lastId["file_objects"]
         /\ f \in DOMAIN db["file_objects"] => KeyOf(db, f) \notin objects

\* An uploaded object has its row, or its upload is under way or died: no
\* request deletes a row and leaves the object.
NoRowForgetsItsObject ==
  [][\A f \in DOMAIN db["file_objects"] \ DOMAIN db'["file_objects"] :
       KeyOf(db, f) \notin objects']_vars

\* A request that nobody overtook gets an answer: its route knows every error its
\* service raises, and the service checks all that the keys will.  Two kinds do
\* not, and end in status 500: the delete of a row that others refer to, and an
\* update that sends null for a NOT NULL column (survey.py:19-21 of the schemas).
AnsweredUnlessOvertaken ==
  \A h \in Handlers :
    LET r == handler[h].request IN
    T!Unanswered(h) =>
      \/ r.op = "delete" /\ StillReferred(db, FieldForeignKeys, r.table, r.id)
      \/ T!SendsNull(db, r)
=============================================================================
