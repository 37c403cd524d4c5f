-------------------------- MODULE LeaveConcurrent --------------------------
(***************************************************************************)
(* The leave subsystem as it runs: every API call is handled by a worker   *)
(* in a database transaction of its own.  The isolation level is READ      *)
(* COMMITTED: each SELECT sees the rows committed when it runs, a flushed  *)
(* UPDATE or DELETE locks its row until the transaction ends, nobody else  *)
(* sees it before the commit, and an UPDATE writes only the columns whose  *)
(* value differs from the one the session read.  No SELECT locks.          *)
(*                                                                         *)
(* A call that fails a check raises, rolls back and has changed nothing;   *)
(* when that happens before its first write it is not a step of the model. *)
(***************************************************************************)
EXTENDS LeaveLedger

CONSTANTS
  Workers,        \* concurrent request handlers
  Operations      \* the kinds of call the clients make

ASSUME OperationsAssumption ==
  Operations \subseteq {"approve", "reject", "create", "edit", "delete",
                        "create_balance", "edit_balance", "delete_balance"}

ASSUME IdsAssumption == NoRow \notin RequestIds \cup BalanceIds

VARIABLE txn        \* the transaction each worker is in

cvars == <<requests, balances, txn>>

\* Where a handler is: about to run the named statement.
Points == {"idle", "flush_request", "find_overlapping", "read_balances",
           "flush_balance", "commit"}

\* call: the call being handled;
\* request, balance: the rows the transaction writes to, NoRow if none;
\* loaded: the request as the session holds it, for a decision or an edit;
\* onRequest, onBalance: the columns it gives new values.
IdleTxn ==
  [ at |-> "idle", call |-> "none", request |-> NoRow, loaded |-> NoRow,
    onRequest |-> <<>>, balance |-> NoRow, onBalance |-> <<>> ]

Deletes(t) == t.call \in {"delete", "delete_balance"}

ConcurrentTypeOK ==
  /\ TypeOK
  /\ \A w \in Workers :
       /\ txn[w].at \in Points
       /\ txn[w].request \in RequestIds \cup {NoRow}
       /\ txn[w].loaded \in LeaveRequest \cup {NoRow}
       /\ txn[w].balance \in BalanceIds \cup {NoRow}

ConcurrentInit == Init /\ txn = [w \in Workers |-> IdleTxn]

-----------------------------------------------------------------------------
(* Sessions and rows *)

\* The columns the unit of work finds changed between two images of a row.
Changed(old, new) ==
  [column \in {c \in DOMAIN old : old[c] # new[c]} |-> new[column]]

\* A row under the committed write of a transaction.
Written(t, row, columns) ==
  IF Deletes(t) \/ row = NoRow THEN NoRow
  ELSE [c \in DOMAIN row |-> IF c \in DOMAIN columns THEN columns[c] ELSE row[c]]

AfterRequest == {"find_overlapping", "read_balances", "flush_balance", "commit"}
HoldsRequest(w, id) == txn[w].request = id /\ txn[w].at \in AfterRequest
HoldsBalance(w, id) == txn[w].balance = id /\ txn[w].at = "commit"

Idle(w) == txn[w].at = "idle"
GoTo(w, point) == txn' = [txn EXCEPT ![w].at = point]
Rollback(w) == txn' = [txn EXCEPT ![w] = IdleTxn]

\* Primary keys are fresh UUIDs: no transaction still knows the new one.
Fresh(id, table) ==
  /\ table[id] = NoRow
  /\ \A w \in Workers : id \notin {txn[w].request, txn[w].balance}

-----------------------------------------------------------------------------
(* First statements: the row is read, the caller authorized, the state checked *)

BeginOnRequest(w, call, id, loaded, columns) ==
  /\ Idle(w)
  /\ call \in Operations
  /\ txn' = [txn EXCEPT ![w] = [IdleTxn EXCEPT
                 !.at = "flush_request", !.call = call, !.request = id,
                 !.loaded = loaded, !.onRequest = columns]]
  /\ UNCHANGED <<requests, balances>>

ReadForDecision(w, call, outcome) ==
  \E caller \in Employees, id \in RequestIds :
    /\ MayDecide(caller, id)
    /\ BeginOnRequest(w, call, id, requests[id],
          Changed(requests[id], Decided(requests[id], outcome, caller)))

ReadForApproval(w) == ReadForDecision(w, "approve", "approved")
ReadForRejection(w) == ReadForDecision(w, "reject", "rejected")

\* A PUT that changes nothing flushes no statement.
ReadForEdit(w) ==
  \E caller \in Employees, id \in Rows(requests) :
    /\ Owns(caller, requests[id])
    /\ requests[id].status = "pending"
    /\ \E new \in Edits(requests[id]) \ {requests[id]} :
         BeginOnRequest(w, "edit", id, requests[id], Changed(requests[id], new))

ReadForDelete(w) ==
  \E caller \in Employees, id \in Rows(requests) :
    /\ Owns(caller, requests[id])
    /\ requests[id].status # "approved"
    /\ BeginOnRequest(w, "delete", id, NoRow, <<>>)

BeginOnBalance(w, call, id, columns) ==
  /\ Idle(w)
  /\ call \in Operations
  /\ txn' = [txn EXCEPT ![w] = [IdleTxn EXCEPT
                 !.at = "flush_balance", !.call = call, !.balance = id,
                 !.onBalance = columns]]
  /\ UNCHANGED <<requests, balances>>

ReadForBalanceEdit(w) ==
  \E id \in Rows(balances) : \E new \in BalanceEdits(balances[id]) \ {balances[id]} :
    BeginOnBalance(w, "edit_balance", id, Changed(balances[id], new))

ReadForBalanceDelete(w) ==
  \E id \in Rows(balances) : BeginOnBalance(w, "delete_balance", id, <<>>)

-----------------------------------------------------------------------------
(* Single-statement transactions: INSERT and COMMIT *)

InsertRequest(w) ==
  /\ "create" \in Operations /\ Idle(w)
  /\ \E caller \in Employees, id \in RequestIds, start, end \in Days :
       Fresh(id, requests) /\ CreateRequest(caller, id, start, end)
  /\ UNCHANGED txn

InsertBalance(w) ==
  /\ "create_balance" \in Operations /\ Idle(w)
  /\ \E id \in BalanceIds, employee \in Employees, year \in Years, days \in Allocations :
       Fresh(id, balances) /\ CreateBalance(id, employee, year, days)
  /\ UNCHANGED txn

-----------------------------------------------------------------------------
(* The statements that follow *)

\* Mutant of FlushRequest: an approval goes on without looking for overlaps.
FlushUnchecked(w) ==
  LET t == txn[w] IN
  /\ t.at = "flush_request"
  /\ GoTo(w, IF t.call = "approve" THEN "read_balances" ELSE "commit")
  /\ UNCHANGED <<requests, balances>>

\* An UPDATE that finds its row gone is a StaleDataError and rolls back; a
\* DELETE that does is only warned about.
FlushRequest(w) ==
  LET t == txn[w] IN
  /\ t.at = "flush_request"
  /\ \A v \in Workers \ {w} : ~ HoldsRequest(v, t.request)
  /\ IF requests[t.request] = NoRow /\ ~ Deletes(t)
     THEN Rollback(w)
     ELSE GoTo(w, IF t.call = "approve" THEN "find_overlapping" ELSE "commit")
  /\ UNCHANGED <<requests, balances>>

\* The dates are those the session loaded; the other requests are read now.
FindOverlapping(w) ==
  LET t == txn[w] IN
  /\ t.at = "find_overlapping"
  /\ IF WithinOneYear(t.loaded) /\ ApprovedOverlaps(requests, t.request, t.loaded) = {}
     THEN GoTo(w, "read_balances")
     ELSE Rollback(w)
  /\ UNCHANGED <<requests, balances>>

ReadBalances(w) ==
  LET t     == txn[w]
      found == BalancesFor(balances, t.loaded)
      days  == DayCount(t.loaded)
  IN
  /\ t.at = "read_balances"
  /\ \/ \E b \in found :
          /\ found = {b}
          /\ CanDeduct(balances[b], days)
          /\ txn' = [txn EXCEPT ![w] = [t EXCEPT
                 !.at = "flush_balance", !.balance = b,
                 !.onBalance = Changed(balances[b], Deduct(balances[b], days))]]
     \/ /\ ~ \E b \in found : found = {b} /\ CanDeduct(balances[b], days)
        /\ Rollback(w)
  /\ UNCHANGED <<requests, balances>>

\* Mutant of FlushBalance: the table is locked instead of the row.
FlushUnderTableLock(w) ==
  /\ txn[w].at = "flush_balance"
  /\ \A v \in Workers \ {w} : txn[v].at \notin AfterRequest
  /\ GoTo(w, "commit")
  /\ UNCHANGED <<requests, balances>>

FlushBalance(w) ==
  LET t == txn[w] IN
  /\ t.at = "flush_balance"
  /\ \A v \in Workers \ {w} : ~ HoldsBalance(v, t.balance)
  /\ IF balances[t.balance] = NoRow /\ ~ Deletes(t)
     THEN Rollback(w)
     ELSE GoTo(w, "commit")
  /\ UNCHANGED <<requests, balances>>

\* uow.commit() makes both writes visible at once and releases the locks.
Commit(w) ==
  LET t == txn[w] IN
  /\ t.at = "commit"
  /\ requests' = [id \in RequestIds |->
       IF id = t.request THEN Written(t, requests[id], t.onRequest) ELSE requests[id]]
  /\ balances' = [id \in BalanceIds |->
       IF id = t.balance THEN Written(t, balances[id], t.onBalance) ELSE balances[id]]
  /\ Rollback(w)

\* The process or its connection dies, or the client's cancellation unwinds
\* the handler: leaving the unit of work without commit rolls back.
Abort(w) ==
  /\ ~ Idle(w)
  /\ Rollback(w)
  /\ UNCHANGED <<requests, balances>>

-----------------------------------------------------------------------------
Begin(w) ==
  \/ ReadForApproval(w) \/ ReadForRejection(w) \/ ReadForEdit(w) \/ ReadForDelete(w)
  \/ ReadForBalanceEdit(w) \/ ReadForBalanceDelete(w)
  \/ InsertRequest(w) \/ InsertBalance(w)

Proceed(w) ==
  \/ FlushRequest(w) \/ FindOverlapping(w) \/ ReadBalances(w)
  \/ FlushBalance(w) \/ Commit(w)

ConcurrentNext == \E w \in Workers : Begin(w) \/ Proceed(w) \/ Abort(w)

ConcurrentSpec == ConcurrentInit /\ [][ConcurrentNext]_cvars

\* A started handler runs on: its coroutine is scheduled whenever it is ready,
\* and PostgreSQL grants a row lock to the waiters in turn.
FairSpec == ConcurrentSpec /\ \A w \in Workers : SF_cvars(Proceed(w))

-----------------------------------------------------------------------------
(* Properties *)

\* One call at a time, the transactions are the atomic calls of LeaveLedger:
\* no check is lost between the statements, no rollback leaves a trace.
LedgerSpec == Spec

\* Whatever calls overwrite each other's balance, no allocation and no remaining
\* amount becomes negative: both are checked on the values that are written.
NothingOverdrawn ==
  \A b \in Rows(balances) :
    balances[b].allocated_days >= 0 /\ balances[b].remaining_days >= 0

ConcurrentInv == ConcurrentTypeOK /\ NothingOverdrawn

\* What LeaveRequestService says of every request (InvalidLeaveDateRangeError).
InOrder(request) == request.start_date <= request.end_date
DatesInOrder == \A r \in Rows(requests) : InOrder(requests[r])

\* An edit that writes one of the two dates over a row whose other date is no
\* longer the one that the edit read when it checked the range.
WritesOverMovedDate(w, r) ==
  LET t     == txn[w]
      dates == DOMAIN t.onRequest \cap {"start_date", "end_date"}
  IN
  /\ t.call = "edit" /\ t.request = r /\ Commit(w)
  /\ \/ dates = {"start_date"} /\ requests[r].end_date # t.loaded.end_date
     \/ dates = {"end_date"} /\ requests[r].start_date # t.loaded.start_date

\* Only such an edit puts the dates of a request out of order, and as long as
\* none does no interleaving makes any amount of a balance negative, used_days
\* included, which no writer checks: a leave has at least one day.
OnlyMovedDatesHarm ==
  /\ [][\A r \in Rows(requests') :
          \/ InOrder(requests'[r])
          \/ r \in Rows(requests) /\ ~ InOrder(requests[r])
          \/ \E w \in Workers : WritesOverMovedDate(w, r)]_cvars
  /\ []DatesInOrder => []BalanceNonNegative

\* Every call that starts a transaction ends it: no two transactions wait for
\* each other's rows, because a request row is always locked before a balance.
EveryCallEnds == \A w \in Workers : ~ Idle(w) ~> Idle(w)
=============================================================================
