---------------------------- MODULE LeaveLedger ----------------------------
(***************************************************************************)
(* What the leave subsystem promises: the tables leave_requests and        *)
(* leave_balances under the calls of LeaveRequestService, ApprovalService  *)
(* and LeaveBalanceService, each taking effect as a whole or, when one of  *)
(* its checks raises, not at all.  LeaveConcurrent is the same subsystem   *)
(* with the database transactions these calls really are.                  *)
(***************************************************************************)
EXTENDS LeaveRules, FiniteSetsExt

VARIABLES
  requests,   \* leave_requests: id -> row, or NoRow
  balances    \* leave_balances: id -> row, or NoRow

vars == <<requests, balances>>

TypeOK ==
  /\ requests \in [RequestIds -> LeaveRequest \cup {NoRow}]
  /\ balances \in [BalanceIds -> LeaveBalance \cup {NoRow}]

Init ==
  /\ requests = [id \in RequestIds |-> NoRow]
  /\ balances = [id \in BalanceIds |-> NoRow]

-----------------------------------------------------------------------------
(* LeaveRequestService *)

CreateRequest(caller, id, start, end) ==
  /\ requests[id] = NoRow
  /\ start <= end
  /\ requests' = [requests EXCEPT ![id] = NewRequest(caller, start, end)]
  /\ UNCHANGED balances

UpdateRequest(caller, id) ==
  /\ requests[id] # NoRow
  /\ Owns(caller, requests[id])
  /\ requests[id].status = "pending"
  /\ \E new \in Edits(requests[id]) : requests' = [requests EXCEPT ![id] = new]
  /\ UNCHANGED balances

DeleteRequest(caller, id) ==
  /\ requests[id] # NoRow
  /\ Owns(caller, requests[id])
  /\ requests[id].status # "approved"
  /\ requests' = [requests EXCEPT ![id] = NoRow]
  /\ UNCHANGED balances

-----------------------------------------------------------------------------
(* ApprovalService *)

\* Mutant of MayDecide: a decided request is decided again.
DecidesAgain(caller, id) == requests[id] # NoRow /\ Manages(caller, requests[id])

\* The checks of _apply_decision, in the code's order.
MayDecide(caller, id) ==
  /\ requests[id] # NoRow
  /\ Manages(caller, requests[id])
  /\ requests[id].status = "pending"

\* The transition, and in the same transaction the deduction from the one
\* balance the request's employee has for its year.
ApproveLeaveRequest(caller, id) ==
  LET request == requests[id] IN
  /\ MayDecide(caller, id)
  /\ WithinOneYear(request)
  /\ ApprovedOverlaps(requests, id, request) = {}
  /\ \E b \in BalanceIds :
       /\ BalancesFor(balances, request) = {b}
       /\ CanDeduct(balances[b], DayCount(request))
       /\ balances' = [balances EXCEPT ![b] = Deduct(balances[b], DayCount(request))]
  /\ requests' = [requests EXCEPT ![id] = Decided(request, "approved", caller)]

RejectLeaveRequest(caller, id) ==
  /\ MayDecide(caller, id)
  /\ requests' = [requests EXCEPT ![id] = Decided(requests[id], "rejected", caller)]
  /\ UNCHANGED balances

-----------------------------------------------------------------------------
(* LeaveBalanceService, for administrators *)

CreateBalance(id, employee, year, days) ==
  /\ balances[id] = NoRow
  /\ ValidNonNegative(NewBalance(employee, year, days))
  /\ balances' = [balances EXCEPT ![id] = NewBalance(employee, year, days)]
  /\ UNCHANGED requests

UpdateBalance(id) ==
  /\ balances[id] # NoRow
  /\ \E new \in BalanceEdits(balances[id]) :
       balances' = [balances EXCEPT ![id] = new]
  /\ UNCHANGED requests

DeleteBalance(id) ==
  /\ balances[id] # NoRow
  /\ balances' = [balances EXCEPT ![id] = NoRow]
  /\ UNCHANGED requests

-----------------------------------------------------------------------------
RequestCall(caller, id) ==
  \/ \E start, end \in Days : CreateRequest(caller, id, start, end)
  \/ UpdateRequest(caller, id)
  \/ DeleteRequest(caller, id)
  \/ ApproveLeaveRequest(caller, id)
  \/ RejectLeaveRequest(caller, id)

BalanceCall(id) ==
  \/ \E employee \in Employees, year \in Years, days \in Allocations :
       CreateBalance(id, employee, year, days)
  \/ UpdateBalance(id)
  \/ DeleteBalance(id)

Next ==
  \/ \E caller \in Employees, id \in RequestIds : RequestCall(caller, id)
  \/ \E id \in BalanceIds : BalanceCall(id)

Spec == Init /\ [][Next]_vars

-----------------------------------------------------------------------------
(* Properties *)

\* Every balance row satisfies remaining_days = allocated_days - used_days,
\* whatever mix of approvals and reallocations wrote it.
BalanceIdentity ==
  \A b \in Rows(balances) :
    balances[b].remaining_days = balances[b].allocated_days - balances[b].used_days

\* No approval and no reallocation leaves a negative amount in a balance
\* (NegativeLeaveBalanceError, InvalidLeaveBalanceError).
BalanceNonNegative == \A b \in Rows(balances) : ValidNonNegative(balances[b])

\* An employee is never on two approved leaves on the same day
\* (OverlappingLeaveRequestError), although pending requests may overlap
\* freely and may be moved in time until they are decided.
NoDoubleBooking ==
  \A r, s \in Rows(requests) :
    r # s /\ IsApproved(requests[r]) /\ IsApproved(requests[s])
      => ~ Overlap(requests[r], requests[s])

\* A stored approver is always the direct manager of the employee the row
\* names now, also when the owner handed the request to a colleague before
\* it was decided; in particular nobody decides a request of their own.
DecidedByManager ==
  \A r \in Rows(requests) :
    requests[r].approved_by # Nobody
      => /\ Manages(requests[r].approved_by, requests[r])
         /\ ~ Owns(requests[r].approved_by, requests[r])

\* ApprovalService is the only path to the approved state: an approved row
\* names its approver and lies within the one year it was charged to.
OnlyApprovalServiceApproves ==
  \A r \in Rows(requests) :
    IsApproved(requests[r])
      => requests[r].approved_by # Nobody /\ WithinOneYear(requests[r])

\* What the invariants above rest on: the dates of a request are in order, and
\* only a decision signs a row.
LedgerInv ==
  /\ TypeOK
  /\ \A r \in Rows(requests) :
       /\ requests[r].start_date <= requests[r].end_date
       /\ requests[r].approved_by # Nobody => requests[r].status \in ApprovalStatus
  /\ BalanceIdentity
  /\ BalanceNonNegative
  /\ DecidedByManager

\* Only pending requests change: a decided row is never edited, decided again
\* or, once approved, deleted.
DecisionsAreFinal ==
  [][\A r \in Rows(requests) :
       requests[r].status # "pending" =>
         \/ requests'[r] = requests[r]
         \/ requests'[r] = NoRow /\ requests[r].status # "approved"]_vars

\* The number of days used on all balances grows in exactly the steps that
\* approve a request, and by exactly the length of that leave, unless an
\* administrator deletes a balance with the days it recorded.
TotalUsed(table) == MapThenSumSet(LAMBDA b : table[b].used_days, Rows(table))
TotalApproved(table) ==
  MapThenSumSet(LAMBDA r : DayCount(table[r]),
                {r \in Rows(table) : IsApproved(table[r])})
ApprovalsAreCharged ==
  [][Rows(balances) \subseteq Rows(balances') =>
       TotalUsed(balances') - TotalUsed(balances)
         = TotalApproved(requests') - TotalApproved(requests)]_vars
=============================================================================
