----------------------------- MODULE LeaveProofs -----------------------------
(***************************************************************************)
(* Proofs about the leave subsystem, for every set of employees, every     *)
(* reporting line, any number of requests and balances and any calendar.   *)
(* First what holds of LeaveLedger, whose calls are atomic; then, of       *)
(* LeaveConcurrent, what holds of the balances however the transactions of *)
(* any number of workers interleave, what may put a request out of order,  *)
(* and that one worker implements LeaveLedger.                             *)
(***************************************************************************)
EXTENDS LeaveConcurrent, FiniteSetTheorems, WellFoundedInduction, TLAPS

\* An edited request is a request, still in date order, with the same approver.
LEMMA EditsAreRequests ==
  ASSUME NEW r \in LeaveRequest, NEW new \in Edits(r)
  PROVE  /\ new \in LeaveRequest
         /\ new.approved_by = r.approved_by
         /\ new.status = r.status \/ new.status \in ClientStatuses
BY DEF Edits, LeaveRequest, Statuses

\* An edited balance is a balance with no negative amount; it keeps the days
\* used, and satisfies the identity if the balance read did.
LEMMA EditsAreBalances ==
  ASSUME NEW b \in LeaveBalance, NEW new \in BalanceEdits(b)
  PROVE  /\ new \in LeaveBalance
         /\ ValidNonNegative(new)
         /\ new.used_days = b.used_days
         /\ b.remaining_days = b.allocated_days - b.used_days
              => new.remaining_days = new.allocated_days - new.used_days
<1>1. \A n \in Allocations : n \in Int
  BY BoundAssumption DEF Allocations
<1>2. new.allocated_days \in Int /\ new.used_days = b.used_days
  BY <1>1 DEF BalanceEdits, LeaveBalance
<1>3. \/ /\ new.allocated_days = b.allocated_days
         /\ new.remaining_days = b.remaining_days
      \/ new.remaining_days = new.allocated_days - new.used_days
  BY DEF BalanceEdits
<1>4. new.remaining_days \in Int /\ b.used_days \in Int
  BY <1>2, <1>3 DEF LeaveBalance
<1>5. new \in LeaveBalance
  BY <1>2, <1>4 DEF BalanceEdits, LeaveBalance
<1>6. ValidNonNegative(new)
  BY DEF BalanceEdits
<1> QED
  BY <1>2, <1>3, <1>5, <1>6

LEMMA DayCountIsInteger ==
  ASSUME NEW r \in LeaveRequest
  PROVE  DayCount(r) \in Int
<1>1. r.start_date \in Days /\ r.end_date \in Days
  BY DEF LeaveRequest
<1>2. r.start_date \in Int /\ r.end_date \in Int
  BY <1>1, CalendarAssumption
<1> QED
  BY <1>2 DEF DayCount

\* A deduction is a balance again and keeps the identity.
LEMMA DeductionsAreBalances ==
  ASSUME NEW b \in LeaveBalance, NEW days \in Int
  PROVE  /\ Deduct(b, days) \in LeaveBalance
         /\ b.remaining_days = b.allocated_days - b.used_days
              => Deduct(b, days).remaining_days
                   = Deduct(b, days).allocated_days - Deduct(b, days).used_days
         /\ ValidNonNegative(b) /\ days >= 0 /\ CanDeduct(b, days)
              => ValidNonNegative(Deduct(b, days))
<1> DEFINE d == Deduct(b, days)
<1>1. b.used_days \in Int /\ b.remaining_days \in Int /\ b.allocated_days \in Int
  BY DEF LeaveBalance
<1>2. b.used_days + days \in Int /\ b.remaining_days - days \in Int
  BY <1>1
<1>3. d \in LeaveBalance
  BY <1>2 DEF LeaveBalance, Deduct
<1>4. /\ d.allocated_days = b.allocated_days
      /\ d.used_days = b.used_days + days
      /\ d.remaining_days = b.remaining_days - days
  BY DEF LeaveBalance, Deduct
<1> HIDE DEF d
<1>5. b.remaining_days = b.allocated_days - b.used_days
        => d.remaining_days = d.allocated_days - d.used_days
  BY <1>1, <1>4
<1>6. ValidNonNegative(b) /\ days >= 0 /\ CanDeduct(b, days) => ValidNonNegative(d)
  BY <1>1, <1>4 DEF ValidNonNegative, CanDeduct
<1> QED
  BY <1>3, <1>5, <1>6 DEF d

-----------------------------------------------------------------------------
LEMMA TypeInit == Init => TypeOK
BY DEF Init, TypeOK

LEMMA TypeStep == TypeOK /\ [Next]_vars => TypeOK'
<1> SUFFICES ASSUME TypeOK, [Next]_vars
             PROVE  TypeOK'
  OBVIOUS
<1> USE DEF TypeOK
<1>1. ASSUME NEW caller \in Employees, NEW id \in RequestIds, NEW start \in Days,
             NEW end \in Days, CreateRequest(caller, id, start, end)
      PROVE  TypeOK'
  BY <1>1 DEF CreateRequest, NewRequest, LeaveRequest, Statuses
<1>2. ASSUME NEW caller \in Employees, NEW id \in RequestIds, UpdateRequest(caller, id)
      PROVE  TypeOK'
  BY <1>2, EditsAreRequests DEF UpdateRequest
<1>3. ASSUME NEW caller \in Employees, NEW id \in RequestIds, DeleteRequest(caller, id)
      PROVE  TypeOK'
  BY <1>3 DEF DeleteRequest
<1>4. ASSUME NEW caller \in Employees, NEW id \in RequestIds, ApproveLeaveRequest(caller, id)
      PROVE  TypeOK'
  <2>1. requests[id] \in LeaveRequest
    BY <1>4 DEF ApproveLeaveRequest, MayDecide
  <2>2. Decided(requests[id], "approved", caller) \in LeaveRequest
    BY <2>1 DEF Decided, LeaveRequest, Statuses, ApprovalStatus
  <2>3. PICK b \in BalanceIds :
          /\ BalancesFor(balances, requests[id]) = {b}
          /\ balances' = [balances EXCEPT ![b] = Deduct(balances[b], DayCount(requests[id]))]
    BY <1>4 DEF ApproveLeaveRequest
  <2>4. balances[b] \in LeaveBalance
    BY <2>3 DEF BalancesFor, Rows
  <2>5. Deduct(balances[b], DayCount(requests[id])) \in LeaveBalance
    <3>1. DayCount(requests[id]) \in Int
      BY <2>1, DayCountIsInteger
    <3> QED
      BY <2>4, <3>1, DeductionsAreBalances
  <2>6. requests' = [requests EXCEPT ![id] = Decided(requests[id], "approved", caller)]
    BY <1>4 DEF ApproveLeaveRequest
  <2>7. requests' \in [RequestIds -> LeaveRequest \cup {NoRow}]
    BY <2>2, <2>6
  <2>8. balances' \in [BalanceIds -> LeaveBalance \cup {NoRow}]
    BY <2>3, <2>5
  <2> QED
    BY <2>7, <2>8
<1>5. ASSUME NEW caller \in Employees, NEW id \in RequestIds, RejectLeaveRequest(caller, id)
      PROVE  TypeOK'
  BY <1>5 DEF RejectLeaveRequest, MayDecide, Decided, LeaveRequest, Statuses, ApprovalStatus
<1>6. ASSUME NEW id \in BalanceIds, NEW employee \in Employees, NEW year \in Years,
             NEW days \in Allocations, CreateBalance(id, employee, year, days)
      PROVE  TypeOK'
  <2>1. days \in Int
    BY BoundAssumption DEF Allocations
  <2> QED
    BY <1>6, <2>1 DEF CreateBalance, NewBalance, LeaveBalance
<1>7. ASSUME NEW id \in BalanceIds, UpdateBalance(id)
      PROVE  TypeOK'
  BY <1>7, EditsAreBalances DEF UpdateBalance
<1>8. ASSUME NEW id \in BalanceIds, DeleteBalance(id)
      PROVE  TypeOK'
  BY <1>8 DEF DeleteBalance
<1>9. CASE UNCHANGED vars
  BY <1>9 DEF vars
<1> QED
  BY <1>1, <1>2, <1>3, <1>4, <1>5, <1>6, <1>7, <1>8, <1>9
     DEF Next, RequestCall, BalanceCall

\* The tables hold requests and balances only, whatever is called.
THEOREM TypeCorrect == Spec => []TypeOK
<1>1. Init => TypeOK
  BY TypeInit
<1>2. TypeOK /\ [Next]_vars => TypeOK'
  BY TypeStep
<1> QED
  BY <1>1, <1>2, PTL DEF Spec

-----------------------------------------------------------------------------
(* What one call can do to one row, whichever call it is. *)

RequestCreated(r) ==
  /\ requests[r] = NoRow
  /\ \E e \in Employees, start, end \in Days :
       start <= end /\ requests'[r] = NewRequest(e, start, end)

RequestEdited(r) ==
  /\ requests[r] # NoRow
  /\ requests[r].status = "pending"
  /\ requests'[r] \in Edits(requests[r])

RequestDeleted(r) ==
  /\ requests[r] # NoRow
  /\ requests[r].status # "approved"
  /\ requests'[r] = NoRow

RequestRejected(r) ==
  \E caller \in Employees :
    /\ MayDecide(caller, r)
    /\ requests'[r] = Decided(requests[r], "rejected", caller)

RequestApproved(r) ==
  \E caller \in Employees :
    /\ MayDecide(caller, r)
    /\ WithinOneYear(requests[r])
    /\ ApprovedOverlaps(requests, r, requests[r]) = {}
    /\ requests' = [requests EXCEPT ![r] = Decided(requests[r], "approved", caller)]

\* Every step leaves a request alone or is one of five things that happen to it.
LEMMA RequestStep ==
  ASSUME TypeOK, [Next]_vars, NEW r \in RequestIds
  PROVE  \/ requests'[r] = requests[r]
         \/ RequestCreated(r) \/ RequestEdited(r) \/ RequestDeleted(r)
         \/ RequestRejected(r) \/ RequestApproved(r)
<1> DEFINE Goal == \/ requests'[r] = requests[r]
                   \/ RequestCreated(r) \/ RequestEdited(r) \/ RequestDeleted(r)
                   \/ RequestRejected(r) \/ RequestApproved(r)
<1>1. ASSUME NEW caller \in Employees, NEW id \in RequestIds, NEW start \in Days,
             NEW end \in Days, CreateRequest(caller, id, start, end)
      PROVE  Goal
  BY <1>1 DEF CreateRequest, RequestCreated, TypeOK
<1>2. ASSUME NEW caller \in Employees, NEW id \in RequestIds, UpdateRequest(caller, id)
      PROVE  Goal
  BY <1>2 DEF UpdateRequest, RequestEdited, TypeOK
<1>3. ASSUME NEW caller \in Employees, NEW id \in RequestIds, DeleteRequest(caller, id)
      PROVE  Goal
  BY <1>3 DEF DeleteRequest, RequestDeleted, TypeOK
<1>4. ASSUME NEW caller \in Employees, NEW id \in RequestIds, ApproveLeaveRequest(caller, id)
      PROVE  Goal
  <2>1. requests' = [requests EXCEPT ![id] = Decided(requests[id], "approved", caller)]
    BY <1>4 DEF ApproveLeaveRequest
  <2>2. CASE id = r
    BY <1>4, <2>1, <2>2 DEF ApproveLeaveRequest, RequestApproved
  <2>3. CASE id # r
    BY <2>1, <2>3 DEF TypeOK
  <2> QED
    BY <2>2, <2>3
<1>5. ASSUME NEW caller \in Employees, NEW id \in RequestIds, RejectLeaveRequest(caller, id)
      PROVE  Goal
  BY <1>5 DEF RejectLeaveRequest, RequestRejected, TypeOK
<1>6. ASSUME NEW id \in BalanceIds, BalanceCall(id)
      PROVE  Goal
  BY <1>6 DEF BalanceCall, CreateBalance, UpdateBalance, DeleteBalance
<1>7. CASE UNCHANGED vars
  BY <1>7 DEF vars
<1> QED
  BY <1>1, <1>2, <1>3, <1>4, <1>5, <1>6, <1>7 DEF Next, RequestCall

\* Once decided a request is never edited, decided again or, once approved,
\* deleted: the order of two calls on it cannot undo the first.
THEOREM DecisionsStand == Spec => DecisionsAreFinal
<1> DEFINE Stands ==
      \A r \in Rows(requests) :
        requests[r].status # "pending" =>
          \/ requests'[r] = requests[r]
          \/ requests'[r] = NoRow /\ requests[r].status # "approved"
<1>1. TypeOK /\ [Next]_vars => [Stands]_vars
  <2> SUFFICES ASSUME TypeOK, [Next]_vars, NEW r \in Rows(requests),
                      requests[r].status # "pending"
               PROVE  \/ requests'[r] = requests[r]
                      \/ requests'[r] = NoRow /\ requests[r].status # "approved"
    OBVIOUS
  <2>1. r \in RequestIds /\ requests[r] # NoRow
    BY DEF Rows, TypeOK
  <2> QED
    BY <2>1, RequestStep DEF RequestCreated, RequestEdited, RequestDeleted,
                             RequestRejected, RequestApproved, MayDecide
<1> QED
  BY <1>1, TypeCorrect, PTL DEF Spec, DecisionsAreFinal

-----------------------------------------------------------------------------
(* The balances *)

\* The dates of a request stay in order and only a decision signs it.
LEMMA RequestsStayInOrder ==
  ASSUME LedgerInv, [Next]_vars, NEW r \in Rows(requests')
  PROVE  /\ requests'[r].start_date <= requests'[r].end_date
         /\ requests'[r].approved_by # Nobody => requests'[r].status \in ApprovalStatus
         /\ requests'[r].approved_by # Nobody =>
              /\ Manages(requests'[r].approved_by, requests'[r])
              /\ ~ Owns(requests'[r].approved_by, requests'[r])
<1>1. TypeOK'
  BY TypeStep DEF LedgerInv
<1>2. r \in RequestIds /\ requests'[r] # NoRow
  BY <1>1 DEF Rows, TypeOK
<1>3. CASE requests[r] = NoRow
  <2>1. RequestCreated(r)
    BY <1>2, <1>3, RequestStep DEF LedgerInv, RequestEdited, RequestDeleted,
                                   RequestRejected, RequestApproved, MayDecide
  <2> QED
    BY <2>1 DEF RequestCreated, NewRequest
<1>4. CASE requests[r] # NoRow
  <2>1. /\ r \in Rows(requests)
        /\ requests[r] \in LeaveRequest
    BY <1>2, <1>4 DEF LedgerInv, TypeOK, Rows
  <2>2. /\ requests[r].start_date <= requests[r].end_date
        /\ requests[r].approved_by # Nobody =>
             /\ requests[r].status \in ApprovalStatus
             /\ Manages(requests[r].approved_by, requests[r])
             /\ ~ Owns(requests[r].approved_by, requests[r])
    BY <2>1 DEF LedgerInv, DecidedByManager
  <2>3. CASE requests'[r] = requests[r]
    BY <2>2, <2>3
  <2>4. CASE RequestEdited(r)
    <3>1. /\ requests'[r].start_date <= requests'[r].end_date
          /\ requests'[r].approved_by = requests[r].approved_by
      BY <2>4 DEF RequestEdited, Edits
    <3>2. requests[r].approved_by = Nobody
      BY <2>2, <2>4 DEF RequestEdited, ApprovalStatus
    <3> QED
      BY <3>1, <3>2
  <2>5. ASSUME NEW caller \in Employees, NEW outcome \in ApprovalStatus,
               MayDecide(caller, r), requests'[r] = Decided(requests[r], outcome, caller)
        PROVE  /\ requests'[r].start_date <= requests'[r].end_date
               /\ requests'[r].status \in ApprovalStatus
               /\ Manages(requests'[r].approved_by, requests'[r])
               /\ ~ Owns(requests'[r].approved_by, requests'[r])
    <3>1. /\ requests'[r].start_date = requests[r].start_date
          /\ requests'[r].end_date = requests[r].end_date
          /\ requests'[r].employee_id = requests[r].employee_id
          /\ requests'[r].approved_by = caller
          /\ requests'[r].status = outcome
      BY <2>1, <2>5 DEF Decided, LeaveRequest
    <3>2. requests[r].employee_id \in Employees
      BY <2>1 DEF LeaveRequest
    <3> QED
      BY <2>2, <2>5, <3>1, <3>2, PeopleAssumption DEF MayDecide, Manages, Owns
  <2>6. CASE RequestRejected(r)
    BY <2>5, <2>6 DEF RequestRejected, ApprovalStatus
  <2>7. CASE RequestApproved(r)
    <3>1. PICK caller \in Employees :
            /\ MayDecide(caller, r)
            /\ requests' = [requests EXCEPT ![r] = Decided(requests[r], "approved", caller)]
      BY <2>7 DEF RequestApproved
    <3>2. requests'[r] = Decided(requests[r], "approved", caller)
      BY <1>2, <3>1 DEF LedgerInv, TypeOK
    <3> QED
      BY <2>5, <3>1, <3>2 DEF ApprovalStatus
  <2> QED
    BY <1>2, <1>4, <2>3, <2>4, <2>6, <2>7, RequestStep
       DEF LedgerInv, RequestCreated, RequestDeleted
<1> QED
  BY <1>3, <1>4

\* Every call that writes a balance leaves it consistent and non-negative.
LEMMA BalancesStayConsistent ==
  ASSUME LedgerInv, [Next]_vars, NEW b \in Rows(balances')
  PROVE  /\ balances'[b].remaining_days
              = balances'[b].allocated_days - balances'[b].used_days
         /\ ValidNonNegative(balances'[b])
<1> DEFINE Goal == /\ balances'[b].remaining_days
                        = balances'[b].allocated_days - balances'[b].used_days
                   /\ ValidNonNegative(balances'[b])
<1>1. TypeOK'
  BY TypeStep DEF LedgerInv
<1>2. b \in BalanceIds /\ balances'[b] # NoRow
  BY <1>1 DEF Rows, TypeOK
<1>3. balances[b] # NoRow =>
        /\ balances[b] \in LeaveBalance
        /\ balances[b].remaining_days = balances[b].allocated_days - balances[b].used_days
        /\ ValidNonNegative(balances[b])
  BY <1>2 DEF LedgerInv, TypeOK, Rows, BalanceIdentity, BalanceNonNegative
<1>4. CASE balances'[b] = balances[b]
  BY <1>2, <1>3, <1>4
<1>5. ASSUME NEW caller \in Employees, NEW id \in RequestIds, ApproveLeaveRequest(caller, id)
      PROVE  Goal
  <2>1. PICK c \in BalanceIds :
          /\ BalancesFor(balances, requests[id]) = {c}
          /\ CanDeduct(balances[c], DayCount(requests[id]))
          /\ balances' = [balances EXCEPT ![c] = Deduct(balances[c], DayCount(requests[id]))]
    BY <1>5 DEF ApproveLeaveRequest
  <2>2. CASE c = b
    <3>1. balances[b] # NoRow
      BY <2>1, <2>2 DEF BalancesFor, Rows
    <3>2. /\ requests[id] \in LeaveRequest
          /\ requests[id].start_date <= requests[id].end_date
      BY <1>5 DEF ApproveLeaveRequest, MayDecide, LedgerInv, TypeOK, Rows
    <3>3. /\ requests[id].start_date \in Days
          /\ requests[id].end_date \in Days
      BY <3>2 DEF LeaveRequest
    <3>4. DayCount(requests[id]) \in Int /\ DayCount(requests[id]) >= 0
      <4>1. requests[id].start_date \in Int /\ requests[id].end_date \in Int
        BY <3>3, CalendarAssumption
      <4> QED
        BY <3>2, <4>1 DEF DayCount
    <3>5. balances'[b] = Deduct(balances[b], DayCount(requests[id]))
      BY <1>2, <2>1, <2>2 DEF LedgerInv, TypeOK
    <3> QED
      BY <1>3, <2>1, <2>2, <3>1, <3>4, <3>5, DeductionsAreBalances
  <2>3. CASE c # b
    BY <1>2, <1>4, <2>1, <2>3 DEF LedgerInv, TypeOK
  <2> QED
    BY <2>2, <2>3
<1>6. ASSUME NEW id \in BalanceIds, NEW employee \in Employees, NEW year \in Years,
             NEW days \in Allocations, CreateBalance(id, employee, year, days)
      PROVE  Goal
  <2>1. days \in Int
    BY BoundAssumption DEF Allocations
  <2>2. CASE id = b
    <3>1. balances'[b] = NewBalance(employee, year, days)
      BY <1>2, <1>6, <2>2 DEF CreateBalance, LedgerInv, TypeOK
    <3> QED
      BY <1>6, <2>1, <2>2, <3>1 DEF CreateBalance, NewBalance, ValidNonNegative
  <2>3. CASE id # b
    BY <1>2, <1>4, <1>6, <2>3 DEF CreateBalance, LedgerInv, TypeOK
  <2> QED
    BY <2>2, <2>3
<1>7. ASSUME NEW id \in BalanceIds, UpdateBalance(id)
      PROVE  Goal
  <2>1. PICK new \in BalanceEdits(balances[id]) : balances' = [balances EXCEPT ![id] = new]
    BY <1>7 DEF UpdateBalance
  <2>2. CASE id = b
    <3>1. balances[b] # NoRow /\ balances'[b] = new
      BY <1>2, <1>7, <2>1, <2>2 DEF UpdateBalance, LedgerInv, TypeOK
    <3> QED
      BY <1>3, <2>1, <2>2, <3>1, EditsAreBalances
  <2>3. CASE id # b
    BY <1>2, <1>4, <2>1, <2>3 DEF LedgerInv, TypeOK
  <2> QED
    BY <2>2, <2>3
<1>8. ASSUME NEW id \in BalanceIds, DeleteBalance(id)
      PROVE  Goal
  <2>1. id # b
    BY <1>2, <1>8 DEF DeleteBalance, LedgerInv, TypeOK
  <2> QED
    BY <1>2, <1>4, <1>8, <2>1 DEF DeleteBalance, LedgerInv, TypeOK
<1>9. ASSUME NEW caller \in Employees, NEW id \in RequestIds, RequestCall(caller, id),
             ~ ApproveLeaveRequest(caller, id)
      PROVE  Goal
  BY <1>4, <1>9 DEF RequestCall, CreateRequest, UpdateRequest, DeleteRequest,
                    RejectLeaveRequest
<1>10. CASE UNCHANGED vars
  BY <1>4, <1>10 DEF vars
<1> QED
  BY <1>5, <1>6, <1>7, <1>8, <1>9, <1>10 DEF Next, BalanceCall

\* The inductive invariant.
THEOREM LedgerInvariant == Spec => []LedgerInv
<1>1. Init => LedgerInv
  BY TypeInit DEF Init, LedgerInv, Rows, BalanceIdentity, BalanceNonNegative, DecidedByManager
<1>2. LedgerInv /\ [Next]_vars => LedgerInv'
  <2> SUFFICES ASSUME LedgerInv, [Next]_vars
               PROVE  LedgerInv'
    OBVIOUS
  <2>1. TypeOK'
    BY TypeStep DEF LedgerInv
  <2>2. \A r \in Rows(requests') :
          /\ requests'[r].start_date <= requests'[r].end_date
          /\ requests'[r].approved_by # Nobody => requests'[r].status \in ApprovalStatus
    BY RequestsStayInOrder
  <2>3. DecidedByManager'
    BY RequestsStayInOrder DEF DecidedByManager
  <2>4. BalanceIdentity' /\ BalanceNonNegative'
    BY BalancesStayConsistent DEF BalanceIdentity, BalanceNonNegative
  <2> QED
    BY <2>1, <2>2, <2>3, <2>4 DEF LedgerInv
<1> QED
  BY <1>1, <1>2, PTL DEF Spec

\* remaining_days = allocated_days - used_days and nothing is negative, for
\* any sequence of approvals, reallocations and moves of balances.
THEOREM BalancesConsistent == Spec => [](BalanceIdentity /\ BalanceNonNegative)
<1>1. LedgerInv => BalanceIdentity /\ BalanceNonNegative
  BY DEF LedgerInv
<1> QED
  BY <1>1, LedgerInvariant, PTL

\* Whoever signed a request is the manager of the employee it is for.
THEOREM ManagersDecide == Spec => []DecidedByManager
<1>1. LedgerInv => DecidedByManager
  BY DEF LedgerInv
<1> QED
  BY <1>1, LedgerInvariant, PTL

-----------------------------------------------------------------------------
(* Approved leaves, when no client writes the approved status itself *)

\* A row that is approved after a step was approved before or is approved by it.
LEMMA ApprovedStep ==
  ASSUME "approved" \notin ClientStatuses, LedgerInv, [Next]_vars,
         NEW r \in RequestIds, IsApproved(requests'[r])
  PROVE  \/ IsApproved(requests[r]) /\ requests'[r] = requests[r]
         \/ RequestApproved(r)
<1>1. requests[r] # NoRow => requests[r] \in LeaveRequest
  BY DEF LedgerInv, TypeOK
<1>2. ~ RequestCreated(r)
  <2> SUFFICES ASSUME RequestCreated(r)
               PROVE  FALSE
    OBVIOUS
  <2>1. PICK e, start, end : requests'[r] = NewRequest(e, start, end)
    BY DEF RequestCreated
  <2>2. requests'[r].status = "pending"
    BY <2>1 DEF NewRequest
  <2> QED
    BY <2>2 DEF IsApproved
<1>3. ~ RequestEdited(r)
  BY DEF RequestEdited, Edits, IsApproved
<1>4. ~ RequestDeleted(r)
  BY DEF RequestDeleted, IsApproved
<1>5. ~ RequestRejected(r)
  BY <1>1 DEF RequestRejected, MayDecide, Decided, LeaveRequest, IsApproved
<1> QED
  BY <1>2, <1>3, <1>4, <1>5, RequestStep DEF LedgerInv, IsApproved

\* Approved leaves never overlap, name the manager who approved them and lie
\* in the year they were charged to, provided clients do not send the status.
THEOREM ApprovedLeavesAreSound ==
  "approved" \notin ClientStatuses =>
    (Spec => [](NoDoubleBooking /\ OnlyApprovalServiceApproves))
<1> SUFFICES ASSUME "approved" \notin ClientStatuses
             PROVE  Spec => [](NoDoubleBooking /\ OnlyApprovalServiceApproves)
  OBVIOUS
<1>1. Init => NoDoubleBooking /\ OnlyApprovalServiceApproves
  BY DEF Init, Rows, NoDoubleBooking, OnlyApprovalServiceApproves
<1>2. LedgerInv /\ LedgerInv' /\ NoDoubleBooking /\ OnlyApprovalServiceApproves /\ [Next]_vars
        => (NoDoubleBooking /\ OnlyApprovalServiceApproves)'
  <2> SUFFICES ASSUME LedgerInv, LedgerInv', NoDoubleBooking, OnlyApprovalServiceApproves,
                      [Next]_vars
               PROVE  NoDoubleBooking' /\ OnlyApprovalServiceApproves'
    OBVIOUS
  <2>1. ASSUME NEW r \in RequestIds, RequestApproved(r)
        PROVE  /\ requests[r] \in LeaveRequest
               /\ \A s \in RequestIds : s # r => requests'[s] = requests[s]
               /\ requests'[r].employee_id = requests[r].employee_id
               /\ requests'[r].start_date = requests[r].start_date
               /\ requests'[r].end_date = requests[r].end_date
               /\ requests'[r].approved_by \in Employees
               /\ WithinOneYear(requests[r])
               /\ ApprovedOverlaps(requests, r, requests[r]) = {}
    <3>1. PICK caller \in Employees :
            /\ MayDecide(caller, r)
            /\ WithinOneYear(requests[r])
            /\ ApprovedOverlaps(requests, r, requests[r]) = {}
            /\ requests' = [requests EXCEPT ![r] = Decided(requests[r], "approved", caller)]
      BY <2>1 DEF RequestApproved
    <3>2. requests[r] \in LeaveRequest
      BY <3>1 DEF MayDecide, LedgerInv, TypeOK
    <3>3. requests'[r] = Decided(requests[r], "approved", caller)
      BY <3>1 DEF LedgerInv, TypeOK
    <3> QED
      BY <3>1, <3>2, <3>3 DEF Decided, LeaveRequest, LedgerInv, TypeOK
  <2>2. OnlyApprovalServiceApproves'
    <3> SUFFICES ASSUME NEW r \in Rows(requests'), IsApproved(requests'[r])
                 PROVE  requests'[r].approved_by # Nobody /\ WithinOneYear(requests'[r])
      BY DEF OnlyApprovalServiceApproves
    <3>1. r \in RequestIds
      BY DEF Rows, LedgerInv, TypeOK
    <3>2. CASE IsApproved(requests[r]) /\ requests'[r] = requests[r]
      BY <3>1, <3>2 DEF OnlyApprovalServiceApproves, Rows, IsApproved, LedgerInv, TypeOK
    <3>3. CASE RequestApproved(r)
      BY <2>1, <3>1, <3>3, PeopleAssumption DEF WithinOneYear
    <3> QED
      BY <3>1, <3>2, <3>3, ApprovedStep
  <2>3. NoDoubleBooking'
    <3> SUFFICES ASSUME NEW r \in Rows(requests'), NEW s \in Rows(requests'), r # s,
                        IsApproved(requests'[r]), IsApproved(requests'[s])
                 PROVE  ~ Overlap(requests'[r], requests'[s])
      BY DEF NoDoubleBooking
    <3>1. r \in RequestIds /\ s \in RequestIds
      BY DEF Rows, LedgerInv, TypeOK
    <3>2. CASE requests'[r] = requests[r] /\ requests'[s] = requests[s]
      <4>1. r \in Rows(requests) /\ s \in Rows(requests)
        BY <3>1, <3>2 DEF Rows, IsApproved, LedgerInv, TypeOK
      <4> QED
        BY <3>2, <4>1 DEF NoDoubleBooking
    <3>3. ASSUME NEW a \in RequestIds, NEW b \in RequestIds, a # b,
                 RequestApproved(a), IsApproved(requests'[b])
          PROVE  ~ Overlap(requests'[a], requests'[b]) /\ ~ Overlap(requests'[b], requests'[a])
      <4>1. requests'[b] = requests[b] /\ b \in Rows(requests)
        BY <2>1, <3>3 DEF Rows, IsApproved, LedgerInv, TypeOK
      <4>2. ~ Overlap(requests[a], requests[b])
        BY <2>1, <3>3, <4>1 DEF ApprovedOverlaps
      <4>3. /\ requests[a].start_date \in Int /\ requests[a].end_date \in Int
            /\ requests[b].start_date \in Int /\ requests[b].end_date \in Int
        <5>1. requests[a] \in LeaveRequest /\ requests[b] \in LeaveRequest
          BY <2>1, <3>3, <4>1 DEF LedgerInv, TypeOK, Rows
        <5>2. /\ requests[a].start_date \in Days /\ requests[a].end_date \in Days
              /\ requests[b].start_date \in Days /\ requests[b].end_date \in Days
          BY <5>1 DEF LeaveRequest
        <5> QED
          BY <5>2, CalendarAssumption
      <4>4. /\ requests'[a].employee_id = requests[a].employee_id
            /\ requests'[a].start_date = requests[a].start_date
            /\ requests'[a].end_date = requests[a].end_date
        BY <2>1, <3>3
      <4> QED
        BY <4>1, <4>2, <4>3, <4>4 DEF Overlap
    <3> QED
      BY <3>1, <3>2, <3>3, ApprovedStep
  <2> QED
    BY <2>2, <2>3
<1> QED
  BY <1>1, <1>2, LedgerInvariant, PTL DEF Spec

\* No employee is on two approved leaves on one day, however requests are moved,
\* handed over and decided.
THEOREM NeverDoubleBooked ==
  "approved" \notin ClientStatuses => (Spec => []NoDoubleBooking)
<1>1. NoDoubleBooking /\ OnlyApprovalServiceApproves => NoDoubleBooking
  OBVIOUS
<1> QED
  BY <1>1, ApprovedLeavesAreSound, PTL

\* An approved row names its approver and was charged to the one year it is in.
THEOREM ApprovalsAreSigned ==
  "approved" \notin ClientStatuses => (Spec => []OnlyApprovalServiceApproves)
<1>1. NoDoubleBooking /\ OnlyApprovalServiceApproves => OnlyApprovalServiceApproves
  OBVIOUS
<1> QED
  BY <1>1, ApprovedLeavesAreSound, PTL

-----------------------------------------------------------------------------
(* Sums over finite tables.  Induction over a finite set is by the smallest *)
(* set that would be an exception: see SmallestSet.                         *)
Pick(S) == CHOOSE x \in S : TRUE
Rest(S) == S \ {Pick(S)}

\* sum is the recursive function that sums f over the subsets of S, as MapThenSumSet does.
Sums(f, sum, S) ==
  sum = [s \in SUBSET S |-> IF s = {} THEN 0 ELSE f[Pick(s)] + sum[Rest(s)]]

Sum(f, S) == MapThenSumSet(LAMBDA x : f[x], S)

\* A sum is what that recursive function says of the whole set.
LEMMA SumIsRecursive ==
  ASSUME NEW f, NEW S
  PROVE  Sum(f, S) = (CHOOSE sum : Sums(f, sum, S))[S]
BY DEF Sum, MapThenSumSet, MapThenFoldSet, Sums, Pick, Rest

\* Induction over finite sets: of some of them, one is smallest.
LEMMA SmallestSet ==
  ASSUME NEW F, F # {}, \A s \in F : IsFiniteSet(s)
  PROVE  \E s \in F : \A r \in F : r \subseteq s => r = s
<1> DEFINE T == {Cardinality(s) : s \in F}
<1>1. T \subseteq Nat /\ T # {}
  BY FS_CardinalityType
<1>2. PICK n \in T : \A m \in T : <<m, n>> \notin OpToRel(<, Nat)
  BY <1>1, WFMin, NatLessThanWellFounded
<1>3. \A m \in T : ~(m < n)
  BY <1>1, <1>2 DEF OpToRel
<1>4. PICK s \in F : n = Cardinality(s)
  BY <1>2
<1>5. ASSUME NEW r \in F, r \subseteq s, r # s PROVE FALSE
  <2>1. Cardinality(r) < Cardinality(s)
    BY <1>5, FS_Subset, FS_CardinalityType
  <2> QED
    BY <1>3, <1>4, <2>1
<1> QED
  BY <1>5

\* A set that is not empty has an element to pick, and a smaller rest.
LEMMA RestIsSmaller ==
  ASSUME NEW s, s # {}
  PROVE  Pick(s) \in s /\ Rest(s) \subseteq s /\ Rest(s) # s /\ s = Rest(s) \cup {Pick(s)}
BY DEF Pick, Rest

\* The function is the same on the sets that two such domains share.
LEMMA SumsAgree ==
  ASSUME NEW f, NEW S, IsFiniteSet(S), NEW R \in SUBSET S,
         NEW a, Sums(f, a, S), NEW b, Sums(f, b, R)
  PROVE  \A s \in SUBSET R : a[s] = b[s]
<1> DEFINE F == {s \in SUBSET R : a[s] # b[s]}
<1>1. SUFFICES ASSUME F # {} PROVE FALSE
  OBVIOUS
<1>2. \A s \in F : IsFiniteSet(s)
  BY FS_Subset
<1>3. PICK s \in F : \A r \in F : r \subseteq s => r = s
  <2> HIDE DEF F
  <2> QED
    BY <1>1, <1>2, SmallestSet
<1>4. s \in SUBSET R /\ s \in SUBSET S /\ a[s] # b[s]
  OBVIOUS
<1>5. /\ a[s] = IF s = {} THEN 0 ELSE f[Pick(s)] + a[Rest(s)]
      /\ b[s] = IF s = {} THEN 0 ELSE f[Pick(s)] + b[Rest(s)]
  BY <1>4 DEF Sums
<1>6. s # {}
  BY <1>4, <1>5
<1>7. Rest(s) \in SUBSET R /\ Rest(s) \notin F
  BY <1>3, <1>4, <1>6, RestIsSmaller
<1>8. a[Rest(s)] = b[Rest(s)]
  BY <1>7
<1> QED
  BY <1>4, <1>5, <1>6, <1>8

\* There is such a function for every finite set.
LEMMA SumsExist ==
  ASSUME NEW f, NEW S, IsFiniteSet(S)
  PROVE  \E sum : Sums(f, sum, S)
<1> DEFINE F == {s \in SUBSET S : ~ \E sum : Sums(f, sum, s)}
<1>1. SUFFICES ASSUME F # {} PROVE FALSE
  BY DEF F
<1>2. \A s \in F : IsFiniteSet(s)
  BY FS_Subset
<1>3. PICK s \in F : \A r \in F : r \subseteq s => r = s
  <2> HIDE DEF F
  <2> QED
    BY <1>1, <1>2, SmallestSet
<1>4. s \in SUBSET S /\ IsFiniteSet(s) /\ ~ \E sum : Sums(f, sum, s)
  BY <1>2
<1> DEFINE sumOf(r) == CHOOSE sum : Sums(f, sum, r)
           part(r) == sumOf(r)[r]
<1>5. ASSUME NEW r \in SUBSET s, r # s
      PROVE  Sums(f, sumOf(r), r)
  <2>1. r \in SUBSET S /\ r \notin F
    BY <1>3, <1>4, <1>5
  <2>2. \E sum : Sums(f, sum, r)
    BY <2>1
  <2> QED
    BY <2>2
<1> HIDE DEF sumOf, F
<1>6. ASSUME NEW r \in SUBSET s, r # s
      PROVE  part(r) = IF r = {} THEN 0 ELSE f[Pick(r)] + part(Rest(r))
  <2>1. Sums(f, sumOf(r), r)
    BY <1>5, <1>6
  <2>2. part(r) = IF r = {} THEN 0 ELSE f[Pick(r)] + sumOf(r)[Rest(r)]
    BY <2>1 DEF Sums
  <2>3. ASSUME r # {} PROVE sumOf(r)[Rest(r)] = sumOf(Rest(r))[Rest(r)]
    <3>1. Rest(r) \in SUBSET r /\ Rest(r) \in SUBSET s /\ Rest(r) # s
      BY <1>6, <2>3, RestIsSmaller
    <3>2. Sums(f, sumOf(Rest(r)), Rest(r))
      BY <1>5, <3>1
    <3>3. IsFiniteSet(r)
      BY <1>4, FS_Subset
    <3> QED
      BY <2>1, <3>1, <3>2, <3>3, SumsAgree
  <2> QED
    BY <2>2, <2>3
<1> DEFINE whole == [r \in SUBSET s |-> IF r = {} THEN 0 ELSE f[Pick(r)] + part(Rest(r))]
<1>7. ASSUME NEW r \in SUBSET s, r # {}
      PROVE  whole[Rest(r)] = part(Rest(r))
  <2>1. Rest(r) \in SUBSET s /\ Rest(r) # s
    BY <1>7, RestIsSmaller
  <2> QED
    BY <1>6, <2>1
<1>8. Sums(f, whole, s)
  <2>1. whole = [r \in SUBSET s |-> IF r = {} THEN 0 ELSE f[Pick(r)] + whole[Rest(r)]]
    BY <1>7
  <2> HIDE DEF whole
  <2> QED
    BY <2>1 DEF Sums
<1> QED
  BY <1>4, <1>8

\* A sum is the picked value and the sum of the rest.
LEMMA SumStep ==
  ASSUME NEW f, NEW S, IsFiniteSet(S)
  PROVE  Sum(f, S) = IF S = {} THEN 0 ELSE f[Pick(S)] + Sum(f, Rest(S))
<1> DEFINE sumOf(r) == CHOOSE sum : Sums(f, sum, r)
<1>1. \A r : IsFiniteSet(r) => Sums(f, sumOf(r), r)
  BY SumsExist
<1>2. \A r : Sum(f, r) = sumOf(r)[r]
  BY SumIsRecursive
<1> HIDE DEF sumOf
<1>3. Sums(f, sumOf(S), S)
  BY <1>1
<1>4. sumOf(S)[S] = IF S = {} THEN 0 ELSE f[Pick(S)] + sumOf(S)[Rest(S)]
  BY <1>3 DEF Sums
<1>5. ASSUME S # {} PROVE sumOf(S)[Rest(S)] = sumOf(Rest(S))[Rest(S)]
  <2>1. Rest(S) \in SUBSET S /\ IsFiniteSet(Rest(S))
    BY <1>5, RestIsSmaller, FS_Subset
  <2> QED
    BY <1>1, <1>3, <2>1, SumsAgree
<1> QED
  BY <1>2, <1>4, <1>5

\* A sum of integers is an integer.
LEMMA SumIsInteger ==
  ASSUME NEW f, NEW S, IsFiniteSet(S), \A x \in S : f[x] \in Int
  PROVE  Sum(f, S) \in Int
<1> DEFINE F == {s \in SUBSET S : Sum(f, s) \notin Int}
<1>1. SUFFICES ASSUME F # {} PROVE FALSE
  OBVIOUS
<1>2. \A s \in F : IsFiniteSet(s)
  BY FS_Subset
<1>3. PICK s \in F : \A r \in F : r \subseteq s => r = s
  <2> HIDE DEF F
  <2> QED
    BY <1>1, <1>2, SmallestSet
<1>4. Sum(f, s) = IF s = {} THEN 0 ELSE f[Pick(s)] + Sum(f, Rest(s))
  BY <1>2, SumStep
<1>5. CASE s = {}
  BY <1>4, <1>5
<1>6. CASE s # {}
  <2>1. Pick(s) \in S /\ Rest(s) \in SUBSET S /\ Rest(s) \notin F
    BY <1>3, <1>6, RestIsSmaller
  <2> QED
    BY <1>4, <1>6, <2>1
<1> QED
  BY <1>5, <1>6

\* A sum does not depend on the order in which it is taken.
LEMMA SumWithout ==
  ASSUME NEW f, NEW S, IsFiniteSet(S), \A x \in S : f[x] \in Int, NEW z \in S
  PROVE  Sum(f, S) = f[z] + Sum(f, S \ {z})
<1> DEFINE Wrong(s, x) == Sum(f, s) # f[x] + Sum(f, s \ {x})
           F == {s \in SUBSET S : \E x \in s : Wrong(s, x)}
<1>1. SUFFICES ASSUME F # {} PROVE FALSE
  OBVIOUS
<1>2. \A s \in SUBSET S : IsFiniteSet(s) /\ Sum(f, s) \in Int
  <2> SUFFICES ASSUME NEW s \in SUBSET S PROVE IsFiniteSet(s) /\ Sum(f, s) \in Int
    OBVIOUS
  <2>1. IsFiniteSet(s)
    BY FS_Subset
  <2> QED
    BY <2>1, SumIsInteger
<1>3. PICK s \in F : \A r \in F : r \subseteq s => r = s
  <2>1. \A s \in F : IsFiniteSet(s)
    BY <1>2
  <2> HIDE DEF F
  <2> QED
    BY <1>1, <2>1, SmallestSet
<1>4. PICK x \in s : Wrong(s, x)
  OBVIOUS
<1> DEFINE y == Pick(s)
           r == s \ {y}
           t == s \ {x}
<1>5. s \in SUBSET S /\ s # {} /\ y \in s
  BY <1>4, RestIsSmaller
<1>6. Sum(f, s) = f[y] + Sum(f, r)
  BY <1>2, <1>5, SumStep DEF Rest
<1>7. x # y
  BY <1>4, <1>6
<1>8. ASSUME NEW p \in SUBSET s, p # s, NEW w \in p
      PROVE  Sum(f, p) = f[w] + Sum(f, p \ {w})
  <2>1. p \notin F /\ p \in SUBSET S
    BY <1>3, <1>5, <1>8
  <2> QED
    BY <1>8, <2>1
<1> HIDE DEF F
<1>9. Sum(f, r) = f[x] + Sum(f, r \ {x})
  BY <1>4, <1>5, <1>7, <1>8
<1>10. Sum(f, t) = f[y] + Sum(f, t \ {y})
  BY <1>4, <1>5, <1>7, <1>8
<1>11. r \ {x} = t \ {y}
  OBVIOUS
<1>12. f[x] \in Int /\ f[y] \in Int /\ Sum(f, r \ {x}) \in Int
  <2>1. x \in S /\ y \in S /\ r \ {x} \in SUBSET S
    BY <1>4, <1>5
  <2> QED
    BY <1>2, <2>1
<1>13. Sum(f, s) = f[x] + Sum(f, t)
  <2>1. \A a, b, c \in Int : a + (b + c) = b + (a + c)
    OBVIOUS
  <2>2. f[y] + (f[x] + Sum(f, r \ {x})) = f[x] + (f[y] + Sum(f, r \ {x}))
    BY <1>12, <2>1
  <2>3. Sum(f, s) = f[y] + (f[x] + Sum(f, r \ {x}))
    BY <1>6, <1>9
  <2>4. Sum(f, t) = f[y] + Sum(f, r \ {x})
    BY <1>10, <1>11
  <2> QED
    BY <2>2, <2>3, <2>4
<1> QED
  BY <1>4, <1>13

\* Two functions that agree on a set have the same sum over it.
LEMMA SumSame ==
  ASSUME NEW f, NEW g, NEW S, IsFiniteSet(S), \A x \in S : f[x] = g[x]
  PROVE  Sum(f, S) = Sum(g, S)
<1> DEFINE F == {s \in SUBSET S : Sum(f, s) # Sum(g, s)}
<1>1. SUFFICES ASSUME F # {} PROVE FALSE
  OBVIOUS
<1>2. \A s \in F : IsFiniteSet(s)
  BY FS_Subset
<1>3. PICK s \in F : \A r \in F : r \subseteq s => r = s
  <2> HIDE DEF F
  <2> QED
    BY <1>1, <1>2, SmallestSet
<1>4. /\ Sum(f, s) = IF s = {} THEN 0 ELSE f[Pick(s)] + Sum(f, Rest(s))
      /\ Sum(g, s) = IF s = {} THEN 0 ELSE g[Pick(s)] + Sum(g, Rest(s))
  BY <1>2, SumStep
<1>5. s # {}
  BY <1>4
<1>6. Pick(s) \in S /\ Rest(s) \in SUBSET S /\ Rest(s) \notin F
  BY <1>3, <1>5, RestIsSmaller
<1> QED
  BY <1>4, <1>5, <1>6

\* A sum moves by what is changed at one place, be it a value, an addition or
\* a removal.
LEMMA SumMoves ==
  ASSUME NEW f, NEW R, IsFiniteSet(R), \A y \in R : f[y] \in Int,
         NEW g, NEW Q, IsFiniteSet(Q), \A y \in Q : g[y] \in Int,
         NEW x, R \ {x} = Q \ {x}, \A y \in R \ {x} : f[y] = g[y]
  PROVE  Sum(g, Q) - Sum(f, R)
           = (IF x \in Q THEN g[x] ELSE 0) - (IF x \in R THEN f[x] ELSE 0)
<1>1. Sum(f, R) = (IF x \in R THEN f[x] ELSE 0) + Sum(f, R \ {x})
  <2>1. CASE x \in R
    BY <2>1, SumWithout
  <2>2. CASE x \notin R
    <3>1. R \ {x} = R /\ Sum(f, R) \in Int
      BY <2>2, SumIsInteger
    <3>2. Sum(f, R) = 0 + Sum(f, R)
      BY <3>1
    <3> QED
      BY <2>2, <3>1, <3>2
  <2> QED
    BY <2>1, <2>2
<1>2. Sum(g, Q) = (IF x \in Q THEN g[x] ELSE 0) + Sum(g, Q \ {x})
  <2>1. CASE x \in Q
    BY <2>1, SumWithout
  <2>2. CASE x \notin Q
    <3>1. Q \ {x} = Q /\ Sum(g, Q) \in Int
      BY <2>2, SumIsInteger
    <3>2. Sum(g, Q) = 0 + Sum(g, Q)
      BY <3>1
    <3> QED
      BY <2>2, <3>1, <3>2
  <2> QED
    BY <2>1, <2>2
<1>3. IsFiniteSet(R \ {x}) /\ Sum(f, R \ {x}) \in Int
  <2>1. IsFiniteSet(R \ {x})
    BY FS_Subset
  <2> QED
    BY <2>1, SumIsInteger
<1>4. Sum(g, Q \ {x}) = Sum(f, R \ {x})
  <2>1. Sum(f, R \ {x}) = Sum(g, R \ {x})
    BY <1>3, SumSame
  <2> QED
    BY <2>1
<1> DEFINE fx == IF x \in R THEN f[x] ELSE 0
           gx == IF x \in Q THEN g[x] ELSE 0
<1>5. fx \in Int /\ gx \in Int
  OBVIOUS
<1> HIDE DEF fx, gx
<1>6. Sum(f, R) = fx + Sum(f, R \ {x}) /\ Sum(g, Q) = gx + Sum(f, R \ {x})
  BY <1>1, <1>2, <1>4 DEF fx, gx
<1>7. Sum(g, Q) - Sum(f, R) = gx - fx
  BY <1>3, <1>5, <1>6
<1> QED
  BY <1>7 DEF fx, gx

-----------------------------------------------------------------------------
(* The days used on the balances and the days of the approved leaves *)

Approved(table) == {r \in Rows(table) : IsApproved(table[r])}
UsedDays(table) == [b \in Rows(table) |-> table[b].used_days]
LeaveDays(table) == [r \in Rows(table) |-> DayCount(table[r])]

\* The days used on a table of balances, as a sum of a function.
LEMMA TotalUsedIsSum ==
  ASSUME NEW table
  PROVE  TotalUsed(table) = Sum(UsedDays(table), Rows(table))
<1> DEFINE R == Rows(table)
           Recursive(sum) ==
             sum = [s \in SUBSET R |->
                      IF s = {} THEN 0 ELSE table[Pick(s)].used_days + sum[Rest(s)]]
<1>1. TotalUsed(table) = (CHOOSE sum : Recursive(sum))[R]
  BY DEF TotalUsed, MapThenSumSet, MapThenFoldSet, Pick, Rest
<1>2. ASSUME NEW sum PROVE Recursive(sum) <=> Sums(UsedDays(table), sum, R)
  <2>1. ASSUME NEW s \in SUBSET R, s # {}
        PROVE  UsedDays(table)[Pick(s)] = table[Pick(s)].used_days
    BY <2>1, RestIsSmaller DEF UsedDays
  <2> QED
    BY <2>1 DEF Sums
<1> HIDE DEF Recursive
<1>3. (CHOOSE sum : Recursive(sum)) = (CHOOSE sum : Sums(UsedDays(table), sum, R))
  BY <1>2
<1> QED
  BY <1>1, <1>3, SumIsRecursive

\* The days of the approved leaves of a table, as a sum of a function.
LEMMA TotalApprovedIsSum ==
  ASSUME NEW table
  PROVE  TotalApproved(table) = Sum(LeaveDays(table), Approved(table))
<1> DEFINE R == Approved(table)
           Recursive(sum) ==
             sum = [s \in SUBSET R |->
                      IF s = {} THEN 0 ELSE DayCount(table[Pick(s)]) + sum[Rest(s)]]
<1>1. TotalApproved(table) = (CHOOSE sum : Recursive(sum))[R]
  BY DEF TotalApproved, Approved, MapThenSumSet, MapThenFoldSet, Pick, Rest
<1>2. ASSUME NEW sum PROVE Recursive(sum) <=> Sums(LeaveDays(table), sum, R)
  <2>1. ASSUME NEW s \in SUBSET R, s # {}
        PROVE  LeaveDays(table)[Pick(s)] = DayCount(table[Pick(s)])
    BY <2>1, RestIsSmaller DEF LeaveDays, Approved
  <2> QED
    BY <2>1 DEF Sums
<1> HIDE DEF Recursive
<1>3. (CHOOSE sum : Recursive(sum)) = (CHOOSE sum : Sums(LeaveDays(table), sum, R))
  BY <1>2
<1> QED
  BY <1>1, <1>3, SumIsRecursive

\* What is written to one balance moves the total by what it changes there.
LEMMA UsedMoves ==
  ASSUME NEW old \in [BalanceIds -> LeaveBalance \cup {NoRow}], IsFiniteSet(Rows(old)),
         NEW new \in [BalanceIds -> LeaveBalance \cup {NoRow}], IsFiniteSet(Rows(new)),
         NEW id \in BalanceIds, \A b \in BalanceIds : b # id => new[b] = old[b]
  PROVE  TotalUsed(new) - TotalUsed(old)
           = (IF new[id] # NoRow THEN new[id].used_days ELSE 0)
               - (IF old[id] # NoRow THEN old[id].used_days ELSE 0)
<1>1. \A table \in {old, new} : \A b \in Rows(table) :
        UsedDays(table)[b] \in Int /\ UsedDays(table)[b] = table[b].used_days
  BY DEF UsedDays, Rows, LeaveBalance
<1>2. Rows(old) \ {id} = Rows(new) \ {id}
  BY DEF Rows
<1>3. \A b \in Rows(old) \ {id} : UsedDays(old)[b] = UsedDays(new)[b]
  BY <1>1, <1>2 DEF Rows
<1>4. Sum(UsedDays(new), Rows(new)) - Sum(UsedDays(old), Rows(old))
        = (IF id \in Rows(new) THEN UsedDays(new)[id] ELSE 0)
            - (IF id \in Rows(old) THEN UsedDays(old)[id] ELSE 0)
  BY <1>1, <1>2, <1>3, SumMoves
<1>5. \A table \in {old, new} :
        (IF id \in Rows(table) THEN UsedDays(table)[id] ELSE 0)
          = (IF table[id] # NoRow THEN table[id].used_days ELSE 0)
  BY <1>1 DEF Rows
<1> QED
  BY <1>4, <1>5, TotalUsedIsSum

\* And so for the requests and the days of the approved ones.
LEMMA ApprovedMoves ==
  ASSUME NEW old \in [RequestIds -> LeaveRequest \cup {NoRow}], IsFiniteSet(Rows(old)),
         NEW new \in [RequestIds -> LeaveRequest \cup {NoRow}], IsFiniteSet(Rows(new)),
         NEW id \in RequestIds, \A r \in RequestIds : r # id => new[r] = old[r]
  PROVE  TotalApproved(new) - TotalApproved(old)
           = (IF IsApproved(new[id]) THEN DayCount(new[id]) ELSE 0)
               - (IF IsApproved(old[id]) THEN DayCount(old[id]) ELSE 0)
<1>1. \A table \in {old, new} : \A r \in Approved(table) :
        LeaveDays(table)[r] \in Int /\ LeaveDays(table)[r] = DayCount(table[r])
  BY DayCountIsInteger DEF LeaveDays, Approved, Rows
<1>2. IsFiniteSet(Approved(old)) /\ IsFiniteSet(Approved(new))
  BY FS_Subset DEF Approved
<1>3. Approved(old) \ {id} = Approved(new) \ {id}
  BY DEF Approved, Rows
<1>4. \A r \in Approved(old) \ {id} : LeaveDays(old)[r] = LeaveDays(new)[r]
  <2> SUFFICES ASSUME NEW r \in Approved(old) \ {id}
               PROVE  LeaveDays(old)[r] = LeaveDays(new)[r]
    OBVIOUS
  <2>1. new[r] = old[r]
    BY DEF Approved, Rows
  <2> QED
    BY <1>1, <1>3, <2>1
<1>5. Sum(LeaveDays(new), Approved(new)) - Sum(LeaveDays(old), Approved(old))
        = (IF id \in Approved(new) THEN LeaveDays(new)[id] ELSE 0)
            - (IF id \in Approved(old) THEN LeaveDays(old)[id] ELSE 0)
  BY <1>1, <1>2, <1>3, <1>4, SumMoves
<1>6. \A table \in {old, new} :
        (IF id \in Approved(table) THEN LeaveDays(table)[id] ELSE 0)
          = (IF IsApproved(table[id]) THEN DayCount(table[id]) ELSE 0)
  <2> SUFFICES ASSUME NEW table \in {old, new}
               PROVE  (IF id \in Approved(table) THEN LeaveDays(table)[id] ELSE 0)
                        = (IF IsApproved(table[id]) THEN DayCount(table[id]) ELSE 0)
    OBVIOUS
  <2>1. id \in Approved(table) <=> IsApproved(table[id])
    BY DEF Approved, Rows, IsApproved
  <2> QED
    BY <1>1, <2>1
<1> QED
  BY <1>5, <1>6, TotalApprovedIsSum

\* There are ever only finitely many rows, whatever the ids.
FinitelyMany == IsFiniteSet(Rows(requests)) /\ IsFiniteSet(Rows(balances))

\* A step writes at most one request and at most one balance.
LEMMA OneRowEach ==
  ASSUME TypeOK, [Next]_vars
  PROVE  /\ \E id : \A r \in RequestIds : r # id => requests'[r] = requests[r]
         /\ \E id : \A b \in BalanceIds : b # id => balances'[b] = balances[b]
<1>1. ASSUME NEW caller \in Employees, NEW id \in RequestIds, RequestCall(caller, id)
      PROVE  \A r \in RequestIds : r # id => requests'[r] = requests[r]
  BY <1>1 DEF RequestCall, CreateRequest, UpdateRequest, DeleteRequest, ApproveLeaveRequest,
              RejectLeaveRequest, TypeOK
<1>2. ASSUME NEW caller \in Employees, NEW id \in RequestIds, RequestCall(caller, id)
      PROVE  \E c : \A b \in BalanceIds : b # c => balances'[b] = balances[b]
  BY <1>2 DEF RequestCall, CreateRequest, UpdateRequest, DeleteRequest, ApproveLeaveRequest,
              RejectLeaveRequest, TypeOK
<1>3. ASSUME NEW id \in BalanceIds, BalanceCall(id)
      PROVE  /\ requests' = requests
             /\ \A b \in BalanceIds : b # id => balances'[b] = balances[b]
  BY <1>3 DEF BalanceCall, CreateBalance, UpdateBalance, DeleteBalance, TypeOK
<1>4. CASE UNCHANGED vars
  BY <1>4 DEF vars
<1> QED
  BY <1>1, <1>2, <1>3, <1>4 DEF Next

LEMMA FiniteStep == TypeOK /\ TypeOK' /\ FinitelyMany /\ [Next]_vars => FinitelyMany'
<1> SUFFICES ASSUME TypeOK, TypeOK', FinitelyMany, [Next]_vars
             PROVE  FinitelyMany'
  OBVIOUS
<1>1. PICK id : \A r \in RequestIds : r # id => requests'[r] = requests[r]
  BY OneRowEach
<1>2. PICK b : \A c \in BalanceIds : c # b => balances'[c] = balances[c]
  BY OneRowEach
<1>3. Rows(requests') \subseteq Rows(requests) \cup {id}
  BY <1>1 DEF Rows, TypeOK
<1>4. Rows(balances') \subseteq Rows(balances) \cup {b}
  BY <1>2 DEF Rows, TypeOK
<1>5. IsFiniteSet(Rows(requests) \cup {id}) /\ IsFiniteSet(Rows(balances) \cup {b})
  BY FS_AddElement DEF FinitelyMany
<1> QED
  BY <1>3, <1>4, <1>5, FS_Subset DEF FinitelyMany

\* The days used on all balances grow in exactly the steps that approve a
\* request and by exactly the length of that leave, however many rows there are,
\* until a balance is deleted with the days it recorded.
THEOREM LeavesAreCharged ==
  "approved" \notin ClientStatuses => (Spec => ApprovalsAreCharged)
<1> DEFINE Charged ==
      Rows(balances) \subseteq Rows(balances') =>
        TotalUsed(balances') - TotalUsed(balances)
          = TotalApproved(requests') - TotalApproved(requests)
<1> SUFFICES ASSUME "approved" \notin ClientStatuses
             PROVE  Spec => ApprovalsAreCharged
  OBVIOUS
<1>1. Init => FinitelyMany
  <2> SUFFICES ASSUME Init PROVE FinitelyMany
    OBVIOUS
  <2>1. Rows(requests) = {} /\ Rows(balances) = {}
    BY DEF Init, Rows
  <2> QED
    BY <2>1, FS_EmptySet DEF FinitelyMany
<1>2. LedgerInv /\ LedgerInv' /\ FinitelyMany /\ [Next]_vars => FinitelyMany'
  BY FiniteStep DEF LedgerInv
<1>3. LedgerInv /\ LedgerInv' /\ FinitelyMany /\ FinitelyMany' /\ [Next]_vars => [Charged]_vars
  <2> SUFFICES ASSUME LedgerInv, LedgerInv', FinitelyMany, FinitelyMany', [Next]_vars,
                      Rows(balances) \subseteq Rows(balances'), vars' # vars
               PROVE  TotalUsed(balances') - TotalUsed(balances)
                        = TotalApproved(requests') - TotalApproved(requests)
    OBVIOUS
  <2> DEFINE Goal == TotalUsed(balances') - TotalUsed(balances)
                       = TotalApproved(requests') - TotalApproved(requests)
  <2>1. TypeOK /\ TypeOK'
    BY DEF LedgerInv
  <2>2. TotalUsed(balances) \in Int /\ TotalApproved(requests) \in Int
    <3>1. \A b \in Rows(balances) : UsedDays(balances)[b] \in Int
      BY <2>1 DEF UsedDays, Rows, TypeOK, LeaveBalance
    <3>2. \A r \in Approved(requests) : LeaveDays(requests)[r] \in Int
      BY <2>1, DayCountIsInteger DEF LeaveDays, Approved, Rows, TypeOK
    <3>3. IsFiniteSet(Approved(requests))
      BY FS_Subset DEF Approved, FinitelyMany
    <3> QED
      BY <3>1, <3>2, <3>3, SumIsInteger, TotalUsedIsSum, TotalApprovedIsSum DEF FinitelyMany
  <2>3. ASSUME NEW id \in RequestIds, balances' = balances,
               \A r \in RequestIds : r # id => requests'[r] = requests[r],
               ~ IsApproved(requests[id]), ~ IsApproved(requests'[id])
        PROVE  Goal
    <3>1. TotalApproved(requests') - TotalApproved(requests) = 0 - 0
      BY <2>1, <2>3, ApprovedMoves DEF TypeOK, FinitelyMany
    <3> QED
      BY <2>2, <2>3, <3>1
  <2>4. ASSUME NEW id \in BalanceIds, requests' = requests,
               \A b \in BalanceIds : b # id => balances'[b] = balances[b],
               balances'[id] # NoRow,
               \/ balances[id] = NoRow /\ balances'[id].used_days = 0
               \/ balances[id] # NoRow /\ balances'[id].used_days = balances[id].used_days
        PROVE  Goal
    <3>1. TotalUsed(balances') - TotalUsed(balances)
            = balances'[id].used_days
                - (IF balances[id] # NoRow THEN balances[id].used_days ELSE 0)
      BY <2>1, <2>4, UsedMoves DEF TypeOK, FinitelyMany
    <3>2. balances'[id].used_days \in Int
      BY <2>1, <2>4 DEF TypeOK, LeaveBalance
    <3>3. TotalUsed(balances') - TotalUsed(balances) = 0
      BY <2>4, <3>1, <3>2
    <3> QED
      BY <2>2, <2>4, <3>3
  <2>5. ASSUME NEW caller \in Employees, NEW id \in RequestIds, NEW start \in Days,
               NEW end \in Days, CreateRequest(caller, id, start, end)
        PROVE  Goal
    <3>1. ~ IsApproved(requests[id]) /\ ~ IsApproved(requests'[id])
      BY <2>1, <2>5 DEF CreateRequest, NewRequest, IsApproved, TypeOK
    <3> QED
      BY <2>1, <2>3, <2>5, <3>1 DEF CreateRequest, TypeOK
  <2>6. ASSUME NEW caller \in Employees, NEW id \in RequestIds, UpdateRequest(caller, id)
        PROVE  Goal
    <3>1. ~ IsApproved(requests[id]) /\ ~ IsApproved(requests'[id])
      BY <2>1, <2>6 DEF UpdateRequest, Edits, IsApproved, TypeOK
    <3> QED
      BY <2>1, <2>3, <2>6, <3>1 DEF UpdateRequest, TypeOK
  <2>7. ASSUME NEW caller \in Employees, NEW id \in RequestIds, DeleteRequest(caller, id)
        PROVE  Goal
    <3>1. ~ IsApproved(requests[id]) /\ ~ IsApproved(requests'[id])
      BY <2>1, <2>7 DEF DeleteRequest, IsApproved, TypeOK
    <3> QED
      BY <2>1, <2>3, <2>7, <3>1 DEF DeleteRequest, TypeOK
  <2>8. ASSUME NEW caller \in Employees, NEW id \in RequestIds, RejectLeaveRequest(caller, id)
        PROVE  Goal
    <3>1. ~ IsApproved(requests[id]) /\ ~ IsApproved(requests'[id])
      BY <2>1, <2>8 DEF RejectLeaveRequest, MayDecide, Decided, LeaveRequest, IsApproved, TypeOK
    <3> QED
      BY <2>1, <2>3, <2>8, <3>1 DEF RejectLeaveRequest, TypeOK
  <2>9. ASSUME NEW caller \in Employees, NEW id \in RequestIds, ApproveLeaveRequest(caller, id)
        PROVE  Goal
    <3> DEFINE days == DayCount(requests[id])
    <3>1. PICK b \in BalanceIds :
            /\ BalancesFor(balances, requests[id]) = {b}
            /\ balances' = [balances EXCEPT ![b] = Deduct(balances[b], days)]
      BY <2>9 DEF ApproveLeaveRequest
    <3>2. /\ requests[id] \in LeaveRequest
          /\ ~ IsApproved(requests[id])
          /\ requests' = [requests EXCEPT ![id] = Decided(requests[id], "approved", caller)]
      BY <2>1, <2>9 DEF ApproveLeaveRequest, MayDecide, IsApproved, TypeOK
    <3>3. days \in Int
      BY <3>2, DayCountIsInteger
    <3>4. balances[b] \in LeaveBalance /\ balances[b] # NoRow
      BY <2>1, <3>1 DEF BalancesFor, Rows, TypeOK
    <3>5. /\ balances'[b] = Deduct(balances[b], days)
          /\ balances'[b] # NoRow
      BY <2>1, <3>1, <3>3, <3>4, DeductionsAreBalances, NoRowAssumption DEF TypeOK
    <3>6. balances'[b].used_days = balances[b].used_days + days /\ balances[b].used_days \in Int
      BY <3>4, <3>5 DEF Deduct, LeaveBalance
    <3>7. TotalUsed(balances') - TotalUsed(balances)
            = balances'[b].used_days - balances[b].used_days
      BY <2>1, <3>1, <3>4, <3>5, UsedMoves DEF TypeOK, FinitelyMany
    <3>8. requests'[id] = Decided(requests[id], "approved", caller)
      BY <2>1, <3>2 DEF TypeOK
    <3>9. IsApproved(requests'[id]) /\ DayCount(requests'[id]) = days
      <4>1. /\ requests'[id].status = "approved"
            /\ requests'[id].start_date = requests[id].start_date
            /\ requests'[id].end_date = requests[id].end_date
        BY <3>2, <3>8 DEF Decided, LeaveRequest
      <4>2. requests'[id] # NoRow
        <5>1. Decided(requests[id], "approved", caller) \in LeaveRequest
          BY <3>2 DEF Decided, LeaveRequest, Statuses, ApprovalStatus
        <5> QED
          BY <3>8, <5>1, NoRowAssumption
      <4> QED
        BY <4>1, <4>2 DEF IsApproved, DayCount
    <3>10. TotalApproved(requests') - TotalApproved(requests) = days - 0
      BY <2>1, <3>2, <3>9, ApprovedMoves DEF TypeOK, FinitelyMany
    <3> HIDE DEF days
    <3> QED
      BY <3>3, <3>6, <3>7, <3>10
  <2>10. ASSUME NEW id \in BalanceIds, NEW employee \in Employees, NEW year \in Years,
                NEW days \in Allocations, CreateBalance(id, employee, year, days)
         PROVE  Goal
    <3>1. balances'[id] = NewBalance(employee, year, days)
      BY <2>1, <2>10 DEF CreateBalance, TypeOK
    <3>2. balances'[id] # NoRow
      <4>1. days \in Int
        BY BoundAssumption DEF Allocations
      <4>2. NewBalance(employee, year, days) \in LeaveBalance
        BY <4>1 DEF NewBalance, LeaveBalance
      <4> QED
        BY <3>1, <4>2, NoRowAssumption
    <3> QED
      BY <2>1, <2>4, <2>10, <3>1, <3>2 DEF CreateBalance, NewBalance, TypeOK
  <2>11. ASSUME NEW id \in BalanceIds, UpdateBalance(id)
         PROVE  Goal
    <3>1. PICK new \in BalanceEdits(balances[id]) : balances' = [balances EXCEPT ![id] = new]
      BY <2>11 DEF UpdateBalance
    <3>2. balances[id] \in LeaveBalance /\ balances[id] # NoRow
      BY <2>1, <2>11 DEF UpdateBalance, TypeOK
    <3>3. balances'[id] = new /\ new \in LeaveBalance /\ new.used_days = balances[id].used_days
      BY <2>1, <3>1, <3>2, EditsAreBalances DEF TypeOK
    <3> QED
      BY <2>1, <2>4, <2>11, <3>1, <3>2, <3>3, NoRowAssumption DEF UpdateBalance, TypeOK
  <2>12. ASSUME NEW id \in BalanceIds, DeleteBalance(id)
         PROVE  Goal
    <3>1. id \in Rows(balances) /\ id \notin Rows(balances')
      BY <2>1, <2>12 DEF DeleteBalance, Rows, TypeOK
    <3> QED
      BY <3>1
  <2> QED
    BY <2>5, <2>6, <2>7, <2>8, <2>9, <2>10, <2>11, <2>12 DEF Next, RequestCall, BalanceCall, vars
<1> QED
  BY <1>1, <1>2, <1>3, LedgerInvariant, PTL DEF Spec, ApprovalsAreCharged

-----------------------------------------------------------------------------
(* The transactions *)

(* Rows and the columns of a write *)

RequestColumns == {"employee_id", "start_date", "end_date", "status", "approved_by"}
BalanceColumns ==
  {"employee_id", "period_year", "allocated_days", "used_days", "remaining_days"}

RequestWrite ==
  {<<>>} \cup {Changed(old, new) : old \in LeaveRequest, new \in LeaveRequest}
BalanceWrite ==
  {<<>>} \cup {Changed(old, new) : old \in LeaveBalance, new \in LeaveBalance}

LEMMA RequestDomain == ASSUME NEW r \in LeaveRequest PROVE DOMAIN r = RequestColumns
BY DEF LeaveRequest, RequestColumns

LEMMA BalanceDomain == ASSUME NEW b \in LeaveBalance PROVE DOMAIN b = BalanceColumns
BY DEF LeaveBalance, BalanceColumns

\* The columns of a write are the ones that differ, with their new values.
LEMMA ChangedColumns ==
  ASSUME NEW old, NEW new
  PROVE  /\ DOMAIN Changed(old, new) = {c \in DOMAIN old : old[c] # new[c]}
         /\ \A c \in DOMAIN Changed(old, new) : Changed(old, new)[c] = new[c]
BY DEF Changed

LEMMA RequestWriteTypes ==
  ASSUME NEW columns \in RequestWrite, NEW c \in DOMAIN columns
  PROVE  /\ c = "employee_id" => columns[c] \in Employees
         /\ c \in {"start_date", "end_date"} => columns[c] \in Days
         /\ c = "status" => columns[c] \in Statuses
         /\ c = "approved_by" => columns[c] \in Employees \cup {Nobody}
<1>1. columns # <<>>
  OBVIOUS
<1>2. PICK old \in LeaveRequest, new \in LeaveRequest : columns = Changed(old, new)
  BY <1>1 DEF RequestWrite
<1>3. columns[c] = new[c]
  BY <1>2 DEF Changed
<1> QED
  BY <1>3 DEF LeaveRequest

LEMMA BalanceWriteTypes ==
  ASSUME NEW columns \in BalanceWrite, NEW c \in DOMAIN columns
  PROVE  /\ c = "employee_id" => columns[c] \in Employees
         /\ c = "period_year" => columns[c] \in Years
         /\ c \in {"allocated_days", "used_days", "remaining_days"} => columns[c] \in Int
<1>1. columns # <<>>
  OBVIOUS
<1>2. PICK old \in LeaveBalance, new \in LeaveBalance : columns = Changed(old, new)
  BY <1>1 DEF BalanceWrite
<1>3. columns[c] = new[c]
  BY <1>2 DEF Changed
<1> QED
  BY <1>3 DEF LeaveBalance

\* A row under a write that does not delete it is a row again, column by column
\* the one written or the one found.
LEMMA WrittenRequest ==
  ASSUME NEW t, ~ Deletes(t), NEW row \in LeaveRequest, NEW columns \in RequestWrite
  PROVE  /\ Written(t, row, columns) \in LeaveRequest
         /\ \A c \in RequestColumns :
              Written(t, row, columns)[c]
                = IF c \in DOMAIN columns THEN columns[c] ELSE row[c]
<1> DEFINE W == Written(t, row, columns)
<1>1. W = [c \in RequestColumns |-> IF c \in DOMAIN columns THEN columns[c] ELSE row[c]]
  BY RequestDomain, NoRowAssumption DEF Written
<1> HIDE DEF W
<1>2. \A c \in RequestColumns : W[c] = IF c \in DOMAIN columns THEN columns[c] ELSE row[c]
  BY <1>1
<1>3. /\ row["employee_id"] \in Employees
      /\ row["start_date"] \in Days /\ row["end_date"] \in Days
      /\ row["status"] \in Statuses
      /\ row["approved_by"] \in Employees \cup {Nobody}
  BY DEF LeaveRequest
<1>4. /\ W["employee_id"] \in Employees
      /\ W["start_date"] \in Days /\ W["end_date"] \in Days
      /\ W["status"] \in Statuses
      /\ W["approved_by"] \in Employees \cup {Nobody}
  BY <1>2, <1>3, RequestWriteTypes DEF RequestColumns
<1>5. W = [c \in RequestColumns |-> W[c]]
  BY <1>1
<1>6. W \in LeaveRequest
  BY <1>4, <1>5 DEF LeaveRequest, RequestColumns
<1> QED
  BY <1>2, <1>6 DEF W

LEMMA WrittenBalance ==
  ASSUME NEW t, ~ Deletes(t), NEW row \in LeaveBalance, NEW columns \in BalanceWrite
  PROVE  /\ Written(t, row, columns) \in LeaveBalance
         /\ \A c \in BalanceColumns :
              Written(t, row, columns)[c]
                = IF c \in DOMAIN columns THEN columns[c] ELSE row[c]
<1> DEFINE W == Written(t, row, columns)
<1>1. W = [c \in BalanceColumns |-> IF c \in DOMAIN columns THEN columns[c] ELSE row[c]]
  BY BalanceDomain, NoRowAssumption DEF Written
<1> HIDE DEF W
<1>2. \A c \in BalanceColumns : W[c] = IF c \in DOMAIN columns THEN columns[c] ELSE row[c]
  BY <1>1
<1>3. /\ row["employee_id"] \in Employees /\ row["period_year"] \in Years
      /\ row["allocated_days"] \in Int /\ row["used_days"] \in Int
      /\ row["remaining_days"] \in Int
  BY DEF LeaveBalance
<1>4. /\ W["employee_id"] \in Employees /\ W["period_year"] \in Years
      /\ W["allocated_days"] \in Int /\ W["used_days"] \in Int
      /\ W["remaining_days"] \in Int
  BY <1>2, <1>3, BalanceWriteTypes DEF BalanceColumns
<1>5. W = [c \in BalanceColumns |-> W[c]]
  BY <1>1
<1>6. W \in LeaveBalance
  BY <1>4, <1>5 DEF LeaveBalance, BalanceColumns
<1> QED
  BY <1>2, <1>6 DEF W

\* Nothing is left of a row that was gone or is deleted.
LEMMA WrittenNothing ==
  ASSUME NEW t, NEW row, NEW columns, Deletes(t) \/ row = NoRow
  PROVE  Written(t, row, columns) = NoRow
BY DEF Written

-----------------------------------------------------------------------------
(* What a transaction carries, whatever the others do *)

Calls == {"none", "approve", "reject", "edit", "delete", "edit_balance", "delete_balance"}

Txn ==
  [ at : Points, call : Calls,
    request : RequestIds \cup {NoRow}, loaded : LeaveRequest \cup {NoRow},
    onRequest : RequestWrite,
    balance : BalanceIds \cup {NoRow}, onBalance : BalanceWrite ]

\* A date as an edit wants it: the one it writes or the one it read.
Wanted(t, date) == IF date \in DOMAIN t.onRequest THEN t.onRequest[date] ELSE t.loaded[date]

\* Only an approval reads balances, and for a request it has loaded; only an edit
\* writes dates, and wants them in order; what is written of the allocation and
\* of the remaining days is not negative.
SoundTxn(t) ==
  /\ t \in Txn
  /\ t.at \in {"find_overlapping", "read_balances"} => t.call = "approve"
  /\ t.call \in {"approve", "edit"} => t.loaded \in LeaveRequest
  /\ t.call # "edit" => {"start_date", "end_date"} \cap DOMAIN t.onRequest = {}
  /\ t.call = "edit" => Wanted(t, "start_date") <= Wanted(t, "end_date")
  /\ \A c \in {"allocated_days", "remaining_days"} :
       c \in DOMAIN t.onBalance => t.onBalance[c] >= 0

ConcurrentIInv ==
  /\ TypeOK
  /\ txn \in [Workers -> Txn]
  /\ \A w \in Workers : SoundTxn(txn[w])
  /\ NothingOverdrawn

LEMMA NoColumns == DOMAIN <<>> = {}
OBVIOUS

LEMMA IdleIsSound == SoundTxn(IdleTxn)
<1>1. IdleTxn \in Txn
  BY DEF IdleTxn, Txn, Points, Calls, RequestWrite, BalanceWrite
<1> QED
  BY <1>1, NoColumns DEF SoundTxn, IdleTxn

LEMMA TxnStep ==
  ASSUME txn \in [Workers -> Txn], \A v \in Workers : SoundTxn(txn[v]),
         NEW w \in Workers, NEW t, SoundTxn(t), txn' = [txn EXCEPT ![w] = t]
  PROVE  txn' \in [Workers -> Txn] /\ \A v \in Workers : SoundTxn(txn'[v])
<1>1. t \in Txn
  BY DEF SoundTxn
<1>2. \A v \in Workers : txn'[v] = IF v = w THEN t ELSE txn[v]
  OBVIOUS
<1> QED
  BY <1>1, <1>2

LEMMA MovedIsSound ==
  ASSUME NEW t, SoundTxn(t), NEW point \in Points,
         point \in {"find_overlapping", "read_balances"} => t.call = "approve"
  PROVE  SoundTxn([t EXCEPT !.at = point])
<1> DEFINE u == [t EXCEPT !.at = point]
<1>1. t \in Txn
  BY DEF SoundTxn
<1>2. /\ u \in Txn
      /\ u.at = point /\ u.call = t.call /\ u.loaded = t.loaded
      /\ u.onRequest = t.onRequest /\ u.onBalance = t.onBalance
  BY <1>1 DEF Txn
<1> HIDE DEF u
<1> QED
  BY <1>2 DEF SoundTxn, Wanted, u

LEMMA GoToIsSound ==
  ASSUME ConcurrentIInv, NEW w \in Workers, NEW point \in Points, GoTo(w, point),
         point \in {"find_overlapping", "read_balances"} => txn[w].call = "approve"
  PROVE  txn' \in [Workers -> Txn] /\ \A v \in Workers : SoundTxn(txn'[v])
<1>1. SoundTxn([txn[w] EXCEPT !.at = point])
  BY MovedIsSound DEF ConcurrentIInv
<1>2. txn' = [txn EXCEPT ![w] = [txn[w] EXCEPT !.at = point]]
  BY DEF GoTo, ConcurrentIInv
<1> QED
  BY <1>1, <1>2, TxnStep DEF ConcurrentIInv

LEMMA RollbackIsSound ==
  ASSUME ConcurrentIInv, NEW w \in Workers, Rollback(w)
  PROVE  txn' \in [Workers -> Txn] /\ \A v \in Workers : SoundTxn(txn'[v])
BY IdleIsSound, TxnStep DEF ConcurrentIInv, Rollback

\* A decided request is a request, for the same employee and the same days.
LEMMA DecisionsAreRequests ==
  ASSUME NEW r \in LeaveRequest, NEW caller \in Employees, NEW outcome \in ApprovalStatus
  PROVE  /\ Decided(r, outcome, caller) \in LeaveRequest
         /\ Decided(r, outcome, caller).employee_id = r.employee_id
         /\ Decided(r, outcome, caller).start_date = r.start_date
         /\ Decided(r, outcome, caller).end_date = r.end_date
BY DEF Decided, LeaveRequest, Statuses

LEMMA RequestChanges ==
  ASSUME NEW old \in LeaveRequest, NEW new \in LeaveRequest
  PROVE  /\ Changed(old, new) \in RequestWrite
         /\ "start_date" \in DOMAIN Changed(old, new) <=> old.start_date # new.start_date
         /\ "end_date" \in DOMAIN Changed(old, new) <=> old.end_date # new.end_date
         /\ \A c \in {"start_date", "end_date"} :
              (IF c \in DOMAIN Changed(old, new) THEN Changed(old, new)[c] ELSE old[c]) = new[c]
         /\ \A c \in DOMAIN Changed(old, new) : Changed(old, new)[c] = new[c]
<1>1. Changed(old, new) \in RequestWrite
  BY DEF RequestWrite
<1>2. /\ DOMAIN Changed(old, new) = {c \in RequestColumns : old[c] # new[c]}
      /\ \A c \in DOMAIN Changed(old, new) : Changed(old, new)[c] = new[c]
  BY RequestDomain DEF Changed
<1> QED
  BY <1>1, <1>2 DEF RequestColumns

LEMMA BalanceChanges ==
  ASSUME NEW old \in LeaveBalance, NEW new \in LeaveBalance
  PROVE  /\ Changed(old, new) \in BalanceWrite
         /\ \A c \in DOMAIN Changed(old, new) : Changed(old, new)[c] = new[c]
<1>1. Changed(old, new) \in BalanceWrite
  BY DEF BalanceWrite
<1> QED
  BY <1>1 DEF Changed

\* The transaction a call begins, with the columns it will write.
LEMMA BegunOnRequest ==
  ASSUME ConcurrentIInv, NEW w \in Workers,
         NEW call \in {"approve", "reject", "edit", "delete"}, NEW id \in RequestIds,
         NEW loaded, loaded \in LeaveRequest \/ loaded = NoRow,
         NEW columns \in RequestWrite,
         BeginOnRequest(w, call, id, loaded, columns)
  PROVE  /\ txn' \in [Workers -> Txn]
         /\ \A v \in Workers \ {w} : txn'[v] = txn[v]
         /\ txn'[w].at = "flush_request" /\ txn'[w].call = call
         /\ txn'[w].request = id /\ txn'[w].loaded = loaded
         /\ txn'[w].onRequest = columns
         /\ txn'[w].balance = NoRow /\ txn'[w].onBalance = <<>>
<1> DEFINE t == [IdleTxn EXCEPT !.at = "flush_request", !.call = call, !.request = id,
                                !.loaded = loaded, !.onRequest = columns]
<1>1. IdleTxn \in Txn /\ IdleTxn.balance = NoRow /\ IdleTxn.onBalance = <<>>
  BY IdleIsSound DEF SoundTxn, IdleTxn
<1>2. /\ t \in Txn
      /\ t.at = "flush_request" /\ t.call = call /\ t.request = id
      /\ t.loaded = loaded /\ t.onRequest = columns
      /\ t.balance = NoRow /\ t.onBalance = <<>>
  BY <1>1 DEF Txn, Points, Calls
<1>3. txn' = [txn EXCEPT ![w] = t]
  BY DEF BeginOnRequest
<1> HIDE DEF t
<1> QED
  BY <1>2, <1>3 DEF ConcurrentIInv

LEMMA BegunOnBalance ==
  ASSUME ConcurrentIInv, NEW w \in Workers,
         NEW call \in {"edit_balance", "delete_balance"}, NEW id \in BalanceIds,
         NEW columns \in BalanceWrite,
         BeginOnBalance(w, call, id, columns)
  PROVE  /\ txn' \in [Workers -> Txn]
         /\ \A v \in Workers \ {w} : txn'[v] = txn[v]
         /\ txn'[w].at = "flush_balance" /\ txn'[w].call = call
         /\ txn'[w].request = NoRow /\ txn'[w].onRequest = <<>>
         /\ txn'[w].balance = id /\ txn'[w].onBalance = columns
<1> DEFINE t == [IdleTxn EXCEPT !.at = "flush_balance", !.call = call, !.balance = id,
                                !.onBalance = columns]
<1>1. IdleTxn \in Txn /\ IdleTxn.request = NoRow /\ IdleTxn.onRequest = <<>>
  BY IdleIsSound DEF SoundTxn, IdleTxn
<1>2. /\ t \in Txn
      /\ t.at = "flush_balance" /\ t.call = call
      /\ t.request = NoRow /\ t.onRequest = <<>>
      /\ t.balance = id /\ t.onBalance = columns
  BY <1>1 DEF Txn, Points, Calls
<1>3. txn' = [txn EXCEPT ![w] = t]
  BY DEF BeginOnBalance
<1> HIDE DEF t
<1> QED
  BY <1>2, <1>3 DEF ConcurrentIInv

\* ReadBalances as it goes on: b is the balance that will be charged.
Charge(w, b) ==
  LET new == Deduct(balances[b], DayCount(txn[w].loaded)) IN
  /\ txn[w].at = "read_balances"
  /\ BalancesFor(balances, txn[w].loaded) = {b}
  /\ CanDeduct(balances[b], DayCount(txn[w].loaded))
  /\ txn' = [txn EXCEPT ![w] = [txn[w] EXCEPT
       !.at = "flush_balance", !.balance = b, !.onBalance = Changed(balances[b], new)]]

LEMMA ReadBalancesCharges ==
  ASSUME ConcurrentIInv, NEW w \in Workers, ReadBalances(w)
  PROVE  Rollback(w) \/ \E b \in BalanceIds : balances[b] # NoRow /\ Charge(w, b)
BY DEF ConcurrentIInv, TypeOK, ReadBalances, Charge, BalancesFor, Rows

\* The transaction of an approval once it has read the balance it will charge.
LEMMA ChargedBalance ==
  ASSUME ConcurrentIInv, NEW w \in Workers, NEW b \in BalanceIds, balances[b] # NoRow,
         Charge(w, b)
  PROVE  /\ Deduct(balances[b], DayCount(txn[w].loaded)) \in LeaveBalance
         /\ txn' \in [Workers -> Txn]
         /\ \A v \in Workers \ {w} : txn'[v] = txn[v]
         /\ txn'[w].at = "flush_balance"
         /\ txn'[w].balance = b
         /\ txn'[w].onBalance = Changed(balances[b],
                                        Deduct(balances[b], DayCount(txn[w].loaded)))
         /\ txn'[w].call = txn[w].call /\ txn'[w].request = txn[w].request
         /\ txn'[w].loaded = txn[w].loaded /\ txn'[w].onRequest = txn[w].onRequest
         /\ "allocated_days" \notin DOMAIN txn'[w].onBalance
         /\ \A c \in DOMAIN txn'[w].onBalance :
              /\ c = "remaining_days" => txn'[w].onBalance[c] >= 0
              /\ c = "used_days" => txn'[w].onBalance[c]
                                      = balances[b].used_days + DayCount(txn[w].loaded)
<1> DEFINE days == DayCount(txn[w].loaded)
           new == Deduct(balances[b], days)
           columns == Changed(balances[b], new)
           t == [txn[w] EXCEPT !.at = "flush_balance", !.balance = b, !.onBalance = columns]
<1>1. txn[w] \in Txn /\ txn[w].loaded \in LeaveRequest
  BY DEF ConcurrentIInv, SoundTxn, Charge
<1>2. balances[b] \in LeaveBalance
  BY DEF ConcurrentIInv, TypeOK
<1>3. days \in Int
  BY <1>1, DayCountIsInteger
<1>4. new \in LeaveBalance
  BY <1>2, <1>3, DeductionsAreBalances
<1>5. /\ new.allocated_days = balances[b].allocated_days
      /\ new.remaining_days >= 0
      /\ new.used_days = balances[b].used_days + days
  BY <1>2, <1>3 DEF Deduct, CanDeduct, LeaveBalance, Charge
<1>6. txn' = [txn EXCEPT ![w] = t]
  BY DEF Charge
<1> HIDE DEF new
<1>7. columns \in BalanceWrite /\ \A c \in DOMAIN columns : columns[c] = new[c]
  BY <1>2, <1>4, BalanceChanges
<1>8. DOMAIN columns = {c \in DOMAIN balances[b] : balances[b][c] # new[c]}
  BY DEF Changed
<1>9. /\ "allocated_days" \notin DOMAIN columns
      /\ \A c \in DOMAIN columns :
           /\ c = "remaining_days" => columns[c] >= 0
           /\ c = "used_days" => columns[c] = balances[b].used_days + days
  <2> HIDE DEF columns
  <2> QED
    BY <1>5, <1>7, <1>8
<1>10. /\ t \in Txn
       /\ t.at = "flush_balance" /\ t.balance = b /\ t.onBalance = columns
       /\ t.call = txn[w].call /\ t.request = txn[w].request
       /\ t.loaded = txn[w].loaded /\ t.onRequest = txn[w].onRequest
  <2> HIDE DEF columns
  <2> QED
    BY <1>1, <1>7 DEF Txn, Points
<1> HIDE DEF t, columns, days
<1>11. txn'[w] = t /\ txn' \in [Workers -> Txn] /\ \A v \in Workers \ {w} : txn'[v] = txn[v]
  BY <1>6, <1>10 DEF ConcurrentIInv
<1> USE DEF columns, new, days
<1> QED
  BY <1>4, <1>9, <1>10, <1>11

\* Whatever a worker does next, every transaction stays sound.
LEMMA TxnsStaySound ==
  ASSUME ConcurrentIInv, [ConcurrentNext]_cvars
  PROVE  txn' \in [Workers -> Txn] /\ \A v \in Workers : SoundTxn(txn'[v])
<1> DEFINE Goal == txn' \in [Workers -> Txn] /\ \A v \in Workers : SoundTxn(txn'[v])
<1>1. ASSUME NEW w \in Workers, NEW decision \in {"approve", "reject"},
             NEW outcome \in ApprovalStatus, ReadForDecision(w, decision, outcome)
      PROVE  Goal
  <2>1. PICK caller \in Employees, id \in RequestIds :
          /\ MayDecide(caller, id)
          /\ BeginOnRequest(w, decision, id, requests[id],
                Changed(requests[id], Decided(requests[id], outcome, caller)))
    BY <1>1 DEF ReadForDecision
  <2>2. requests[id] \in LeaveRequest
    BY <2>1 DEF ConcurrentIInv, MayDecide, TypeOK
  <2> DEFINE columns == Changed(requests[id], Decided(requests[id], outcome, caller))
  <2>3. /\ columns \in RequestWrite
        /\ {"start_date", "end_date"} \cap DOMAIN columns = {}
    BY <2>2, DecisionsAreRequests, RequestChanges
  <2> HIDE DEF columns
  <2>4. /\ txn' \in [Workers -> Txn] /\ \A v \in Workers \ {w} : txn'[v] = txn[v]
        /\ txn'[w].at = "flush_request" /\ txn'[w].call = decision
        /\ txn'[w].loaded = requests[id]
        /\ txn'[w].onRequest = columns /\ txn'[w].onBalance = <<>>
    <3>1. BeginOnRequest(w, decision, id, requests[id], columns)
      BY <2>1 DEF columns
    <3>2. columns \in RequestWrite /\ requests[id] \in LeaveRequest
      BY <2>2, <2>3
    <3> QED
      BY <3>1, <3>2, BegunOnRequest
  <2> QED
    BY <2>2, <2>3, <2>4, NoColumns DEF ConcurrentIInv, SoundTxn
<1>2. ASSUME NEW w \in Workers, ReadForEdit(w)
      PROVE  Goal
  <2>1. PICK id \in Rows(requests) : \E new \in Edits(requests[id]) :
          BeginOnRequest(w, "edit", id, requests[id], Changed(requests[id], new))
    BY <1>2 DEF ReadForEdit
  <2>2. id \in RequestIds /\ requests[id] \in LeaveRequest
    BY <2>1 DEF ConcurrentIInv, Rows, TypeOK
  <2> PICK new \in Edits(requests[id]) :
          BeginOnRequest(w, "edit", id, requests[id], Changed(requests[id], new))
    BY <2>1
  <2>3. new \in LeaveRequest /\ new.start_date <= new.end_date
    BY <2>2, EditsAreRequests DEF Edits
  <2> DEFINE columns == Changed(requests[id], new)
  <2>4. /\ columns \in RequestWrite
        /\ \A c \in {"start_date", "end_date"} :
             (IF c \in DOMAIN columns THEN columns[c] ELSE requests[id][c]) = new[c]
    BY <2>2, <2>3, RequestChanges
  <2> HIDE DEF columns
  <2>5. /\ txn' \in [Workers -> Txn] /\ \A v \in Workers \ {w} : txn'[v] = txn[v]
        /\ txn'[w].at = "flush_request" /\ txn'[w].call = "edit"
        /\ txn'[w].loaded = requests[id]
        /\ txn'[w].onRequest = columns /\ txn'[w].onBalance = <<>>
    <3>1. BeginOnRequest(w, "edit", id, requests[id], columns)
      BY DEF columns
    <3>2. id \in RequestIds /\ columns \in RequestWrite /\ requests[id] \in LeaveRequest
      BY <2>2, <2>4
    <3> QED
      BY <3>1, <3>2, BegunOnRequest
  <2>6. Wanted(txn'[w], "start_date") <= Wanted(txn'[w], "end_date")
    BY <2>3, <2>4, <2>5 DEF Wanted
  <2> QED
    BY <2>2, <2>5, <2>6, NoColumns DEF ConcurrentIInv, SoundTxn
<1>3. ASSUME NEW w \in Workers, ReadForDelete(w)
      PROVE  Goal
  <2>1. PICK id \in Rows(requests) : BeginOnRequest(w, "delete", id, NoRow, <<>>)
    BY <1>3 DEF ReadForDelete
  <2>2. id \in RequestIds /\ <<>> \in RequestWrite /\ DOMAIN <<>> = {}
    BY NoColumns DEF ConcurrentIInv, Rows, TypeOK, RequestWrite
  <2>3. /\ txn' \in [Workers -> Txn] /\ \A v \in Workers \ {w} : txn'[v] = txn[v]
        /\ txn'[w].at = "flush_request" /\ txn'[w].call = "delete"
        /\ txn'[w].onRequest = <<>> /\ txn'[w].onBalance = <<>>
    BY <2>1, <2>2, BegunOnRequest
  <2> QED
    BY <2>3, NoColumns DEF ConcurrentIInv, SoundTxn
<1>4. ASSUME NEW w \in Workers, ReadForBalanceEdit(w)
      PROVE  Goal
  <2>1. PICK id \in Rows(balances) : \E new \in BalanceEdits(balances[id]) :
          BeginOnBalance(w, "edit_balance", id, Changed(balances[id], new))
    BY <1>4 DEF ReadForBalanceEdit
  <2>2. id \in BalanceIds /\ balances[id] \in LeaveBalance
    BY <2>1 DEF ConcurrentIInv, Rows, TypeOK
  <2> PICK new \in BalanceEdits(balances[id]) :
          BeginOnBalance(w, "edit_balance", id, Changed(balances[id], new))
    BY <2>1
  <2>3. new \in LeaveBalance /\ new.allocated_days >= 0 /\ new.remaining_days >= 0
    BY <2>2, EditsAreBalances DEF ValidNonNegative
  <2> DEFINE columns == Changed(balances[id], new)
  <2>4. /\ columns \in BalanceWrite
        /\ \A c \in {"allocated_days", "remaining_days"} :
             c \in DOMAIN columns => columns[c] >= 0
    BY <2>2, <2>3, BalanceChanges
  <2> HIDE DEF columns
  <2>5. /\ txn' \in [Workers -> Txn] /\ \A v \in Workers \ {w} : txn'[v] = txn[v]
        /\ txn'[w].at = "flush_balance" /\ txn'[w].call = "edit_balance"
        /\ txn'[w].onRequest = <<>> /\ txn'[w].onBalance = columns
    <3>1. BeginOnBalance(w, "edit_balance", id, columns)
      BY DEF columns
    <3> QED
      BY <2>2, <2>4, <3>1, BegunOnBalance
  <2> QED
    BY <2>4, <2>5, NoColumns DEF ConcurrentIInv, SoundTxn
<1>5. ASSUME NEW w \in Workers, ReadForBalanceDelete(w)
      PROVE  Goal
  <2>1. PICK id \in Rows(balances) : BeginOnBalance(w, "delete_balance", id, <<>>)
    BY <1>5 DEF ReadForBalanceDelete
  <2>2. id \in BalanceIds /\ <<>> \in BalanceWrite /\ DOMAIN <<>> = {}
    BY NoColumns DEF ConcurrentIInv, Rows, TypeOK, BalanceWrite
  <2>3. /\ txn' \in [Workers -> Txn] /\ \A v \in Workers \ {w} : txn'[v] = txn[v]
        /\ txn'[w].at = "flush_balance" /\ txn'[w].call = "delete_balance"
        /\ txn'[w].onRequest = <<>> /\ txn'[w].onBalance = <<>>
    BY <2>1, <2>2, BegunOnBalance
  <2> QED
    BY <2>3, NoColumns DEF ConcurrentIInv, SoundTxn
<1>6. ASSUME NEW w \in Workers, InsertRequest(w) \/ InsertBalance(w)
      PROVE  Goal
  BY <1>6 DEF ConcurrentIInv, InsertRequest, InsertBalance
<1>7. ASSUME NEW w \in Workers, FlushRequest(w)
      PROVE  Goal
  BY <1>7, GoToIsSound, RollbackIsSound DEF FlushRequest, Points
<1>8. ASSUME NEW w \in Workers, FindOverlapping(w)
      PROVE  Goal
  BY <1>8, GoToIsSound, RollbackIsSound DEF ConcurrentIInv, FindOverlapping, Points, SoundTxn
<1>9. ASSUME NEW w \in Workers, ReadBalances(w)
      PROVE  Goal
  <2>1. CASE Rollback(w)
    BY <2>1, RollbackIsSound
  <2>2. ASSUME NEW b \in BalanceIds, balances[b] # NoRow, Charge(w, b)
        PROVE  Goal
    <3>1. /\ txn' \in [Workers -> Txn] /\ \A v \in Workers \ {w} : txn'[v] = txn[v]
          /\ txn'[w].at = "flush_balance" /\ txn'[w].call = txn[w].call
          /\ txn'[w].loaded = txn[w].loaded /\ txn'[w].onRequest = txn[w].onRequest
          /\ "allocated_days" \notin DOMAIN txn'[w].onBalance
          /\ "remaining_days" \in DOMAIN txn'[w].onBalance
               => txn'[w].onBalance["remaining_days"] >= 0
      BY <2>2, ChargedBalance
    <3>2. \A c \in {"start_date", "end_date"} : Wanted(txn'[w], c) = Wanted(txn[w], c)
      BY <3>1 DEF Wanted
    <3> QED
      BY <3>1, <3>2 DEF ConcurrentIInv, SoundTxn
  <2> QED
    BY <1>9, <2>1, <2>2, ReadBalancesCharges
<1>10. ASSUME NEW w \in Workers, FlushBalance(w)
       PROVE  Goal
  BY <1>10, GoToIsSound, RollbackIsSound DEF FlushBalance, Points
<1>11. ASSUME NEW w \in Workers, Commit(w) \/ Abort(w)
       PROVE  Goal
  BY <1>11, RollbackIsSound DEF Commit, Abort
<1>12. CASE UNCHANGED cvars
  BY <1>12 DEF ConcurrentIInv, cvars
<1> QED
  BY <1>1, <1>2, <1>3, <1>4, <1>5, <1>6, <1>7, <1>8, <1>9, <1>10, <1>11, <1>12
     DEF ConcurrentNext, Begin, Proceed, ReadForApproval, ReadForRejection, ApprovalStatus

-----------------------------------------------------------------------------
(* What one step does to one row *)

LEMMA WritingSteps ==
  ASSUME [ConcurrentNext]_cvars
  PROVE  \/ UNCHANGED <<requests, balances>>
         \/ \E w \in Workers : InsertRequest(w) \/ InsertBalance(w) \/ Commit(w)
BY DEF ConcurrentNext, cvars, Begin, Proceed, Abort, ReadForApproval, ReadForRejection,
       ReadForDecision, ReadForEdit, ReadForDelete, ReadForBalanceEdit,
       ReadForBalanceDelete, BeginOnRequest, BeginOnBalance, FlushRequest,
       FindOverlapping, ReadBalances, FlushBalance

LEMMA RequestRowStep ==
  ASSUME ConcurrentIInv, [ConcurrentNext]_cvars, NEW r \in RequestIds
  PROVE  \/ requests'[r] = requests[r]
         \/ RequestCreated(r)
         \/ \E w \in Workers :
              /\ Commit(w) /\ txn[w].request = r
              /\ requests'[r] = Written(txn[w], requests[r], txn[w].onRequest)
<1> USE DEF ConcurrentIInv, TypeOK
<1>1. ASSUME NEW w \in Workers, InsertRequest(w)
      PROVE  requests'[r] = requests[r] \/ RequestCreated(r)
  BY <1>1 DEF InsertRequest, CreateRequest, RequestCreated
<1>2. ASSUME NEW w \in Workers, InsertBalance(w)
      PROVE  requests'[r] = requests[r]
  BY <1>2 DEF InsertBalance, CreateBalance
<1>3. ASSUME NEW w \in Workers, Commit(w)
      PROVE  \/ requests'[r] = requests[r]
             \/ /\ txn[w].request = r
                /\ requests'[r] = Written(txn[w], requests[r], txn[w].onRequest)
  BY <1>3 DEF Commit
<1> QED
  BY <1>1, <1>2, <1>3, WritingSteps

LEMMA BalanceRowStep ==
  ASSUME ConcurrentIInv, [ConcurrentNext]_cvars, NEW b \in BalanceIds
  PROVE  \/ balances'[b] = balances[b]
         \/ balances'[b] \in LeaveBalance /\ ValidNonNegative(balances'[b])
         \/ \E w \in Workers :
              /\ Commit(w) /\ txn[w].balance = b
              /\ balances'[b] = Written(txn[w], balances[b], txn[w].onBalance)
<1> USE DEF ConcurrentIInv, TypeOK
<1>1. ASSUME NEW w \in Workers, InsertRequest(w)
      PROVE  balances'[b] = balances[b]
  BY <1>1 DEF InsertRequest, CreateRequest
<1>2. ASSUME NEW w \in Workers, InsertBalance(w)
      PROVE  \/ balances'[b] = balances[b]
             \/ balances'[b] \in LeaveBalance /\ ValidNonNegative(balances'[b])
  <2>1. PICK id \in BalanceIds, employee \in Employees, year \in Years, days \in Allocations :
          CreateBalance(id, employee, year, days)
    BY <1>2 DEF InsertBalance
  <2>2. NewBalance(employee, year, days) \in LeaveBalance
    BY BoundAssumption DEF NewBalance, LeaveBalance, Allocations
  <2> QED
    BY <2>1, <2>2 DEF CreateBalance
<1>3. ASSUME NEW w \in Workers, Commit(w)
      PROVE  \/ balances'[b] = balances[b]
             \/ /\ txn[w].balance = b
                /\ balances'[b] = Written(txn[w], balances[b], txn[w].onBalance)
  BY <1>3 DEF Commit
<1> QED
  BY <1>1, <1>2, <1>3, WritingSteps

LEMMA TablesStayTyped == ConcurrentIInv /\ [ConcurrentNext]_cvars => TypeOK'
<1> SUFFICES ASSUME ConcurrentIInv, [ConcurrentNext]_cvars
             PROVE  TypeOK'
  OBVIOUS
<1> USE DEF ConcurrentIInv, TypeOK
<1>1. /\ requests' = [id \in RequestIds |-> requests'[id]]
      /\ balances' = [id \in BalanceIds |-> balances'[id]]
  <2>1. ASSUME NEW w \in Workers, InsertRequest(w) \/ InsertBalance(w) \/ Commit(w)
        PROVE  /\ requests' = [id \in RequestIds |-> requests'[id]]
               /\ balances' = [id \in BalanceIds |-> balances'[id]]
    BY <2>1 DEF InsertRequest, CreateRequest, InsertBalance, CreateBalance, Commit
  <2> QED
    BY <2>1, WritingSteps
<1>2. ASSUME NEW w \in Workers
      PROVE  /\ txn[w].onRequest \in RequestWrite
             /\ txn[w].onBalance \in BalanceWrite
  BY DEF Txn
<1>3. ASSUME NEW r \in RequestIds
      PROVE  requests'[r] \in LeaveRequest \cup {NoRow}
  <2>1. CASE RequestCreated(r)
    BY <2>1 DEF RequestCreated, NewRequest, LeaveRequest, Statuses
  <2>2. ASSUME NEW w \in Workers,
               requests'[r] = Written(txn[w], requests[r], txn[w].onRequest)
        PROVE  requests'[r] \in LeaveRequest \cup {NoRow}
    BY <1>2, <2>2, WrittenRequest, WrittenNothing
  <2> QED
    BY <2>1, <2>2, RequestRowStep
<1>4. ASSUME NEW b \in BalanceIds
      PROVE  balances'[b] \in LeaveBalance \cup {NoRow}
  <2>1. ASSUME NEW w \in Workers,
               balances'[b] = Written(txn[w], balances[b], txn[w].onBalance)
        PROVE  balances'[b] \in LeaveBalance \cup {NoRow}
    BY <1>2, <2>1, WrittenBalance, WrittenNothing
  <2> QED
    BY <2>1, BalanceRowStep
<1> QED
  BY <1>1, <1>3, <1>4

\* The allocation and the remaining days of a row are ones that some writer
\* checked, although the two may come from different writers.
LEMMA NothingGetsOverdrawn == ConcurrentIInv /\ [ConcurrentNext]_cvars => NothingOverdrawn'
<1> SUFFICES ASSUME ConcurrentIInv, [ConcurrentNext]_cvars, NEW b \in Rows(balances')
             PROVE  balances'[b].allocated_days >= 0 /\ balances'[b].remaining_days >= 0
  BY DEF NothingOverdrawn
<1>1. b \in BalanceIds /\ balances'[b] # NoRow
  BY TablesStayTyped DEF Rows, TypeOK
<1>2. balances[b] # NoRow =>
        /\ balances[b] \in LeaveBalance
        /\ balances[b].allocated_days >= 0 /\ balances[b].remaining_days >= 0
  BY <1>1 DEF ConcurrentIInv, TypeOK, NothingOverdrawn, Rows
<1>3. ASSUME NEW w \in Workers,
             balances'[b] = Written(txn[w], balances[b], txn[w].onBalance)
      PROVE  balances'[b].allocated_days >= 0 /\ balances'[b].remaining_days >= 0
  <2>1. ~ Deletes(txn[w]) /\ balances[b] # NoRow
    BY <1>1, <1>3, WrittenNothing
  <2>2. txn[w].onBalance \in BalanceWrite
    BY DEF ConcurrentIInv, Txn
  <2>3. \A c \in {"allocated_days", "remaining_days"} :
          balances'[b][c] = IF c \in DOMAIN txn[w].onBalance
                            THEN txn[w].onBalance[c] ELSE balances[b][c]
    BY <1>2, <1>3, <2>1, <2>2, WrittenBalance DEF BalanceColumns
  <2>4. \A c \in {"allocated_days", "remaining_days"} :
          c \in DOMAIN txn[w].onBalance => txn[w].onBalance[c] >= 0
    BY DEF ConcurrentIInv, SoundTxn
  <2> QED
    BY <1>2, <2>1, <2>3, <2>4
<1> QED
  BY <1>1, <1>2, <1>3, BalanceRowStep DEF ValidNonNegative

THEOREM ConcurrentIInvariant == ConcurrentSpec => []ConcurrentIInv
<1>1. ConcurrentInit => ConcurrentIInv
  <2> SUFFICES ASSUME ConcurrentInit
               PROVE  ConcurrentIInv
    OBVIOUS
  <2>1. IdleTxn \in Txn
    BY IdleIsSound DEF SoundTxn
  <2> QED
    BY <2>1, TypeInit, IdleIsSound
       DEF ConcurrentInit, ConcurrentIInv, Init, NothingOverdrawn, Rows
<1>2. ConcurrentIInv /\ [ConcurrentNext]_cvars => ConcurrentIInv'
  BY TxnsStaySound, TablesStayTyped, NothingGetsOverdrawn DEF ConcurrentIInv
<1> QED
  BY <1>1, <1>2, PTL DEF ConcurrentSpec

\* However calls interleave and overwrite each other's writes, no allocation and
\* no remaining amount of a balance is ever negative, for any number of workers.
THEOREM NothingIsOverdrawn == ConcurrentSpec => []ConcurrentInv
<1>1. ConcurrentIInv => ConcurrentInv
  BY DEF ConcurrentIInv, ConcurrentInv, ConcurrentTypeOK, Txn
<1> QED
  BY <1>1, ConcurrentIInvariant, PTL

-----------------------------------------------------------------------------
(* The dates of a request, and the balances while they are in order *)

\* A commit leaves the dates as it found them or makes them as an edit wanted
\* them, unless the edit writes one and the other is no longer the one it read.
LEMMA CommittedDates ==
  ASSUME ConcurrentIInv, [ConcurrentNext]_cvars, NEW r \in Rows(requests')
  PROVE  \/ InOrder(requests'[r])
         \/ r \in Rows(requests) /\ ~ InOrder(requests[r])
         \/ \E w \in Workers : WritesOverMovedDate(w, r)
<1>1. r \in RequestIds /\ requests'[r] # NoRow
  BY TablesStayTyped DEF Rows, TypeOK
<1>2. requests[r] # NoRow => r \in Rows(requests) /\ requests[r] \in LeaveRequest
  BY <1>1 DEF ConcurrentIInv, TypeOK, Rows
<1>3. CASE requests'[r] = requests[r]
  BY <1>1, <1>2, <1>3
<1>4. CASE RequestCreated(r)
  BY <1>4 DEF RequestCreated, NewRequest, InOrder
<1>5. ASSUME NEW w \in Workers, Commit(w), txn[w].request = r,
             requests'[r] = Written(txn[w], requests[r], txn[w].onRequest),
             InOrder(requests[r])
      PROVE  InOrder(requests'[r]) \/ WritesOverMovedDate(w, r)
  <2> DEFINE columns == txn[w].onRequest
  <2>1. ~ Deletes(txn[w]) /\ requests[r] # NoRow
    BY <1>1, <1>5, WrittenNothing
  <2>2. columns \in RequestWrite
    BY DEF ConcurrentIInv, Txn
  <2>3. requests'[r] \in LeaveRequest
        /\ \A c \in {"start_date", "end_date"} :
             requests'[r][c] = IF c \in DOMAIN columns THEN columns[c] ELSE requests[r][c]
    BY <1>2, <1>5, <2>1, <2>2, WrittenRequest DEF RequestColumns
  <2>4. CASE {"start_date", "end_date"} \cap DOMAIN columns = {}
    BY <1>5, <2>3, <2>4 DEF InOrder
  <2>5. CASE {"start_date", "end_date"} \cap DOMAIN columns # {}
    <3>1. /\ txn[w].call = "edit" /\ ~ Deletes(txn[w])
          /\ Wanted(txn[w], "start_date") <= Wanted(txn[w], "end_date")
      BY <2>1, <2>5 DEF ConcurrentIInv, SoundTxn
    <3>2. CASE \A c \in {"start_date", "end_date"} : requests'[r][c] = Wanted(txn[w], c)
      BY <3>1, <3>2 DEF InOrder
    <3>3. CASE ~ \A c \in {"start_date", "end_date"} : requests'[r][c] = Wanted(txn[w], c)
      <4>1. PICK c \in {"start_date", "end_date"} :
              c \notin DOMAIN columns /\ requests[r][c] # txn[w].loaded[c]
        BY <2>3, <3>3 DEF Wanted
      <4>2. CASE c = "start_date"
        <5>1. DOMAIN columns \cap {"start_date", "end_date"} = {"end_date"}
          BY <2>5, <4>1, <4>2
        <5> QED
          BY <1>5, <3>1, <4>1, <4>2, <5>1 DEF WritesOverMovedDate
      <4>3. CASE c = "end_date"
        <5>1. DOMAIN columns \cap {"start_date", "end_date"} = {"start_date"}
          BY <2>5, <4>1, <4>3
        <5> QED
          BY <1>5, <3>1, <4>1, <4>3, <5>1 DEF WritesOverMovedDate
      <4> QED
        BY <4>2, <4>3
    <3> QED
      BY <3>2, <3>3
  <2> QED
    BY <2>4, <2>5
<1>6. ASSUME NEW w \in Workers, Commit(w),
             requests'[r] = Written(txn[w], requests[r], txn[w].onRequest)
      PROVE  requests[r] # NoRow
  BY <1>1, <1>6, WrittenNothing
<1> QED
  BY <1>1, <1>2, <1>3, <1>4, <1>5, <1>6, RequestRowStep

\* While dates are in order: an approval has loaded a leave of at least one day,
\* and no balance holds, or is about to be given, a negative number of used days.
OrderedTxn(t) ==
  /\ t.call = "approve" => InOrder(t.loaded)
  /\ "used_days" \in DOMAIN t.onBalance => t.onBalance["used_days"] >= 0

OrderedInv ==
  /\ \A w \in Workers : OrderedTxn(txn[w])
  /\ \A b \in Rows(balances) : balances[b].used_days >= 0

LEMMA IdleIsOrdered == OrderedTxn(IdleTxn)
BY NoColumns DEF OrderedTxn, IdleTxn

LEMMA RolledBackIsOrdered ==
  ASSUME ConcurrentIInv, OrderedInv, NEW w \in Workers, Rollback(w)
  PROVE  \A v \in Workers : OrderedTxn(txn'[v])
BY IdleIsOrdered DEF ConcurrentIInv, OrderedInv, Rollback

LEMMA MovedOnIsOrdered ==
  ASSUME ConcurrentIInv, OrderedInv, NEW w \in Workers, NEW point \in Points,
         GoTo(w, point)
  PROVE  \A v \in Workers : OrderedTxn(txn'[v])
<1>1. /\ \A v \in Workers \ {w} : txn'[v] = txn[v]
      /\ txn'[w] = [txn[w] EXCEPT !.at = point]
  BY DEF ConcurrentIInv, GoTo
<1>2. /\ txn'[w].call = txn[w].call /\ txn'[w].loaded = txn[w].loaded
      /\ txn'[w].onBalance = txn[w].onBalance
  <2>1. txn[w] \in Txn
    BY DEF ConcurrentIInv
  <2> QED
    BY <1>1, <2>1 DEF Txn
<1> QED
  BY <1>1, <1>2 DEF OrderedInv, OrderedTxn

LEMMA LeavesLastADay ==
  ASSUME NEW r \in LeaveRequest, InOrder(r)
  PROVE  DayCount(r) \in Int /\ DayCount(r) >= 1
<1>1. r.start_date \in Days /\ r.end_date \in Days
  BY DEF LeaveRequest
<1>2. r.start_date \in Int /\ r.end_date \in Int
  BY <1>1, CalendarAssumption
<1> QED
  BY <1>2 DEF DayCount, InOrder

\* A call that begins: its request, if it is an approval, is one in order, and
\* the columns it will write of a balance hold no negative number of used days.
LEMMA BegunIsOrdered ==
  ASSUME ConcurrentIInv, DatesInOrder, OrderedInv, NEW w \in Workers,
         Begin(w)
  PROVE  \A v \in Workers : OrderedTxn(txn'[v])
<1> DEFINE Goal == \A v \in Workers : OrderedTxn(txn'[v])
<1>1. ASSUME NEW decision \in {"approve", "reject"}, NEW outcome \in ApprovalStatus,
             ReadForDecision(w, decision, outcome)
      PROVE  Goal
  <2>1. PICK caller \in Employees, id \in RequestIds :
          /\ MayDecide(caller, id)
          /\ BeginOnRequest(w, decision, id, requests[id],
                Changed(requests[id], Decided(requests[id], outcome, caller)))
    BY <1>1 DEF ReadForDecision
  <2>2. requests[id] \in LeaveRequest /\ InOrder(requests[id])
    BY <2>1 DEF ConcurrentIInv, MayDecide, TypeOK, DatesInOrder, Rows
  <2> DEFINE columns == Changed(requests[id], Decided(requests[id], outcome, caller))
  <2>3. columns \in RequestWrite
    BY <2>2, DecisionsAreRequests, RequestChanges
  <2>4. BeginOnRequest(w, decision, id, requests[id], columns)
    BY <2>1
  <2> HIDE DEF columns
  <2>5. /\ \A v \in Workers \ {w} : txn'[v] = txn[v]
        /\ txn'[w].loaded = requests[id] /\ txn'[w].onBalance = <<>>
    BY <2>2, <2>3, <2>4, BegunOnRequest
  <2> QED
    BY <2>2, <2>5, NoColumns DEF OrderedInv, OrderedTxn
<1>2. ASSUME NEW call \in {"edit", "delete"}, NEW id \in RequestIds,
             NEW loaded \in LeaveRequest \cup {NoRow},
             NEW columns \in RequestWrite, BeginOnRequest(w, call, id, loaded, columns)
      PROVE  Goal
  <2>1. /\ \A v \in Workers \ {w} : txn'[v] = txn[v]
        /\ txn'[w].call = call /\ txn'[w].onBalance = <<>>
    BY <1>2, BegunOnRequest
  <2> QED
    BY <2>1, NoColumns DEF OrderedInv, OrderedTxn
<1>3. ASSUME ReadForEdit(w)
      PROVE  Goal
  <2>1. PICK id \in Rows(requests) : \E new \in Edits(requests[id]) :
          BeginOnRequest(w, "edit", id, requests[id], Changed(requests[id], new))
    BY <1>3 DEF ReadForEdit
  <2>2. id \in RequestIds /\ requests[id] \in LeaveRequest
    BY <2>1 DEF ConcurrentIInv, Rows, TypeOK
  <2> PICK new \in Edits(requests[id]) :
          BeginOnRequest(w, "edit", id, requests[id], Changed(requests[id], new))
    BY <2>1
  <2>3. Changed(requests[id], new) \in RequestWrite
    BY <2>2, EditsAreRequests, RequestChanges
  <2> QED
    BY <1>2, <2>2, <2>3
<1>4. ASSUME ReadForDelete(w)
      PROVE  Goal
  <2>1. PICK id \in Rows(requests) : BeginOnRequest(w, "delete", id, NoRow, <<>>)
    BY <1>4 DEF ReadForDelete
  <2>2. id \in RequestIds /\ <<>> \in RequestWrite
    BY DEF ConcurrentIInv, Rows, TypeOK, RequestWrite
  <2> QED
    BY <1>2, <2>1, <2>2
<1>5. ASSUME NEW call \in {"edit_balance", "delete_balance"}, NEW id \in BalanceIds,
             NEW columns \in BalanceWrite, BeginOnBalance(w, call, id, columns),
             "used_days" \in DOMAIN columns => columns["used_days"] >= 0
      PROVE  Goal
  <2>1. /\ \A v \in Workers \ {w} : txn'[v] = txn[v]
        /\ txn'[w].call = call /\ txn'[w].onBalance = columns
    BY <1>5, BegunOnBalance
  <2> QED
    BY <1>5, <2>1 DEF OrderedInv, OrderedTxn
<1>6. ASSUME ReadForBalanceEdit(w)
      PROVE  Goal
  <2>1. PICK id \in Rows(balances) : \E new \in BalanceEdits(balances[id]) :
          BeginOnBalance(w, "edit_balance", id, Changed(balances[id], new))
    BY <1>6 DEF ReadForBalanceEdit
  <2>2. id \in BalanceIds /\ balances[id] \in LeaveBalance
    BY <2>1 DEF ConcurrentIInv, Rows, TypeOK
  <2> PICK new \in BalanceEdits(balances[id]) :
          BeginOnBalance(w, "edit_balance", id, Changed(balances[id], new))
    BY <2>1
  <2>3. new \in LeaveBalance /\ new.used_days >= 0
    BY <2>2, EditsAreBalances DEF ValidNonNegative
  <2>4. /\ Changed(balances[id], new) \in BalanceWrite
        /\ "used_days" \in DOMAIN Changed(balances[id], new)
             => Changed(balances[id], new)["used_days"] >= 0
    BY <2>2, <2>3, BalanceChanges
  <2> QED
    BY <1>5, <2>2, <2>4
<1>7. ASSUME ReadForBalanceDelete(w)
      PROVE  Goal
  <2>1. PICK id \in Rows(balances) : BeginOnBalance(w, "delete_balance", id, <<>>)
    BY <1>7 DEF ReadForBalanceDelete
  <2>2. id \in BalanceIds /\ <<>> \in BalanceWrite /\ DOMAIN <<>> = {}
    BY NoColumns DEF ConcurrentIInv, Rows, TypeOK, BalanceWrite
  <2> QED
    BY <1>5, <2>1, <2>2
<1>8. ASSUME InsertRequest(w) \/ InsertBalance(w)
      PROVE  Goal
  BY <1>8 DEF InsertRequest, InsertBalance, OrderedInv
<1> QED
  BY <1>1, <1>3, <1>4, <1>6, <1>7, <1>8
     DEF Begin, ReadForApproval, ReadForRejection, ApprovalStatus

LEMMA ProceedIsOrdered ==
  ASSUME ConcurrentIInv, OrderedInv, NEW w \in Workers, Proceed(w) \/ Abort(w)
  PROVE  \A v \in Workers : OrderedTxn(txn'[v])
<1> DEFINE Goal == \A v \in Workers : OrderedTxn(txn'[v])
<1>1. ASSUME NEW b \in BalanceIds, balances[b] # NoRow, Charge(w, b)
      PROVE  Goal
  <2>1. /\ \A v \in Workers \ {w} : txn'[v] = txn[v]
        /\ txn'[w].call = txn[w].call /\ txn'[w].loaded = txn[w].loaded
        /\ "used_days" \in DOMAIN txn'[w].onBalance
             => txn'[w].onBalance["used_days"]
                  = balances[b].used_days + DayCount(txn[w].loaded)
    BY <1>1, ChargedBalance
  <2>2. txn[w].loaded \in LeaveRequest /\ InOrder(txn[w].loaded)
    BY <1>1 DEF Charge, ConcurrentIInv, SoundTxn, OrderedInv, OrderedTxn
  <2>3. balances[b].used_days \in Int /\ balances[b].used_days >= 0
    BY <1>1 DEF ConcurrentIInv, TypeOK, LeaveBalance, OrderedInv, Rows
  <2>4. balances[b].used_days + DayCount(txn[w].loaded) >= 0
    BY <2>2, <2>3, LeavesLastADay
  <2> QED
    BY <2>1, <2>4 DEF OrderedInv, OrderedTxn
<1>2. ASSUME NEW point \in Points, GoTo(w, point)
      PROVE  Goal
  BY <1>2, MovedOnIsOrdered
<1>3. CASE Rollback(w)
  BY <1>3, RolledBackIsOrdered
<1>4. CASE ReadBalances(w)
  BY <1>1, <1>3, <1>4, ReadBalancesCharges
<1>5. CASE FlushRequest(w) \/ FindOverlapping(w) \/ FlushBalance(w)
  <2>1. Rollback(w) \/ \E point \in Points : GoTo(w, point)
    BY <1>5 DEF FlushRequest, FindOverlapping, FlushBalance, Points
  <2> QED
    BY <1>2, <1>3, <2>1
<1>6. CASE Commit(w) \/ Abort(w)
  BY <1>3, <1>6 DEF Commit, Abort
<1> QED
  BY <1>4, <1>5, <1>6 DEF Proceed

\* While dates are in order, the days a balance records are those of leaves of at
\* least a day, whichever approval wrote them last.
LEMMA OrderedStep ==
  ConcurrentIInv /\ DatesInOrder /\ OrderedInv /\ [ConcurrentNext]_cvars => OrderedInv'
<1> SUFFICES ASSUME ConcurrentIInv, DatesInOrder, OrderedInv, [ConcurrentNext]_cvars
             PROVE  OrderedInv'
  OBVIOUS
<1>1. \A w \in Workers : OrderedTxn(txn'[w])
  <2>1. CASE UNCHANGED cvars
    BY <2>1 DEF cvars, OrderedInv
  <2> QED
    BY <2>1, BegunIsOrdered, ProceedIsOrdered DEF ConcurrentNext
<1>2. ASSUME NEW b \in Rows(balances')
      PROVE  balances'[b].used_days >= 0
  <2>1. b \in BalanceIds /\ balances'[b] # NoRow
    BY TablesStayTyped DEF Rows, TypeOK
  <2>2. balances[b] # NoRow =>
          balances[b] \in LeaveBalance /\ balances[b].used_days >= 0
    BY <2>1 DEF ConcurrentIInv, TypeOK, OrderedInv, Rows
  <2>3. ASSUME NEW w \in Workers,
               balances'[b] = Written(txn[w], balances[b], txn[w].onBalance)
        PROVE  balances'[b].used_days >= 0
    <3>1. ~ Deletes(txn[w]) /\ balances[b] # NoRow
      BY <2>1, <2>3, WrittenNothing
    <3>2. txn[w].onBalance \in BalanceWrite
      BY DEF ConcurrentIInv, Txn
    <3>3. balances'[b]["used_days"] =
            IF "used_days" \in DOMAIN txn[w].onBalance
            THEN txn[w].onBalance["used_days"] ELSE balances[b]["used_days"]
      BY <2>2, <2>3, <3>1, <3>2, WrittenBalance DEF BalanceColumns
    <3> QED
      BY <2>2, <3>1, <3>3 DEF OrderedInv, OrderedTxn
  <2> QED
    BY <2>1, <2>2, <2>3, BalanceRowStep DEF ValidNonNegative
<1> QED
  BY <1>1, <1>2 DEF OrderedInv

\* Only an edit that writes one date of a request over a row whose other date is
\* no longer the one it read can put the two out of order, and until one does, no
\* balance is ever negative: for any number of workers, employees, requests,
\* balances and days.
THEOREM OnlyMovedDatesDoHarm == ConcurrentSpec => OnlyMovedDatesHarm
<1> DEFINE KeepsOrder ==
      \A r \in Rows(requests') :
        \/ InOrder(requests'[r])
        \/ r \in Rows(requests) /\ ~ InOrder(requests[r])
        \/ \E w \in Workers : WritesOverMovedDate(w, r)
<1>1. ConcurrentIInv /\ [ConcurrentNext]_cvars => KeepsOrder
  BY CommittedDates
<1>2. ConcurrentInit => OrderedInv
  BY IdleIsOrdered DEF ConcurrentInit, Init, OrderedInv, Rows
<1>3. ConcurrentIInv /\ OrderedInv => BalanceNonNegative
  BY DEF ConcurrentIInv, OrderedInv, NothingOverdrawn, BalanceNonNegative, ValidNonNegative
<1> HIDE DEF KeepsOrder
<1>4. ConcurrentSpec => [][KeepsOrder]_cvars
  BY <1>1, ConcurrentIInvariant, PTL DEF ConcurrentSpec
<1>5. ConcurrentSpec /\ []DatesInOrder => []BalanceNonNegative
  BY <1>2, <1>3, OrderedStep, ConcurrentIInvariant, PTL DEF ConcurrentSpec
<1> USE DEF KeepsOrder
<1> QED
  BY <1>4, <1>5, PTL DEF OnlyMovedDatesHarm

-----------------------------------------------------------------------------
(* One worker: the transactions are the atomic calls of LeaveLedger *)

OneWorker == \A v, w \in Workers : v = w

\* What a lone transaction has checked still holds when it commits.
Decides(t, outcome) ==
  /\ t.request \in RequestIds
  /\ \E caller \in Employees :
       /\ MayDecide(caller, t.request)
       /\ t.onRequest = Changed(requests[t.request],
                                Decided(requests[t.request], outcome, caller))

Books(t) ==
  /\ WithinOneYear(requests[t.request])
  /\ ApprovedOverlaps(requests, t.request, requests[t.request]) = {}

Charges(t) ==
  LET days == DayCount(requests[t.request]) IN
  /\ t.balance \in BalanceIds
  /\ BalancesFor(balances, requests[t.request]) = {t.balance}
  /\ CanDeduct(balances[t.balance], days)
  /\ t.onBalance = Changed(balances[t.balance], Deduct(balances[t.balance], days))

Approving(t) ==
  /\ Decides(t, "approved")
  /\ t.loaded = requests[t.request]
  /\ t.at \in {"read_balances", "flush_balance", "commit"} => Books(t)
  /\ t.at \in {"flush_balance", "commit"} => Charges(t)

Editing(t) ==
  /\ t.request \in Rows(requests)
  /\ \E caller \in Employees : Owns(caller, requests[t.request])
  /\ requests[t.request].status = "pending"
  /\ \E new \in Edits(requests[t.request]) :
       t.onRequest = Changed(requests[t.request], new)

Deleting(t) ==
  /\ t.request \in Rows(requests)
  /\ \E caller \in Employees : Owns(caller, requests[t.request])
  /\ requests[t.request].status # "approved"

EditingBalance(t) ==
  /\ t.balance \in Rows(balances)
  /\ \E new \in BalanceEdits(balances[t.balance]) :
       t.onBalance = Changed(balances[t.balance], new)

Serial(t) ==
  /\ t.at = "idle" <=> t.call = "none"
  /\ t.call = "approve" => Approving(t)
  /\ t.call = "reject" => Decides(t, "rejected")
  /\ t.call = "edit" => Editing(t)
  /\ t.call = "delete" => Deleting(t)
  /\ t.call = "edit_balance" => EditingBalance(t)
  /\ t.call = "delete_balance" => t.balance \in Rows(balances)
  /\ t.call \in {"reject", "edit", "delete"} => t.balance = NoRow
  /\ t.call \in {"edit_balance", "delete_balance"} => t.request = NoRow

SerialInv == \A w \in Workers : Serial(txn[w])

LEMMA IdleIsSerial == Serial(IdleTxn)
BY DEF Serial, IdleTxn

LEMMA RollsBackSerially ==
  ASSUME OneWorker, ConcurrentIInv, NEW w \in Workers, Rollback(w)
  PROVE  SerialInv'
<1>1. \A v \in Workers : txn'[v] = IdleTxn
  BY DEF OneWorker, ConcurrentIInv, Rollback
<1>2. IdleTxn.at = "idle" /\ IdleTxn.call = "none"
  BY DEF IdleTxn
<1> QED
  BY <1>1, <1>2 DEF SerialInv, Serial

\* A transaction that moves on to its next statement changes nothing else.
LEMMA GoesTo ==
  ASSUME ConcurrentIInv, NEW w \in Workers, NEW point \in Points, GoTo(w, point)
  PROVE  /\ txn'[w].at = point
         /\ txn'[w].call = txn[w].call
         /\ txn'[w].request = txn[w].request /\ txn'[w].loaded = txn[w].loaded
         /\ txn'[w].onRequest = txn[w].onRequest
         /\ txn'[w].balance = txn[w].balance
         /\ txn'[w].onBalance = txn[w].onBalance
<1>1. txn[w] \in Txn /\ txn'[w] = [txn[w] EXCEPT !.at = point]
  BY DEF ConcurrentIInv, GoTo
<1> QED
  BY <1>1 DEF Txn

\* A statement that changes no table and nothing but the point keeps what was
\* checked, if an approval has checked what the point asks for.
LEMMA MovesOnSerially ==
  ASSUME OneWorker, ConcurrentIInv, SerialInv, NEW w \in Workers,
         NEW point \in Points \ {"idle"}, ~ Idle(w), GoTo(w, point),
         UNCHANGED <<requests, balances>>,
         txn[w].call = "approve" =>
           /\ point \in {"read_balances", "flush_balance", "commit"} => Books(txn[w])
           /\ point \in {"flush_balance", "commit"} => Charges(txn[w])
  PROVE  SerialInv'
<1> DEFINE t == txn[w]
           u == txn'[w]
<1>1. /\ u.at = point /\ u.call = t.call /\ u.request = t.request
      /\ u.loaded = t.loaded /\ u.onRequest = t.onRequest
      /\ u.balance = t.balance /\ u.onBalance = t.onBalance
  BY GoesTo
<1>2. Serial(t) /\ t.at # "idle"
  BY DEF SerialInv, Idle
<1>3. SUFFICES Serial(txn[w])'
  BY DEF SerialInv, OneWorker
<1>4. t.call = "approve" => Approving(txn[w])'
  BY <1>1, <1>2 DEF Serial, Approving, Decides, Books, Charges, MayDecide
<1>5. t.call = "reject" => Decides(txn[w], "rejected")'
  BY <1>1, <1>2 DEF Serial, Decides, MayDecide
<1>6. /\ t.call = "edit" => Editing(txn[w])'
      /\ t.call = "delete" => Deleting(txn[w])'
      /\ t.call = "edit_balance" => EditingBalance(txn[w])'
      /\ t.call = "delete_balance" => u.balance \in Rows(balances')
  BY <1>1, <1>2 DEF Serial, Editing, Deleting, EditingBalance
<1> QED
  BY <1>1, <1>2, <1>4, <1>5, <1>6 DEF Serial

LEMMA BeginsSerially ==
  ASSUME OneWorker, ConcurrentIInv, SerialInv, NEW w \in Workers, Begin(w)
  PROVE  SerialInv'
<1> SUFFICES Serial(txn[w])'
  BY DEF SerialInv, OneWorker
<1>1. ASSUME NEW decision \in {"approve", "reject"}, NEW outcome \in ApprovalStatus,
             (decision = "approve") = (outcome = "approved"),
             ReadForDecision(w, decision, outcome)
      PROVE  Serial(txn[w])'
  <2>1. PICK caller \in Employees, id \in RequestIds :
          /\ MayDecide(caller, id)
          /\ BeginOnRequest(w, decision, id, requests[id],
                Changed(requests[id], Decided(requests[id], outcome, caller)))
    BY <1>1 DEF ReadForDecision
  <2>2. requests[id] \in LeaveRequest
    BY <2>1 DEF ConcurrentIInv, MayDecide, TypeOK
  <2> DEFINE columns == Changed(requests[id], Decided(requests[id], outcome, caller))
  <2>3. columns \in RequestWrite
    BY <2>2, DecisionsAreRequests, RequestChanges
  <2>4. BeginOnRequest(w, decision, id, requests[id], columns)
    BY <2>1
  <2>5. UNCHANGED <<requests, balances>>
    BY <2>4 DEF BeginOnRequest
  <2> HIDE DEF columns
  <2>6. /\ txn'[w].at = "flush_request" /\ txn'[w].call = decision
        /\ txn'[w].request = id /\ txn'[w].loaded = requests[id]
        /\ txn'[w].onRequest = columns /\ txn'[w].balance = NoRow
    BY <2>2, <2>3, <2>4, BegunOnRequest
  <2>7. MayDecide(caller, id)'
    BY <2>1, <2>5 DEF MayDecide
  <2>8. Decides(txn[w], outcome)'
    BY <2>5, <2>6, <2>7 DEF Decides, columns
  <2>9. \/ decision = "approve" /\ outcome = "approved"
        \/ decision = "reject" /\ outcome = "rejected"
    BY <1>1 DEF ApprovalStatus
  <2> QED
    BY <2>5, <2>6, <2>8, <2>9 DEF Serial, Approving
<1>2. CASE ReadForEdit(w)
  <2>1. PICK caller \in Employees, id \in Rows(requests) :
          /\ Owns(caller, requests[id])
          /\ requests[id].status = "pending"
          /\ \E new \in Edits(requests[id]) :
               BeginOnRequest(w, "edit", id, requests[id], Changed(requests[id], new))
    BY <1>2 DEF ReadForEdit
  <2>2. id \in RequestIds /\ requests[id] \in LeaveRequest
    BY <2>1 DEF ConcurrentIInv, Rows, TypeOK
  <2> PICK new \in Edits(requests[id]) :
          BeginOnRequest(w, "edit", id, requests[id], Changed(requests[id], new))
    BY <2>1
  <2>3. Changed(requests[id], new) \in RequestWrite
    BY <2>2, EditsAreRequests, RequestChanges
  <2>4. /\ txn'[w].at = "flush_request" /\ txn'[w].call = "edit"
        /\ txn'[w].request = id /\ txn'[w].onRequest = Changed(requests[id], new)
        /\ txn'[w].balance = NoRow
    BY <2>2, <2>3, BegunOnRequest
  <2>5. UNCHANGED requests
    BY DEF BeginOnRequest
  <2>6. Editing(txn[w])'
    BY <2>1, <2>4, <2>5 DEF Editing
  <2> QED
    BY <2>4, <2>6 DEF Serial
<1>3. CASE ReadForDelete(w)
  <2>1. PICK caller \in Employees, id \in Rows(requests) :
          /\ Owns(caller, requests[id])
          /\ requests[id].status # "approved"
          /\ BeginOnRequest(w, "delete", id, NoRow, <<>>)
    BY <1>3 DEF ReadForDelete
  <2>2. id \in RequestIds /\ <<>> \in RequestWrite
    BY DEF ConcurrentIInv, Rows, TypeOK, RequestWrite
  <2>3. /\ txn'[w].at = "flush_request" /\ txn'[w].call = "delete"
        /\ txn'[w].request = id /\ txn'[w].balance = NoRow
    BY <2>1, <2>2, BegunOnRequest
  <2>4. UNCHANGED requests
    BY <2>1 DEF BeginOnRequest
  <2>5. Deleting(txn[w])'
    BY <2>1, <2>3, <2>4 DEF Deleting
  <2> QED
    BY <2>3, <2>5 DEF Serial
<1>4. CASE ReadForBalanceEdit(w)
  <2>1. PICK id \in Rows(balances) : \E new \in BalanceEdits(balances[id]) :
          BeginOnBalance(w, "edit_balance", id, Changed(balances[id], new))
    BY <1>4 DEF ReadForBalanceEdit
  <2>2. id \in BalanceIds /\ balances[id] \in LeaveBalance
    BY <2>1 DEF ConcurrentIInv, Rows, TypeOK
  <2> PICK new \in BalanceEdits(balances[id]) :
          BeginOnBalance(w, "edit_balance", id, Changed(balances[id], new))
    BY <2>1
  <2>3. Changed(balances[id], new) \in BalanceWrite
    BY <2>2, EditsAreBalances, BalanceChanges
  <2>4. /\ txn'[w].at = "flush_balance" /\ txn'[w].call = "edit_balance"
        /\ txn'[w].request = NoRow
        /\ txn'[w].balance = id /\ txn'[w].onBalance = Changed(balances[id], new)
    BY <2>2, <2>3, BegunOnBalance
  <2>5. UNCHANGED balances
    BY DEF BeginOnBalance
  <2>6. EditingBalance(txn[w])'
    BY <2>1, <2>4, <2>5 DEF EditingBalance
  <2> QED
    BY <2>4, <2>6 DEF Serial
<1>5. CASE ReadForBalanceDelete(w)
  <2>1. PICK id \in Rows(balances) : BeginOnBalance(w, "delete_balance", id, <<>>)
    BY <1>5 DEF ReadForBalanceDelete
  <2>2. id \in BalanceIds /\ <<>> \in BalanceWrite
    BY DEF ConcurrentIInv, Rows, TypeOK, BalanceWrite
  <2>3. /\ txn'[w].at = "flush_balance" /\ txn'[w].call = "delete_balance"
        /\ txn'[w].request = NoRow /\ txn'[w].balance = id
    BY <2>1, <2>2, BegunOnBalance
  <2>4. UNCHANGED balances
    BY <2>1 DEF BeginOnBalance
  <2> QED
    BY <2>1, <2>3, <2>4 DEF Serial
<1>6. CASE InsertRequest(w) \/ InsertBalance(w)
  <2>1. UNCHANGED txn /\ txn[w].at = "idle" /\ txn[w].call = "none"
    BY <1>6 DEF InsertRequest, InsertBalance, Idle, SerialInv, Serial
  <2> QED
    BY <2>1 DEF Serial
<1> QED
  BY <1>1, <1>2, <1>3, <1>4, <1>5, <1>6
     DEF Begin, ReadForApproval, ReadForRejection, ApprovalStatus

LEMMA ProceedsSerially ==
  ASSUME OneWorker, ConcurrentIInv, SerialInv, NEW w \in Workers, Proceed(w) \/ Abort(w)
  PROVE  SerialInv'
<1> DEFINE t == txn[w]
<1>1. Serial(t) /\ (t.at \in {"find_overlapping", "read_balances"} => t.call = "approve")
  BY DEF SerialInv, ConcurrentIInv, SoundTxn
<1>2. CASE Rollback(w)
  BY <1>2, RollsBackSerially
<1>3. CASE FlushRequest(w)
  <2>1. CASE GoTo(w, IF t.call = "approve" THEN "find_overlapping" ELSE "commit")
    BY <1>3, <2>1, MovesOnSerially DEF FlushRequest, Points, Idle
  <2> QED
    BY <1>2, <1>3, <2>1 DEF FlushRequest
<1>4. CASE FindOverlapping(w)
  <2>1. CASE /\ GoTo(w, "read_balances")
             /\ WithinOneYear(t.loaded)
             /\ ApprovedOverlaps(requests, t.request, t.loaded) = {}
    <3>1. t.at = "find_overlapping" /\ UNCHANGED <<requests, balances>>
      BY <1>4 DEF FindOverlapping
    <3>2. Books(t)
      BY <1>1, <2>1, <3>1 DEF Serial, Approving, Books
    <3> QED
      BY <2>1, <3>1, <3>2, MovesOnSerially DEF Points, Idle
  <2> QED
    BY <1>2, <1>4, <2>1 DEF FindOverlapping
<1>5. CASE ReadBalances(w)
  <2>1. ASSUME NEW b \in BalanceIds, balances[b] # NoRow, Charge(w, b)
        PROVE  SerialInv'
    <3>1. /\ txn'[w].at = "flush_balance"
          /\ txn'[w].balance = b
          /\ txn'[w].onBalance = Changed(balances[b], Deduct(balances[b], DayCount(t.loaded)))
          /\ txn'[w].call = t.call /\ txn'[w].request = t.request
          /\ txn'[w].loaded = t.loaded /\ txn'[w].onRequest = t.onRequest
      BY <2>1, ChargedBalance
    <3>2. t.at = "read_balances" /\ UNCHANGED <<requests, balances>>
      BY <1>5 DEF ReadBalances
    <3>3. t.call = "approve" /\ Approving(t) /\ Books(t)
      BY <1>1, <3>2 DEF Serial, Approving
    <3>4. Charges(txn[w])'
      BY <2>1, <3>1, <3>2, <3>3 DEF Charge, Charges, Approving
    <3>5. Approving(txn[w])'
      BY <3>1, <3>2, <3>3, <3>4 DEF Approving, Decides, Books, MayDecide
    <3> QED
      BY <3>1, <3>3, <3>5 DEF SerialInv, Serial, OneWorker
  <2> QED
    BY <1>2, <1>5, <2>1, ReadBalancesCharges
<1>6. CASE FlushBalance(w)
  <2>1. CASE GoTo(w, "commit")
    BY <1>1, <1>6, <2>1, MovesOnSerially
       DEF FlushBalance, Points, Idle, Serial, Approving
  <2> QED
    BY <1>2, <1>6, <2>1 DEF FlushBalance
<1> QED
  BY <1>2, <1>3, <1>4, <1>5, <1>6 DEF Proceed, Commit, Abort

\* A write of exactly the columns that changed leaves the row as it was meant.
LEMMA RequestAsMeant ==
  ASSUME NEW t, ~ Deletes(t), NEW old \in LeaveRequest, NEW new \in LeaveRequest
  PROVE  Written(t, old, Changed(old, new)) = new
<1>1. DOMAIN old = RequestColumns /\ DOMAIN new = RequestColumns /\ old # NoRow
  BY RequestDomain, NoRowAssumption
<1>2. Written(t, old, Changed(old, new)) = [c \in RequestColumns |-> new[c]]
  BY <1>1 DEF Written, Changed
<1>3. new = [c \in RequestColumns |-> new[c]]
  BY DEF LeaveRequest, RequestColumns
<1> QED
  BY <1>2, <1>3

LEMMA BalanceAsMeant ==
  ASSUME NEW t, ~ Deletes(t), NEW old \in LeaveBalance, NEW new \in LeaveBalance
  PROVE  Written(t, old, Changed(old, new)) = new
<1>1. DOMAIN old = BalanceColumns /\ DOMAIN new = BalanceColumns /\ old # NoRow
  BY BalanceDomain, NoRowAssumption
<1>2. Written(t, old, Changed(old, new)) = [c \in BalanceColumns |-> new[c]]
  BY <1>1 DEF Written, Changed
<1>3. new = [c \in BalanceColumns |-> new[c]]
  BY DEF LeaveBalance, BalanceColumns
<1> QED
  BY <1>2, <1>3

\* What the commit of a transaction does to each table.
LEMMA CommitsRequest ==
  ASSUME ConcurrentIInv, NEW w \in Workers, Commit(w), ~ Deletes(txn[w]),
         txn[w].request \in Rows(requests), NEW new \in LeaveRequest,
         txn[w].onRequest = Changed(requests[txn[w].request], new)
  PROVE  requests' = [requests EXCEPT ![txn[w].request] = new]
<1> DEFINE r == txn[w].request
<1>1. r \in RequestIds /\ requests[r] \in LeaveRequest
  BY DEF ConcurrentIInv, TypeOK, Rows
<1>2. Written(txn[w], requests[r], txn[w].onRequest) = new
  BY <1>1, RequestAsMeant
<1> QED
  BY <1>1, <1>2 DEF Commit, ConcurrentIInv, TypeOK

LEMMA CommitsBalance ==
  ASSUME ConcurrentIInv, NEW w \in Workers, Commit(w), ~ Deletes(txn[w]),
         txn[w].balance \in Rows(balances), NEW new \in LeaveBalance,
         txn[w].onBalance = Changed(balances[txn[w].balance], new)
  PROVE  balances' = [balances EXCEPT ![txn[w].balance] = new]
<1> DEFINE b == txn[w].balance
<1>1. b \in BalanceIds /\ balances[b] \in LeaveBalance
  BY DEF ConcurrentIInv, TypeOK, Rows
<1>2. Written(txn[w], balances[b], txn[w].onBalance) = new
  BY <1>1, BalanceAsMeant
<1> QED
  BY <1>1, <1>2 DEF Commit, ConcurrentIInv, TypeOK

LEMMA CommitsDeletion ==
  ASSUME ConcurrentIInv, NEW w \in Workers, Commit(w), Deletes(txn[w])
  PROVE  /\ txn[w].request \in RequestIds
              => requests' = [requests EXCEPT ![txn[w].request] = NoRow]
         /\ txn[w].balance \in BalanceIds
              => balances' = [balances EXCEPT ![txn[w].balance] = NoRow]
BY DEF Commit, Written, ConcurrentIInv, TypeOK

LEMMA CommitsNothing ==
  ASSUME ConcurrentIInv, NEW w \in Workers, Commit(w)
  PROVE  /\ txn[w].request = NoRow => UNCHANGED requests
         /\ txn[w].balance = NoRow => UNCHANGED balances
BY IdsAssumption DEF Commit, ConcurrentIInv, TypeOK

\* The commit of a lone transaction is the call it handles.
LEMMA CommitIsTheCall ==
  ASSUME OneWorker, ConcurrentIInv, SerialInv, NEW w \in Workers, Commit(w)
  PROVE  Next
<1> DEFINE t == txn[w]
           r == t.request
           b == t.balance
<1>1. Serial(t) /\ t \in Txn /\ t.at = "commit"
  BY DEF SerialInv, ConcurrentIInv, Commit
<1>2. /\ \A id \in Rows(requests) : id \in RequestIds /\ requests[id] \in LeaveRequest
      /\ \A id \in Rows(balances) : id \in BalanceIds /\ balances[id] \in LeaveBalance
  BY DEF ConcurrentIInv, TypeOK, Rows
<1>3. ASSUME NEW outcome \in ApprovalStatus, Decides(t, outcome), ~ Deletes(t)
      PROVE  \E caller \in Employees :
               /\ MayDecide(caller, r)
               /\ requests' = [requests EXCEPT ![r] = Decided(requests[r], outcome, caller)]
  <2>1. PICK caller \in Employees :
          /\ MayDecide(caller, r)
          /\ t.onRequest = Changed(requests[r], Decided(requests[r], outcome, caller))
    BY <1>3 DEF Decides
  <2>2. r \in Rows(requests)
    BY <1>3, <2>1 DEF Decides, MayDecide, Rows, ConcurrentIInv, TypeOK
  <2>3. Decided(requests[r], outcome, caller) \in LeaveRequest
    BY <1>2, <2>2, DecisionsAreRequests
  <2> QED
    BY <1>3, <2>1, <2>2, <2>3, CommitsRequest
<1>4. CASE t.call = "approve"
  <2>1. Decides(t, "approved") /\ Books(t) /\ Charges(t) /\ ~ Deletes(t)
    BY <1>1, <1>4 DEF Serial, Approving, Deletes
  <2>2. PICK caller \in Employees :
          /\ MayDecide(caller, r)
          /\ requests' = [requests EXCEPT ![r] = Decided(requests[r], "approved", caller)]
    BY <1>3, <2>1 DEF ApprovalStatus
  <2>3. r \in RequestIds /\ requests[r] \in LeaveRequest
    BY <2>1, <2>2 DEF Decides, MayDecide, ConcurrentIInv, TypeOK
  <2>4. b \in BalanceIds /\ b \in Rows(balances)
    BY <2>1 DEF Charges, BalancesFor
  <2>5. Deduct(balances[b], DayCount(requests[r])) \in LeaveBalance
    BY <1>2, <2>3, <2>4, DayCountIsInteger, DeductionsAreBalances
  <2>6. balances' = [balances EXCEPT ![b] = Deduct(balances[b], DayCount(requests[r]))]
    BY <2>1, <2>4, <2>5, CommitsBalance DEF Charges
  <2>7. ApproveLeaveRequest(caller, r)
    BY <2>1, <2>2, <2>4, <2>6 DEF ApproveLeaveRequest, Books, Charges
  <2> QED
    BY <2>3, <2>7 DEF Next, RequestCall
<1>5. CASE t.call = "reject"
  <2>1. Decides(t, "rejected") /\ ~ Deletes(t) /\ r \in RequestIds /\ UNCHANGED balances
    BY <1>1, <1>5, CommitsNothing DEF Serial, Deletes, Decides
  <2>2. \E caller \in Employees : RejectLeaveRequest(caller, r)
    BY <1>3, <2>1 DEF RejectLeaveRequest, ApprovalStatus
  <2> QED
    BY <2>1, <2>2 DEF Next, RequestCall
<1>6. CASE t.call = "edit"
  <2>1. Editing(t) /\ ~ Deletes(t) /\ UNCHANGED balances
    BY <1>1, <1>6, CommitsNothing DEF Serial, Deletes
  <2>2. PICK caller \in Employees : Owns(caller, requests[r])
    BY <2>1 DEF Editing
  <2>3. PICK new \in Edits(requests[r]) : t.onRequest = Changed(requests[r], new)
    BY <2>1 DEF Editing
  <2>4. r \in Rows(requests) /\ r \in RequestIds /\ new \in LeaveRequest
    BY <1>2, <2>1, EditsAreRequests DEF Editing
  <2>5. requests' = [requests EXCEPT ![r] = new]
    BY <2>1, <2>3, <2>4, CommitsRequest
  <2>6. UpdateRequest(caller, r)
    BY <2>1, <2>2, <2>4, <2>5 DEF UpdateRequest, Editing, Rows
  <2> QED
    BY <2>4, <2>6 DEF Next, RequestCall
<1>7. CASE t.call = "delete"
  <2>1. Deleting(t) /\ Deletes(t) /\ UNCHANGED balances /\ r \in RequestIds
    BY <1>1, <1>2, <1>7, CommitsNothing DEF Serial, Deletes, Deleting
  <2>2. \E caller \in Employees : DeleteRequest(caller, r)
    BY <2>1, CommitsDeletion DEF DeleteRequest, Deleting, Rows
  <2> QED
    BY <2>1, <2>2 DEF Next, RequestCall
<1>8. CASE t.call = "edit_balance"
  <2>1. EditingBalance(t) /\ ~ Deletes(t) /\ UNCHANGED requests
    BY <1>1, <1>8, CommitsNothing DEF Serial, Deletes
  <2>2. PICK new \in BalanceEdits(balances[b]) : t.onBalance = Changed(balances[b], new)
    BY <2>1 DEF EditingBalance
  <2>3. b \in Rows(balances) /\ b \in BalanceIds /\ new \in LeaveBalance
    BY <1>2, <2>1, EditsAreBalances DEF EditingBalance
  <2>4. balances' = [balances EXCEPT ![b] = new]
    BY <2>1, <2>2, <2>3, CommitsBalance
  <2>5. UpdateBalance(b)
    BY <2>1, <2>3, <2>4 DEF UpdateBalance, Rows
  <2> QED
    BY <2>3, <2>5 DEF Next, BalanceCall
<1>9. CASE t.call = "delete_balance"
  <2>1. b \in Rows(balances) /\ b \in BalanceIds /\ Deletes(t) /\ UNCHANGED requests
    BY <1>1, <1>2, <1>9, CommitsNothing DEF Serial, Deletes
  <2>2. DeleteBalance(b)
    BY <2>1, CommitsDeletion DEF DeleteBalance, Rows
  <2> QED
    BY <2>1, <2>2 DEF Next, BalanceCall
<1> QED
  BY <1>1, <1>4, <1>5, <1>6, <1>7, <1>8, <1>9 DEF Txn, Calls, Serial

LEMMA SerialStep ==
  ASSUME OneWorker
  PROVE  ConcurrentIInv /\ SerialInv /\ [ConcurrentNext]_cvars
           => SerialInv' /\ [Next]_vars
<1> SUFFICES ASSUME ConcurrentIInv, SerialInv, [ConcurrentNext]_cvars
             PROVE  SerialInv' /\ [Next]_vars
  OBVIOUS
<1>1. SerialInv'
  <2>1. CASE UNCHANGED cvars
    <3>1. SerialInv' = SerialInv
      BY <2>1 DEF cvars, SerialInv, Serial, Approving, Decides, Books, Charges, MayDecide,
                  Editing, Deleting, EditingBalance
    <3> QED
      BY <3>1
  <2> QED
    BY <2>1, BeginsSerially, ProceedsSerially DEF ConcurrentNext
<1>2. [Next]_vars
  <2>1. ASSUME NEW w \in Workers, InsertRequest(w)
        PROVE  Next
    BY <2>1 DEF InsertRequest, Next, RequestCall
  <2>2. ASSUME NEW w \in Workers, InsertBalance(w)
        PROVE  Next
    BY <2>2 DEF InsertBalance, Next, BalanceCall
  <2>3. ASSUME NEW w \in Workers, Commit(w)
        PROVE  Next
    BY <2>3, CommitIsTheCall
  <2> QED
    BY <2>1, <2>2, <2>3, WritingSteps DEF vars
<1> QED
  BY <1>1, <1>2

\* One worker handling one call after another is the ledger of atomic calls: each
\* transaction takes effect in its commit, as the call it handles, or not at all.
THEOREM OneWorkerIsAtomic ==
  ASSUME \A v, w \in Workers : v = w
  PROVE  ConcurrentSpec => LedgerSpec
<1>1. OneWorker
  BY DEF OneWorker
<1>2. ConcurrentInit => SerialInv /\ Init
  BY IdleIsSerial DEF ConcurrentInit, SerialInv
<1>3. ConcurrentIInv /\ SerialInv /\ [ConcurrentNext]_cvars => SerialInv' /\ [Next]_vars
  BY <1>1, SerialStep
<1> QED
  BY <1>2, <1>3, ConcurrentIInvariant, PTL DEF ConcurrentSpec, LedgerSpec, Spec
=============================================================================
