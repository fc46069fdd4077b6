------------------------------ MODULE LendingProofs ------------------------------
(***************************************************************************)
(* Theorems about BorrowRequests, for any assets, employees, sources and   *)
(* bounds, and on top of them those about LanSubmission, for any number of *)
(* handlers, request ids and policies; and about LanServer, which those    *)
(* submissions arrive at, for any number of overlapping commands and of    *)
(* listeners.                                                              *)
(***************************************************************************)
EXTENDS LanSubmission, LanServer, SequenceTheorems, TLAPS

\* Who submits a borrow request is its borrower; a request loses both references
\* together.
BorrowersBorrow ==
  \A r \in DOMAIN requests : requests[r].kind = "borrow" => requests[r].borrower = requests[r].by

\* A row classified as a transfer was confirmed.
TransfersConfirmed ==
  \A a \in DOMAIN sheet.rows : sheet.rows[a].class = "transfer" => sheet.rows[a].confirmed

\* Loans, claims and requests refer to each other as the properties say; that is
\* only preserved together: a claim reserves because it belongs to a pending
\* request, and a deletion spares the request of a loan because both name the
\* same employee.
BorrowInv ==
  /\ TypeOK /\ LoansMatchStatus /\ ClaimsArePending /\ ReferencesResolve
  /\ LoansTraceable /\ ClaimsReserve /\ BorrowersBorrow /\ TransfersConfirmed

-----------------------------------------------------------------------------
(* Requests. *)

\* What the type of requests says of one of them.
LEMMA RequestType ==
  ASSUME TypeOK
  PROVE  /\ DOMAIN requests = 1..Len(requests) /\ Len(requests) \in Nat
         /\ DOMAIN requests \subseteq Ids
         /\ \A r \in DOMAIN requests : requests[r] \in Request
<1>1. requests \in Seq(Request) /\ Len(requests) <= MaxRequests
  BY DEF TypeOK
<1>2. \A r \in 1..Len(requests) : requests[r] \in Request
  BY <1>1, ElementOfSeq
<1> QED
  BY <1>1, <1>2, BorrowConstantsOK DEF Ids

\* A decision changes the status of one request and nothing else.
LEMMA DecideEffect ==
  ASSUME TypeOK, NEW r \in DOMAIN requests, NEW v \in {"approved", "rejected", "cancelled"},
         Decide(r, v)
  PROVE  /\ requests' \in Seq(Request) /\ Len(requests') = Len(requests)
         /\ DOMAIN requests' = DOMAIN requests
         /\ \A s \in DOMAIN requests :
              /\ requests'[s].kind = requests[s].kind /\ requests'[s].assets = requests[s].assets
              /\ requests'[s].by = requests[s].by /\ requests'[s].borrower = requests[s].borrower
              /\ requests'[s].status = IF s = r THEN v ELSE requests[s].status
<1>1. requests \in Seq(Request) /\ requests[r] \in Request /\ r \in 1..Len(requests)
  BY RequestType DEF TypeOK
<1> DEFINE q == [requests[r] EXCEPT !.status = v]
<1>2. q \in Request
  BY <1>1 DEF Request
<1>3. requests' = [requests EXCEPT ![r] = q]
  BY DEF Decide
<1>4. requests' \in Seq(Request) /\ Len(requests') = Len(requests)
  BY <1>1, <1>2, <1>3, ExceptSeq
<1>5. DOMAIN requests' = DOMAIN requests
  BY <1>3
<1>6. ASSUME NEW s \in DOMAIN requests
      PROVE  /\ requests'[s].kind = requests[s].kind /\ requests'[s].assets = requests[s].assets
             /\ requests'[s].by = requests[s].by /\ requests'[s].borrower = requests[s].borrower
             /\ requests'[s].status = IF s = r THEN v ELSE requests[s].status
  <2>1. requests[s] \in Request
    BY RequestType
  <2>2. CASE s = r
    BY <1>1, <1>3, <2>2 DEF Request
  <2>3. CASE s # r
    BY <1>3, <2>3
  <2> QED
    BY <2>2, <2>3
<1> QED
  BY <1>4, <1>5, <1>6

\* A submission adds one pending request.
LEMMA AppendEffect ==
  ASSUME TypeOK, NEW q \in Request, Len(requests) < MaxRequests,
         requests' = Append(requests, q)
  PROVE  /\ requests' \in Seq(Request) /\ Len(requests') = Len(requests) + 1
         /\ DOMAIN requests' = DOMAIN requests \cup {Len(requests) + 1}
         /\ Len(requests) + 1 \notin DOMAIN requests /\ Len(requests) + 1 \in Ids
         /\ \A s \in DOMAIN requests : requests'[s] = requests[s]
         /\ requests'[Len(requests) + 1] = q
<1>1. requests \in Seq(Request)
  BY DEF TypeOK
<1>2. DOMAIN requests = 1..Len(requests) /\ Len(requests) \in Nat
  BY RequestType
<1>3. DOMAIN requests' = 1..Len(requests')
  BY <1>1, LenProperties, AppendProperties
<1> QED
  BY <1>1, <1>2, <1>3, AppendProperties, BorrowConstantsOK DEF Ids

\* A request to return is made in the name of the borrower of its assets.
LEMMA NewRequestType ==
  ASSUME TypeOK, NEW as \in (SUBSET Assets) \ {{}}, NEW e \in Submitters,
         NEW kind \in {"borrow", "return"}, kind = "return" => Returnable(as)
  PROVE  /\ NewRequest(kind, e, as) \in Request
         /\ kind = "return" => \E a \in as : NewRequest(kind, e, as).borrower = loan[a].holder
<1>1. e \in Employees \cup {Nobody}
  BY DEF TypeOK, Submitters
<1>2. CASE kind = "borrow"
  BY <1>1, <1>2 DEF NewRequest, Request
<1>3. CASE kind = "return"
  <2>1. PICK a \in as : (CHOOSE b \in as : TRUE) = a
    OBVIOUS
  <2>2. OnLoan(a) /\ loan[a] \in Loan \cup {NoLoan}
    BY <1>3, <2>1 DEF Returnable, TypeOK
  <2>3. loan[a].holder \in Employees
    BY <2>2 DEF OnLoan, Loan
  <2> QED
    BY <1>1, <1>3, <2>1, <2>3 DEF NewRequest, Request
<1> QED
  BY <1>2, <1>3

\* An asset without a loan has no holder, one with a loan has an employee.
LEMMA LoanType ==
  ASSUME TypeOK, NEW a \in Assets
  PROVE  /\ OnLoan(a) => loan[a].holder \in Employees /\ loan[a].request \in Ids \cup {0}
         /\ ~OnLoan(a) => loan[a].holder = Nobody /\ loan[a].request = 0
  BY BorrowConstantsOK DEF TypeOK, OnLoan, Loan, NoLoan

-----------------------------------------------------------------------------
(* Submissions preserve the invariant. *)

\* A borrow request takes free assets and claims all of them.
LEMMA SubmitBorrowStep ==
  ASSUME BorrowInv, NEW e \in Submitters, NEW as \in (SUBSET Assets) \ {{}},
         Len(requests) < MaxRequests, SubmitBorrow(e, as)
  PROVE  BorrowInv'
<1> DEFINE n == Len(requests) + 1
           q == NewRequest("borrow", e, as)
<1>1. TypeOK /\ q \in Request
  BY NewRequestType DEF BorrowInv
<1>2. /\ requests' \in Seq(Request) /\ Len(requests') = n /\ n \in Ids
      /\ DOMAIN requests' = DOMAIN requests \cup {n} /\ n \notin DOMAIN requests
      /\ \A s \in DOMAIN requests : requests'[s] = requests[s]
      /\ requests'[n] = q
  BY <1>1, AppendEffect, RequestType DEF SubmitBorrow
<1>3. q.kind = "borrow" /\ q.assets = as /\ q.by = e /\ q.borrower = e /\ q.status = "pending"
  BY DEF NewRequest
<1>4. claims' = [a \in Assets |-> IF a \in as THEN n ELSE claims[a]]
  BY DEF SubmitBorrow
<1>5. UNCHANGED <<status, loan, history, staff, offboarded, sheet>>
  BY DEF SubmitBorrow
<1>6. \A a \in as : ~OnLoan(a) /\ claims[a] = 0
  BY DEF SubmitBorrow, Borrowable
<1> HIDE DEF n, q
<1>7. Len(requests') <= MaxRequests
  BY <1>2 DEF Ids
<1>8. TypeOK'
  BY <1>1, <1>2, <1>4, <1>5, <1>7 DEF TypeOK
<1>0. n # 0
  BY <1>2, BorrowConstantsOK DEF Ids
<1>9. ClaimsArePending'
  <2>1. ASSUME NEW r \in Ids, NEW a \in Assets
        PROVE  claims'[a] = r <=> /\ r \in DOMAIN requests' /\ requests'[r].status = "pending"
                                  /\ requests'[r].kind = "borrow" /\ a \in requests'[r].assets
    <3>1. r # 0
      BY DEF Ids
    <3>2. claims[a] = r <=> Pending(r) /\ requests[r].kind = "borrow" /\ a \in requests[r].assets
      BY DEF BorrowInv, ClaimsArePending
    <3>3. CASE r = n
      BY <1>2, <1>3, <1>4, <3>2, <3>3 DEF Pending
    <3>4. CASE r # n
      BY <1>2, <1>4, <1>6, <3>1, <3>2, <3>4 DEF Pending
    <3> QED
      BY <3>3, <3>4
  <2> QED
    BY <2>1 DEF ClaimsArePending, Pending
<1>10. ReferencesResolve' /\ BorrowersBorrow'
  BY <1>2, <1>3, <1>5 DEF BorrowInv, ReferencesResolve, OrphanLoans, OnLoan, Submitters, BorrowersBorrow
<1>11. LoansTraceable'
  BY <1>2, <1>5 DEF BorrowInv, LoansTraceable
<1>12. ClaimsReserve'
  BY <1>1, <1>4, <1>5, <1>6, LoanType DEF BorrowInv, ClaimsReserve
<1>13. LoansMatchStatus' /\ TransfersConfirmed'
  BY <1>5 DEF BorrowInv, LoansMatchStatus, LoanWithoutStatus, StatusWithoutLoan, OnLoan, TransfersConfirmed
<1> QED
  BY <1>8, <1>9, <1>10, <1>11, <1>12, <1>13 DEF BorrowInv

\* A return request claims nothing.
LEMMA SubmitReturnStep ==
  ASSUME BorrowInv, NEW e \in Submitters, NEW as \in (SUBSET Assets) \ {{}},
         Len(requests) < MaxRequests, SubmitReturn(e, as)
  PROVE  BorrowInv'
<1> DEFINE n == Len(requests) + 1
           q == NewRequest("return", e, as)
<1>1. TypeOK /\ q \in Request /\ \E a \in as : q.borrower = loan[a].holder
  BY NewRequestType DEF BorrowInv, SubmitReturn
<1>2. /\ requests' \in Seq(Request) /\ Len(requests') = n /\ n \in Ids
      /\ DOMAIN requests' = DOMAIN requests \cup {n} /\ n \notin DOMAIN requests
      /\ \A s \in DOMAIN requests : requests'[s] = requests[s]
      /\ requests'[n] = q
  BY <1>1, AppendEffect, RequestType DEF SubmitReturn
<1>3. q.kind = "return" /\ q.by = e
  BY DEF NewRequest
<1>4. UNCHANGED <<status, loan, history, claims, staff, offboarded, sheet>>
  BY DEF SubmitReturn
<1>5. \A a \in as : OnLoan(a)
  BY DEF SubmitReturn, Returnable
<1> HIDE DEF n, q
<1>6. Len(requests') <= MaxRequests
  BY <1>2 DEF Ids
<1>7. TypeOK'
  BY <1>1, <1>2, <1>4, <1>6 DEF TypeOK
<1>8. ClaimsArePending'
  BY <1>2, <1>3, <1>4 DEF BorrowInv, ClaimsArePending, Pending
<1>9. q.borrower \in staff
  BY <1>1, <1>5 DEF BorrowInv, ReferencesResolve, OrphanLoans
<1>10. ReferencesResolve' /\ BorrowersBorrow'
  BY <1>2, <1>3, <1>4, <1>9 DEF BorrowInv, ReferencesResolve, OrphanLoans, OnLoan, Submitters, BorrowersBorrow
<1>11. LoansTraceable' /\ ClaimsReserve'
  BY <1>2, <1>4 DEF BorrowInv, LoansTraceable, ClaimsReserve
<1>12. LoansMatchStatus' /\ TransfersConfirmed'
  BY <1>4 DEF BorrowInv, LoansMatchStatus, LoanWithoutStatus, StatusWithoutLoan, OnLoan, TransfersConfirmed
<1> QED
  BY <1>7, <1>8, <1>10, <1>11, <1>12 DEF BorrowInv

-----------------------------------------------------------------------------
(* Decisions preserve the invariant. *)

\* A released request claims nothing.
LEMMA ReleasedClaims ==
  ASSUME TypeOK, NEW r \in Ids
  PROVE  /\ Released(r) \in [Assets -> Ids \cup {0}]
         /\ \A a \in Assets : Released(r)[a] = IF claims[a] = r THEN 0 ELSE claims[a]
  BY DEF TypeOK, Released

\* Deciding a request and releasing its claims keeps claims and requests in step.
LEMMA DecisionClaims ==
  ASSUME BorrowInv, NEW r \in DOMAIN requests, NEW v \in {"approved", "rejected", "cancelled"},
         Decide(r, v), claims' = Released(r)
  PROVE  ClaimsArePending'
<1>1. TypeOK /\ r \in Ids /\ 0 \notin Ids
  BY RequestType, BorrowConstantsOK DEF BorrowInv, Ids
<1>2. ASSUME NEW s \in Ids, NEW a \in Assets
      PROVE  claims'[a] = s <=> /\ s \in DOMAIN requests' /\ requests'[s].status = "pending"
                                /\ requests'[s].kind = "borrow" /\ a \in requests'[s].assets
  <2>1. claims[a] = s <=> Pending(s) /\ requests[s].kind = "borrow" /\ a \in requests[s].assets
    BY DEF BorrowInv, ClaimsArePending
  <2>2. claims'[a] = IF claims[a] = r THEN 0 ELSE claims[a]
    BY <1>1, ReleasedClaims
  <2>3. CASE s = r
    BY <1>1, <2>2, <2>3, DecideEffect
  <2>4. CASE s # r
    BY <1>1, <2>1, <2>2, <2>4, DecideEffect DEF Pending
  <2> QED
    BY <2>3, <2>4
<1> QED
  BY <1>2 DEF ClaimsArePending, Pending

\* A decision leaves requests' references as they are.
LEMMA DecisionReferences ==
  ASSUME BorrowInv, NEW r \in DOMAIN requests, NEW v \in {"approved", "rejected", "cancelled"},
         Decide(r, v), UNCHANGED staff
  PROVE  /\ BorrowersBorrow'
         /\ \A s \in DOMAIN requests' : {requests'[s].by, requests'[s].borrower} \subseteq Submitters'
  BY DecideEffect DEF BorrowInv, BorrowersBorrow, ReferencesResolve, OrphanLoans, Submitters

\* The loans of the invariant survive a decision that leaves them alone.
LEMMA DecisionLoan ==
  ASSUME BorrowInv, NEW r \in Ids, Pending(r), NEW v \in {"approved", "rejected", "cancelled"},
         Decide(r, v), NEW a \in Assets, loan[a].request # 0
  PROVE  LET q == requests'[loan[a].request] IN
         /\ loan[a].request \in DOMAIN requests' /\ q.status = "approved"
         /\ q.kind = "borrow" /\ a \in q.assets /\ q.by = loan[a].holder
<1>1. TypeOK /\ r \in DOMAIN requests /\ requests[r].status = "pending"
  BY DEF BorrowInv, Pending
<1>2. /\ loan[a].request \in DOMAIN requests /\ requests[loan[a].request].status = "approved"
      /\ requests[loan[a].request].kind = "borrow" /\ a \in requests[loan[a].request].assets
      /\ requests[loan[a].request].by = loan[a].holder
  BY DEF BorrowInv, LoansTraceable
<1>3. loan[a].request # r
  BY <1>1, <1>2
<1> QED
  BY <1>1, <1>2, <1>3, DecideEffect

\* A refused request releases its claims and touches no loan.
LEMMA DenyStep ==
  ASSUME BorrowInv, NEW r \in Ids, NEW v \in {"rejected", "cancelled"}, Deny(r, v)
  PROVE  BorrowInv'
<1>1. TypeOK /\ Pending(r) /\ r \in DOMAIN requests /\ Decide(r, v) /\ claims' = Released(r)
  BY DEF BorrowInv, Deny, Pending
<1>2. UNCHANGED <<status, loan, history, staff, offboarded, sheet>>
  BY DEF Deny
<1>3. TypeOK'
  BY <1>1, <1>2, DecideEffect, ReleasedClaims DEF TypeOK
<1>4. ClaimsArePending'
  BY <1>1, DecisionClaims
<1>5. ReferencesResolve' /\ BorrowersBorrow'
  BY <1>1, <1>2, DecisionReferences DEF BorrowInv, ReferencesResolve, OrphanLoans, OnLoan
<1>6. LoansTraceable'
  BY <1>1, <1>2, DecisionLoan DEF LoansTraceable
<1>7. ClaimsReserve'
  BY <1>1, <1>2, ReleasedClaims DEF BorrowInv, ClaimsReserve
<1>8. LoansMatchStatus' /\ TransfersConfirmed'
  BY <1>2 DEF BorrowInv, LoansMatchStatus, LoanWithoutStatus, StatusWithoutLoan, OnLoan, TransfersConfirmed
<1> QED
  BY <1>3, <1>4, <1>5, <1>6, <1>7, <1>8 DEF BorrowInv

\* The request's employee, whom no deletion has taken, gets the assets.
LEMMA ApproveBorrowStep ==
  ASSUME BorrowInv, NEW r \in Ids, ApproveBorrow(r)
  PROVE  BorrowInv'
<1> DEFINE q == requests[r]
           new == [holder |-> q.by, request |-> r]
<1>1. /\ TypeOK /\ Pending(r) /\ r \in DOMAIN requests /\ Decide(r, "approved")
      /\ claims' = Released(r)
  BY DEF BorrowInv, ApproveBorrow, Pending
<1>2. /\ UNCHANGED <<history, staff, offboarded, sheet>>
      /\ q.kind = "borrow" /\ q.status = "pending" /\ q.by # Nobody
      /\ status' = [a \in Assets |-> IF a \in q.assets THEN "assigned" ELSE status[a]]
      /\ loan' = [a \in Assets |-> IF a \in q.assets THEN new ELSE loan[a]]
  BY DEF ApproveBorrow, Lendable, Pending
<1>3. q \in Request /\ r # 0
  BY <1>1, RequestType, BorrowConstantsOK DEF Ids
<1>4. q.by \in staff /\ q.by \in Employees
  BY <1>1, <1>2 DEF BorrowInv, ReferencesResolve, OrphanLoans, Submitters, TypeOK
<1>5. new \in Loan /\ new # NoLoan /\ new.request = r /\ new.holder = q.by
  BY <1>2, <1>4 DEF Loan, NoLoan
<1> HIDE DEF new
<1>6. TypeOK'
  <2>1. status' \in [Assets -> {"unregistered", "in_stock", "assigned"}]
    BY <1>1, <1>2 DEF TypeOK
  <2>2. loan' \in [Assets -> Loan \cup {NoLoan}]
    BY <1>1, <1>2, <1>5 DEF TypeOK
  <2> QED
    BY <1>1, <1>2, <2>1, <2>2, DecideEffect, ReleasedClaims DEF TypeOK
<1>7. LoansMatchStatus'
  BY <1>2, <1>5 DEF BorrowInv, LoansMatchStatus, LoanWithoutStatus, StatusWithoutLoan, OnLoan
<1>8. ClaimsArePending'
  BY <1>1, DecisionClaims
<1>9. ReferencesResolve' /\ BorrowersBorrow'
  <2>1. \A a \in Assets : OnLoan(a)' => loan'[a].holder \in staff'
    BY <1>2, <1>4, <1>5 DEF BorrowInv, ReferencesResolve, OrphanLoans, OnLoan
  <2> QED
    BY <1>1, <1>2, <2>1, DecisionReferences DEF BorrowInv, ReferencesResolve, OrphanLoans
<1>10. LoansTraceable'
  <2>1. ASSUME NEW a \in Assets, loan'[a].request # 0
        PROVE  /\ loan'[a].request \in DOMAIN requests'
               /\ requests'[loan'[a].request].status = "approved"
               /\ requests'[loan'[a].request].kind = "borrow"
               /\ a \in requests'[loan'[a].request].assets
               /\ requests'[loan'[a].request].by = loan'[a].holder
    <3>1. CASE a \in q.assets
      BY <1>1, <1>2, <1>5, <3>1, DecideEffect
    <3>2. CASE a \notin q.assets
      BY <1>1, <1>2, <2>1, <3>2, DecisionLoan
    <3> QED
      BY <3>1, <3>2
  <2> QED
    BY <2>1 DEF LoansTraceable
<1>11. ClaimsReserve'
  <2>1. ASSUME NEW a \in Assets, claims'[a] # 0
        PROVE  loan'[a].request = 0
    <3>1. claims[a] # r /\ claims[a] # 0
      BY <1>1, <2>1, ReleasedClaims
    <3>2. a \notin q.assets
      BY <1>1, <1>2, <3>1 DEF BorrowInv, ClaimsArePending
    <3> QED
      BY <1>2, <3>1, <3>2 DEF BorrowInv, ClaimsReserve
  <2> QED
    BY <2>1 DEF ClaimsReserve
<1>12. TransfersConfirmed'
  BY <1>2 DEF BorrowInv, TransfersConfirmed
<1> QED
  BY <1>6, <1>7, <1>8, <1>9, <1>10, <1>11, <1>12 DEF BorrowInv

\* A return closes loans; who held them and who brought them back stays known.
LEMMA ApproveReturnStep ==
  ASSUME BorrowInv, NEW r \in Ids, ApproveReturn(r)
  PROVE  BorrowInv'
<1> DEFINE q == requests[r]
<1>1. TypeOK /\ Pending(r) /\ r \in DOMAIN requests /\ Decide(r, "approved")
  BY DEF BorrowInv, ApproveReturn, Pending
<1>2. /\ UNCHANGED <<claims, staff, offboarded, sheet>>
      /\ q.kind = "return"
      /\ \A a \in q.assets : status[a] = "assigned"
      /\ status' = [a \in Assets |-> IF a \in q.assets THEN "in_stock" ELSE status[a]]
      /\ loan' = [a \in Assets |-> IF a \in Closes(q) THEN NoLoan ELSE loan[a]]
      /\ history' = history \cup {loan[a].holder : a \in Closes(q)}
                            \cup (IF Closes(q) # {} THEN {q.by} \ {Nobody} ELSE {})
  BY DEF ApproveReturn
<1>3. q \in Request /\ q.assets \subseteq Assets
  BY <1>1, RequestType DEF Request
<1>4. Closes(q) = q.assets
  BY <1>2, <1>3 DEF BorrowInv, LoansMatchStatus, LoanWithoutStatus, StatusWithoutLoan, Closes
<1>5. NoLoan.request = 0 /\ \A a \in Assets : loan'[a].request # 0 => loan'[a] = loan[a]
  BY <1>2 DEF NoLoan
<1>6. history' \subseteq staff
  <2>1. {loan[a].holder : a \in Closes(q)} \subseteq staff
    BY <1>3, <1>4 DEF BorrowInv, ReferencesResolve, OrphanLoans, Closes
  <2>2. {q.by} \ {Nobody} \subseteq staff
    BY <1>1 DEF BorrowInv, ReferencesResolve, OrphanLoans, Submitters
  <2> QED
    BY <1>2, <2>1, <2>2 DEF BorrowInv, ReferencesResolve, OrphanLoans
<1>7. TypeOK'
  <2>1. status' \in [Assets -> {"unregistered", "in_stock", "assigned"}]
    BY <1>1, <1>2 DEF TypeOK
  <2>2. loan' \in [Assets -> Loan \cup {NoLoan}]
    BY <1>1, <1>2 DEF TypeOK
  <2>3. history' \subseteq Employees
    BY <1>1, <1>6 DEF TypeOK
  <2> QED
    BY <1>1, <1>2, <2>1, <2>2, <2>3, DecideEffect DEF TypeOK
<1>8. LoansMatchStatus'
  BY <1>2, <1>4 DEF BorrowInv, LoansMatchStatus, LoanWithoutStatus, StatusWithoutLoan, OnLoan
<1>9. ClaimsArePending'
  BY <1>1, <1>2, DecideEffect DEF BorrowInv, ClaimsArePending, Pending
<1>10. ReferencesResolve' /\ BorrowersBorrow'
  <2>1. \A a \in Assets : OnLoan(a)' => loan'[a].holder \in staff'
    BY <1>2 DEF BorrowInv, ReferencesResolve, OrphanLoans, OnLoan
  <2> QED
    BY <1>1, <1>2, <1>6, <2>1, DecisionReferences DEF ReferencesResolve, OrphanLoans
<1>11. LoansTraceable'
  BY <1>1, <1>5, DecisionLoan DEF LoansTraceable
<1>12. ClaimsReserve'
  BY <1>2, <1>5 DEF BorrowInv, ClaimsReserve
<1>13. TransfersConfirmed'
  BY <1>2 DEF BorrowInv, TransfersConfirmed
<1> QED
  BY <1>7, <1>8, <1>9, <1>10, <1>11, <1>12, <1>13 DEF BorrowInv

-----------------------------------------------------------------------------
(* Assets, employees and imports preserve the invariant. *)

\* A registered asset is in stock, without a loan.
LEMMA RegisterStep ==
  ASSUME BorrowInv, NEW a \in Assets, Register(a)
  PROVE  BorrowInv'
<1>1. /\ status[a] = "unregistered" /\ status' = [status EXCEPT ![a] = "in_stock"]
      /\ UNCHANGED <<loan, history, requests, claims, staff, offboarded, sheet>>
  BY DEF Register
<1>2. TypeOK'
  BY <1>1 DEF BorrowInv, TypeOK
<1>3. LoansMatchStatus'
  BY <1>1 DEF BorrowInv, LoansMatchStatus, LoanWithoutStatus, StatusWithoutLoan, OnLoan, TypeOK
<1> QED
  BY <1>1, <1>2, <1>3 DEF BorrowInv, ClaimsArePending, Pending, ReferencesResolve, OrphanLoans, OnLoan,
     Submitters, LoansTraceable, ClaimsReserve, BorrowersBorrow, TransfersConfirmed

\* An imported asset comes with its loan.
LEMMA ImportOwnedStep ==
  ASSUME BorrowInv, NEW a \in Assets, NEW e \in Employees, ImportOwned(a, e)
  PROVE  BorrowInv'
<1> DEFINE new == [holder |-> e, request |-> 0]
<1>1. /\ status' = [status EXCEPT ![a] = "assigned"] /\ e \in staff
      /\ loan' = [loan EXCEPT ![a] = new]
      /\ UNCHANGED <<history, requests, claims, staff, offboarded, sheet>>
  BY DEF ImportOwned
<1>2. new \in Loan /\ new # NoLoan /\ new.request = 0 /\ new.holder = e
  BY BorrowConstantsOK DEF Loan, NoLoan
<1> HIDE DEF new
<1>3. TypeOK'
  BY <1>1, <1>2 DEF BorrowInv, TypeOK
<1>4. \A b \in Assets : loan'[b] = IF b = a THEN new ELSE loan[b]
  BY <1>1 DEF BorrowInv, TypeOK
<1>5. LoansMatchStatus'
  BY <1>1, <1>2, <1>4 DEF BorrowInv, LoansMatchStatus, LoanWithoutStatus, StatusWithoutLoan, OnLoan, TypeOK
<1>6. ReferencesResolve'
  BY <1>1, <1>2, <1>4 DEF BorrowInv, ReferencesResolve, OrphanLoans, OnLoan, Submitters
<1>7. LoansTraceable' /\ ClaimsReserve'
  BY <1>1, <1>2, <1>4 DEF BorrowInv, LoansTraceable, ClaimsReserve
<1> QED
  BY <1>1, <1>3, <1>5, <1>6, <1>7 DEF BorrowInv, ClaimsArePending, Pending, BorrowersBorrow,
     TransfersConfirmed

\* The staff group is no part of the invariant.
LEMMA ChangeGroupStep ==
  ASSUME BorrowInv, NEW e \in Employees, ChangeGroup(e)
  PROVE  BorrowInv'
<1>1. /\ UNCHANGED <<status, loan, history, requests, claims, staff, sheet>>
      /\ offboarded' \subseteq offboarded \cup {e} /\ e \in staff
  BY DEF ChangeGroup, lending
<1>2. TypeOK'
  BY <1>1 DEF BorrowInv, TypeOK
<1> QED
  BY <1>1, <1>2 DEF BorrowInv, LoansMatchStatus, LoanWithoutStatus, StatusWithoutLoan, ClaimsArePending, Pending, ReferencesResolve, OrphanLoans,
     OnLoan, Submitters, LoansTraceable, ClaimsReserve, BorrowersBorrow, TransfersConfirmed

\* A deletion is refused while a loan, open or closed, names the employee; the
\* requests that do are left without references.
LEMMA DeleteEmployeeStep ==
  ASSUME BorrowInv, NEW e \in Employees, DeleteEmployee(e)
  PROVE  BorrowInv'
<1> DEFINE cleared(r) == [requests[r] EXCEPT !.by = Nobody, !.borrower = Nobody]
<1>1. /\ UNCHANGED <<status, loan, history, claims, sheet>>
      /\ staff' = staff \ {e} /\ offboarded' = offboarded \ {e}
      /\ e \notin history /\ \A a \in Assets : loan[a].holder # e
      /\ requests' = [r \in DOMAIN requests |->
           IF e \in {requests[r].by, requests[r].borrower} THEN cleared(r) ELSE requests[r]]
  BY DEF DeleteEmployee, Kept
<1>2. TypeOK
  BY DEF BorrowInv
<1>3. \A r \in DOMAIN requests : requests[r] \in Request
  BY <1>2, RequestType
<1>4. ASSUME NEW r \in DOMAIN requests
      PROVE  /\ requests'[r] \in Request /\ requests'[r].kind = requests[r].kind
             /\ requests'[r].assets = requests[r].assets /\ requests'[r].status = requests[r].status
             /\ \/ requests'[r].by = Nobody /\ requests'[r].borrower = Nobody
                   /\ e \in {requests[r].by, requests[r].borrower}
                \/ requests'[r] = requests[r] /\ e \notin {requests[r].by, requests[r].borrower}
  <2>1. requests[r] \in Request
    BY <1>3
  <2>2. CASE e \in {requests[r].by, requests[r].borrower}
    <3>1. requests'[r] = cleared(r)
      BY <1>1, <2>2
    <3> QED
      BY <2>1, <2>2, <3>1 DEF Request
  <2>3. CASE e \notin {requests[r].by, requests[r].borrower}
    BY <1>1, <2>1, <2>3
  <2> QED
    BY <2>2, <2>3
<1> HIDE DEF cleared
<1>5. DOMAIN requests' = DOMAIN requests
  BY <1>1
<1>6. requests' \in Seq(Request) /\ Len(requests') = Len(requests)
  <2>1. requests' \in [1..Len(requests) -> Request] /\ Len(requests) \in Nat
    BY <1>1, <1>2, <1>4, RequestType
  <2> QED
    BY <2>1, IsASeq
<1>7. TypeOK'
  BY <1>1, <1>2, <1>6 DEF TypeOK
<1>8. ClaimsArePending'
  BY <1>1, <1>4, <1>5 DEF BorrowInv, ClaimsArePending, Pending
<1>9. ReferencesResolve'
  <2>1. ASSUME NEW r \in DOMAIN requests
        PROVE  {requests'[r].by, requests'[r].borrower} \subseteq Submitters'
    BY <1>1, <1>4 DEF BorrowInv, ReferencesResolve, OrphanLoans, Submitters
  <2> QED
    BY <1>1, <1>5, <2>1 DEF BorrowInv, ReferencesResolve, OrphanLoans, OnLoan
<1>10. BorrowersBorrow'
  BY <1>4, <1>5 DEF BorrowInv, BorrowersBorrow
<1>11. LoansTraceable'
  <2>1. ASSUME NEW a \in Assets, loan[a].request # 0
        PROVE  /\ loan[a].request \in DOMAIN requests'
               /\ requests'[loan[a].request].status = "approved"
               /\ requests'[loan[a].request].kind = "borrow"
               /\ a \in requests'[loan[a].request].assets
               /\ requests'[loan[a].request].by = loan[a].holder
    <3> DEFINE r == loan[a].request
    <3>1. /\ r \in DOMAIN requests /\ requests[r].status = "approved"
          /\ requests[r].kind = "borrow" /\ a \in requests[r].assets
          /\ requests[r].by = loan[a].holder /\ requests[r].borrower = loan[a].holder
      BY <2>1 DEF BorrowInv, LoansTraceable, BorrowersBorrow
    <3>2. e \notin {requests[r].by, requests[r].borrower}
      BY <1>1, <3>1
    <3> HIDE DEF r
    <3>3. requests'[r] = requests[r]
      BY <1>4, <3>1, <3>2
    <3> QED
      BY <1>5, <3>1, <3>3 DEF r
  <2> QED
    BY <1>1, <2>1 DEF LoansTraceable
<1>12. LoansMatchStatus' /\ ClaimsReserve' /\ TransfersConfirmed'
  BY <1>1 DEF BorrowInv, LoansMatchStatus, LoanWithoutStatus, StatusWithoutLoan, OnLoan, ClaimsReserve, TransfersConfirmed
<1> QED
  BY <1>7, <1>8, <1>9, <1>10, <1>11, <1>12 DEF BorrowInv

\* What depends on the import's rows alone.
SheetType ==
  /\ sheet.pc \in {"none", "shown", "classified"}
  /\ DOMAIN sheet.rows \subseteq Assets
  /\ \A a \in DOMAIN sheet.rows : sheet.rows[a] \in Row

\* A step of the import that only changes its rows.
LEMMA SheetFrame ==
  ASSUME BorrowInv, UNCHANGED <<status, loan, history, requests, claims, staff, offboarded>>,
         SheetType', TransfersConfirmed'
  PROVE  BorrowInv'
<1>1. TypeOK'
  BY DEF BorrowInv, TypeOK, SheetType
<1> QED
  BY <1>1 DEF BorrowInv, LoansMatchStatus, LoanWithoutStatus, StatusWithoutLoan, ClaimsArePending, Pending, ReferencesResolve, OrphanLoans, OnLoan,
     Submitters, LoansTraceable, ClaimsReserve, BorrowersBorrow

\* There are no rows when no import is under way.
LEMMA NoRows ==
  /\ NoSheet.pc = "none" /\ NoSheet.rows = << >> /\ DOMAIN NoSheet.rows = {}
  BY DEF NoSheet

\* An import that is cancelled or refused leaves nothing.
LEMMA SheetEnds ==
  ASSUME BorrowInv, UNCHANGED <<lending, staff, offboarded>>, sheet' = NoSheet
  PROVE  BorrowInv'
<1>1. UNCHANGED <<status, loan, history, requests, claims, staff, offboarded>>
  BY DEF lending
<1>2. SheetType' /\ TransfersConfirmed'
  BY NoRows DEF SheetType, TransfersConfirmed
<1> QED
  BY <1>1, <1>2, SheetFrame

\* A preview names employees and confirms nothing by itself.
LEMMA PreviewSheetStep ==
  ASSUME BorrowInv, PreviewSheet
  PROVE  BorrowInv'
<1>1. UNCHANGED <<status, loan, history, requests, claims, staff, offboarded>>
  BY DEF PreviewSheet, lending
<1>2. PICK as \in (SUBSET Assets) \ {{}} : \E emp \in [as -> staff] :
        \E sure \in SUBSET {a \in as : loan[a].holder \notin {Nobody, emp[a]}} :
          sheet' = [pc |-> "shown",
                    rows |-> [a \in as |-> [emp |-> emp[a], confirmed |-> a \in sure,
                                            class |-> "unclassified"]]]
  BY DEF PreviewSheet
<1>3. PICK emp \in [as -> staff], sure \in SUBSET as :
          sheet' = [pc |-> "shown",
                    rows |-> [a \in as |-> [emp |-> emp[a], confirmed |-> a \in sure,
                                            class |-> "unclassified"]]]
  BY <1>2
<1>4. sheet'.pc = "shown" /\ DOMAIN sheet'.rows = as
  BY <1>3
<1>5. ASSUME NEW a \in as
      PROVE  sheet'.rows[a] \in Row /\ sheet'.rows[a].class = "unclassified"
  <2>1. sheet'.rows[a] = [emp |-> emp[a], confirmed |-> a \in sure, class |-> "unclassified"]
    BY <1>3
  <2>2. emp[a] \in Employees
    BY DEF BorrowInv, TypeOK
  <2>3. (a \in sure) \in BOOLEAN
    OBVIOUS
  <2> QED
    BY <2>1, <2>2, <2>3 DEF Row
<1>6. SheetType' /\ TransfersConfirmed'
  BY <1>4, <1>5 DEF SheetType, TransfersConfirmed
<1> QED
  BY <1>1, <1>6, SheetFrame

\* A row becomes a transfer when it was confirmed.
LEMMA ClassType ==
  ASSUME NEW a \in Assets, NEW row \in Row
  PROVE  /\ Class(a, row) \in {"new", "transfer", "skip"}
         /\ Class(a, row) = "transfer" => row.confirmed
  BY DEF Class

\* Classification only marks rows.
LEMMA ClassifySheetStep ==
  ASSUME BorrowInv, ClassifySheet
  PROVE  BorrowInv'
<1>1. /\ UNCHANGED <<status, loan, history, requests, claims, staff, offboarded>>
      /\ sheet' = [pc |-> "classified",
                   rows |-> [a \in DOMAIN sheet.rows |->
                               [sheet.rows[a] EXCEPT !.class = Class(a, sheet.rows[a])]]]
  BY DEF ClassifySheet, lending
<1>2. sheet'.pc = "classified" /\ DOMAIN sheet'.rows = DOMAIN sheet.rows
  BY <1>1
<1>3. ASSUME NEW a \in DOMAIN sheet.rows
      PROVE  /\ sheet'.rows[a] \in Row
             /\ sheet'.rows[a].class = "transfer" => sheet'.rows[a].confirmed
  <2>1. a \in Assets /\ sheet.rows[a] \in Row
    BY DEF BorrowInv, TypeOK
  <2>2. sheet'.rows[a] = [sheet.rows[a] EXCEPT !.class = Class(a, sheet.rows[a])]
    BY <1>1
  <2>3. /\ Class(a, sheet.rows[a]) \in {"new", "transfer", "skip"}
        /\ Class(a, sheet.rows[a]) = "transfer" => sheet.rows[a].confirmed
    BY <2>1, ClassType
  <2> QED
    BY <2>1, <2>2, <2>3 DEF Row
<1>4. SheetType' /\ TransfersConfirmed'
  BY <1>2, <1>3 DEF BorrowInv, TypeOK, SheetType, TransfersConfirmed
<1> QED
  BY <1>1, <1>4, SheetFrame

\* The import's transaction gives each of its assets one loan, and takes a loan away
\* only from a row confirmed as a transfer.
LEMMA ApplySheetStep ==
  ASSUME BorrowInv, ApplySheet
  PROVE  BorrowInv' /\ \A a \in Assets : OnLoan(a) /\ loan'[a] # loan[a] =>
                         a \in DOMAIN sheet.rows /\ sheet.rows[a].confirmed
<1> DEFINE new(a) == [holder |-> sheet.rows[a].emp, request |-> 0]
<1>1. /\ sheet.pc = "classified" /\ ~SheetFails /\ sheet' = NoSheet
      /\ UNCHANGED <<requests, claims, staff, offboarded>>
      /\ status' = [a \in Assets |-> IF a \in AssignedBySheet THEN "assigned" ELSE status[a]]
      /\ loan' = [a \in Assets |-> IF a \in AssignedBySheet THEN new(a) ELSE loan[a]]
      /\ history' = history \cup {loan[a].holder : a \in {b \in Rows("transfer") : OnLoan(b)}}
  BY DEF ApplySheet
<1>2. TypeOK /\ DOMAIN sheet.rows \subseteq Assets
  BY DEF BorrowInv, TypeOK
<1>3. AssignedBySheet \subseteq DOMAIN sheet.rows /\ Rows("transfer") \subseteq DOMAIN sheet.rows
  BY DEF AssignedBySheet, Rows
<1>4. ASSUME NEW a \in AssignedBySheet
      PROVE  /\ new(a) \in Loan /\ new(a) # NoLoan /\ new(a).request = 0
             /\ new(a).holder \in staff
  <2>1. sheet.rows[a].emp \in staff
    BY <1>1 DEF SheetFails, AssignedBySheet
  <2>2. sheet.rows[a].emp \in Employees
    BY <1>2, <2>1 DEF TypeOK
  <2> QED
    BY <2>1, <2>2, BorrowConstantsOK DEF Loan, NoLoan
<1> HIDE DEF new
<1>5. \A a \in Assets : /\ a \in AssignedBySheet => loan'[a] = new(a) /\ status'[a] = "assigned"
                        /\ a \notin AssignedBySheet => loan'[a] = loan[a] /\ status'[a] = status[a]
  BY <1>1
<1>6. history' \subseteq staff
  BY <1>1, <1>2, <1>3 DEF BorrowInv, ReferencesResolve, OrphanLoans
<1>7. TypeOK'
  <2>1. status' \in [Assets -> {"unregistered", "in_stock", "assigned"}]
    BY <1>1, <1>2 DEF TypeOK
  <2>2. loan' \in [Assets -> Loan \cup {NoLoan}]
    BY <1>1, <1>2, <1>4 DEF TypeOK
  <2>3. history' \subseteq Employees
    BY <1>2, <1>6 DEF TypeOK
  <2> QED
    BY <1>1, <1>2, <2>1, <2>2, <2>3, NoRows DEF TypeOK
<1>8. LoansMatchStatus'
  BY <1>4, <1>5 DEF BorrowInv, LoansMatchStatus, LoanWithoutStatus, StatusWithoutLoan, OnLoan
<1>9. ClaimsArePending' /\ BorrowersBorrow'
  BY <1>1 DEF BorrowInv, ClaimsArePending, Pending, BorrowersBorrow
<1>10. ReferencesResolve'
  <2>1. \A a \in Assets : OnLoan(a)' => loan'[a].holder \in staff'
    BY <1>1, <1>4, <1>5 DEF BorrowInv, ReferencesResolve, OrphanLoans, OnLoan
  <2> QED
    BY <1>1, <1>6, <2>1 DEF BorrowInv, ReferencesResolve, OrphanLoans, Submitters
<1>11. LoansTraceable'
  <2>1. ASSUME NEW a \in Assets, loan'[a].request # 0
        PROVE  loan'[a] = loan[a]
    BY <1>4, <1>5, <2>1
  <2> QED
    BY <1>1, <2>1 DEF BorrowInv, LoansTraceable
<1>12. ClaimsReserve'
  <2>1. \A a \in Assets : loan'[a].request = 0 \/ loan'[a] = loan[a]
    BY <1>4, <1>5
  <2> QED
    BY <1>1, <2>1 DEF BorrowInv, ClaimsReserve
<1>13. TransfersConfirmed'
  BY <1>1, NoRows DEF TransfersConfirmed
<1>14. ASSUME NEW a \in Assets, OnLoan(a), loan'[a] # loan[a]
       PROVE  a \in DOMAIN sheet.rows /\ sheet.rows[a].confirmed
  <2>1. a \in AssignedBySheet
    BY <1>5, <1>14
  <2>2. a \in Rows("transfer")
    BY <1>14, <2>1 DEF AssignedBySheet
  <2> QED
    BY <2>2 DEF BorrowInv, TransfersConfirmed, Rows
<1> QED
  BY <1>7, <1>8, <1>9, <1>10, <1>11, <1>12, <1>13, <1>14 DEF BorrowInv

-----------------------------------------------------------------------------
(* The theorems. *)

\* An empty database satisfies the invariant.
LEMMA InitInv == BorrowInit => BorrowInv
<1> SUFFICES ASSUME BorrowInit PROVE BorrowInv
  OBVIOUS
<1>1. requests = << >> /\ Len(requests) = 0 /\ DOMAIN requests = {} /\ requests \in Seq(Request)
  BY DEF BorrowInit
<1>2. sheet = NoSheet /\ staff = Employees /\ history = {} /\ offboarded = {}
  BY DEF BorrowInit
<1>3. \A a \in Assets : loan[a] = NoLoan /\ claims[a] = 0 /\ status[a] # "assigned"
  BY DEF BorrowInit
<1>4. TypeOK
  BY <1>1, <1>2, BorrowConstantsOK, NoRows DEF TypeOK, BorrowInit
<1>5. NoLoan.request = 0 /\ 0 \notin Ids
  BY DEF NoLoan, Ids
<1>6. LoansMatchStatus /\ LoansTraceable /\ ClaimsReserve
  BY <1>3, <1>5 DEF LoansMatchStatus, LoanWithoutStatus, StatusWithoutLoan, OnLoan, LoansTraceable, ClaimsReserve
<1>7. ClaimsArePending /\ ReferencesResolve /\ BorrowersBorrow /\ TransfersConfirmed
  BY <1>1, <1>2, <1>3, <1>5, NoRows
     DEF ClaimsArePending, Pending, ReferencesResolve, OrphanLoans, OnLoan, BorrowersBorrow, TransfersConfirmed
<1> QED
  BY <1>4, <1>6, <1>7 DEF BorrowInv

\* Every operation preserves it.
LEMMA StepInv == BorrowInv /\ [BorrowNext]_borrowVars => BorrowInv'
<1> SUFFICES ASSUME BorrowInv, [BorrowNext]_borrowVars PROVE BorrowInv'
  OBVIOUS
<1>1. CASE Submission
  <2>1. PICK kind \in {"borrow", "return"}, e \in Employees \cup {Nobody},
             as \in (SUBSET Assets) \ {{}} : Submit(kind, e, as)
    BY <1>1 DEF Submission
  <2> QED
    BY <2>1, SubmitBorrowStep, SubmitReturnStep DEF Submit
<1>2. CASE Decision
  BY <1>2, ApproveBorrowStep, ApproveReturnStep, DenyStep DEF Decision
<1>3. CASE Import
  <2>1. CASE PreviewSheet
    BY <2>1, PreviewSheetStep
  <2>2. CASE CancelSheet
    BY <2>2, SheetEnds DEF CancelSheet
  <2>3. CASE ClassifySheet
    BY <2>3, ClassifySheetStep
  <2>4. CASE ApplySheet
    BY <2>4, ApplySheetStep
  <2>5. CASE RejectSheet
    BY <2>5, SheetEnds DEF RejectSheet
  <2>6. CASE \E a \in Assets : Register(a) \/ \E e \in Employees : ImportOwned(a, e)
    BY <2>6, RegisterStep, ImportOwnedStep
  <2> QED
    BY <1>3, <2>1, <2>2, <2>3, <2>4, <2>5, <2>6 DEF Import
<1>4. CASE Personnel
  BY <1>4, ChangeGroupStep, DeleteEmployeeStep DEF Personnel
<1>5. CASE UNCHANGED borrowVars
  <2>1. UNCHANGED <<status, loan, history, requests, claims, staff, offboarded, sheet>>
    BY <1>5 DEF borrowVars, lending
  <2>2. SheetType' /\ TransfersConfirmed'
    BY <2>1 DEF BorrowInv, TypeOK, SheetType, TransfersConfirmed
  <2> QED
    BY <2>1, <2>2, SheetFrame
<1> QED
  BY <1>1, <1>2, <1>3, <1>4, <1>5 DEF BorrowNext

\* The loan of an asset is replaced only by a confirmed row of the import.
TakeoverConfirmed ==
  \A a \in Assets : OnLoan(a) /\ OnLoan(a)' /\ loan'[a] # loan[a] =>
    a \in DOMAIN sheet.rows /\ sheet.rows[a].confirmed

\* Every step but the import's leaves a loan to its holder or ends it.
LEMMA StepTakeover == BorrowInv /\ [BorrowNext]_borrowVars => TakeoverConfirmed
<1> SUFFICES ASSUME BorrowInv, [BorrowNext]_borrowVars,
                    NEW a \in Assets, OnLoan(a), OnLoan(a)', loan'[a] # loan[a]
             PROVE  a \in DOMAIN sheet.rows /\ sheet.rows[a].confirmed
  BY DEF TakeoverConfirmed
<1>1. CASE ApplySheet
  BY <1>1, ApplySheetStep
<1>2. CASE \E r \in Ids : ApproveBorrow(r)
  BY <1>2 DEF ApproveBorrow, Lendable
<1>3. CASE \E r \in Ids : ApproveReturn(r)
  BY <1>3 DEF ApproveReturn, OnLoan
<1>4. CASE \E b \in Assets, e \in Employees : ImportOwned(b, e)
  <2>1. PICK b \in Assets, e \in Employees : ImportOwned(b, e)
    BY <1>4
  <2>2. a # b
    BY <2>1 DEF ImportOwned, BorrowInv, LoansMatchStatus, LoanWithoutStatus, StatusWithoutLoan
  <2> QED
    BY <2>1, <2>2 DEF ImportOwned, BorrowInv, TypeOK
<1>5. CASE UNCHANGED loan
  BY <1>5
<1> QED
  BY <1>1, <1>2, <1>3, <1>4, <1>5
     DEF BorrowNext, Submission, Submit, SubmitBorrow, SubmitReturn, Decision, Deny, Import,
         PreviewSheet, CancelSheet, ClassifySheet, RejectSheet, Register, Personnel, ChangeGroup,
         DeleteEmployee, borrowVars, lending

\* Whatever requests, decisions, imports and deletions happen in whatever order,
\* the invariant holds.
THEOREM BorrowInvariant == BorrowSpec => []BorrowInv
  BY InitInv, StepInv, PTL DEF BorrowSpec

\* Every variable of the lending module keeps its type.
THEOREM BorrowTypes == BorrowSpec => []TypeOK
<1>1. BorrowInv => TypeOK
  BY DEF BorrowInv
<1> QED
  BY <1>1, BorrowInvariant, PTL

\* An asset is marked assigned exactly while it has an active loan, although
\* approvals, returns and two imports write the two tables independently.
THEOREM StatusAgrees == BorrowSpec => []LoansMatchStatus
<1>1. BorrowInv => LoansMatchStatus
  BY DEF BorrowInv
<1> QED
  BY <1>1, BorrowInvariant, PTL

\* The claims are exactly those of the pending borrow requests.
THEOREM ClaimsExact == BorrowSpec => []ClaimsArePending
<1>1. BorrowInv => ClaimsArePending
  BY DEF BorrowInv
<1> QED
  BY <1>1, BorrowInvariant, PTL

\* While an asset is claimed no other request lends it.
THEOREM ClaimsHold == BorrowSpec => []ClaimsReserve
<1>1. BorrowInv => ClaimsReserve
  BY DEF BorrowInv
<1> QED
  BY <1>1, BorrowInvariant, PTL

\* Loans and requests never refer to a deleted employee.
THEOREM NothingDangles == BorrowSpec => []ReferencesResolve
<1>1. BorrowInv => ReferencesResolve
  BY DEF BorrowInv
<1> QED
  BY <1>1, BorrowInvariant, PTL

\* A loan made by a request stays the loan that was asked for.
THEOREM LoansFollowRequests == BorrowSpec => []LoansTraceable
<1>1. BorrowInv => LoansTraceable
  BY DEF BorrowInv
<1> QED
  BY <1>1, BorrowInvariant, PTL

\* Nobody loses a loan to an import without a confirmed transfer.
THEOREM TakeoversConfirmed == BorrowSpec => NoSilentTakeover
<1>1. BorrowInv /\ [BorrowNext]_borrowVars => [TakeoverConfirmed]_borrowVars
  BY StepTakeover
<1>2. BorrowSpec => [][TakeoverConfirmed]_borrowVars
  BY <1>1, BorrowInvariant, PTL DEF BorrowSpec
<1> QED
  BY <1>2 DEF NoSilentTakeover, TakeoverConfirmed

-----------------------------------------------------------------------------
(* Submissions over the network. *)

\* A request still within its window has its request id in the replay cache.
RecentAreSeen == \A r \in recent : evidence[r].id \in seen

\* A handler past the replay cache is the only one for its request id, and its
\* request id has no request within the window.
Recorded(h) == handler[h].pc = "recorded"
RecordedAreFirst ==
  \A h \in Handlers : Recorded(h) =>
    /\ handler[h].id \in seen
    /\ \A g \in Handlers : Recorded(g) /\ handler[g].id = handler[h].id => g = h
    /\ \A r \in recent : evidence[r].id # handler[h].id

\* A handler handles what a page has sent.
HandledWereSent == \A h \in Handlers : Busy(h) => sent[handler[h].id] \in Payload

SubmissionInv == /\ BorrowInv /\ SubmissionTypeOK /\ HandledWereSent
                 /\ OncePerWindow /\ RecentAreSeen /\ RecordedAreFirst

\* The places of a handler.
Places == {Waiting} \cup [pc : {"validated", "recorded"}, id : RequestIds]

\* What the places of a handler are.
LEMMA PlaceTypes ==
  /\ Waiting \in Places /\ Waiting.pc = "waiting"
  /\ \A id \in RequestIds, pc \in {"validated", "recorded"} : [pc |-> pc, id |-> id] \in Places
  /\ \A o \in Places : o.pc # "waiting" => o.pc \in {"validated", "recorded"} /\ o.id \in RequestIds
  BY DEF Places, Waiting

-----------------------------------------------------------------------------
(* A submission over the LAN is a submission. *)

\* The commit of a handler is a submission by somebody the requests know.
LEMMA AcceptIsSubmission ==
  ASSUME SubmissionInv, NEW h \in Handlers, Accept(h)
  PROVE  LET id == handler[h].id
             p == sent[id]
         IN  /\ id \in RequestIds /\ p \in Payload /\ Submission
             /\ requests' = Append(requests, NewRequest(p.kind, Submitter(p.by), p.assets))
             /\ NewRequest(p.kind, Submitter(p.by), p.assets) \in Request
             /\ Len(requests) < MaxRequests
             /\ p.kind = "borrow" => p.policy = policy
<1> DEFINE id == handler[h].id
           p == sent[id]
<1>1. id \in RequestIds /\ p \in Payload
  BY PlaceTypes DEF SubmissionInv, SubmissionTypeOK, HandledWereSent, Busy, Accept, Places
<1>2. /\ p.kind \in {"borrow", "return"} /\ p.assets \in (SUBSET Assets) \ {{}}
      /\ p.by \in Employees \cup {Nobody}
  BY <1>1 DEF Payload
<1>3. TypeOK
  BY DEF SubmissionInv, BorrowInv
<1>4. Submitter(p.by) \in Employees \cup {Nobody} /\ Submitter(p.by) \in Submitters
  BY <1>2, <1>3 DEF Submitter, Submitters, TypeOK
<1>5. /\ Submit(p.kind, Submitter(p.by), p.assets) /\ Validates(p)
  BY DEF Accept
<1>6. Submission
  BY <1>2, <1>4, <1>5 DEF Submission
<1>7. /\ Len(requests) < MaxRequests
      /\ requests' = Append(requests, NewRequest(p.kind, Submitter(p.by), p.assets))
      /\ p.kind = "return" => Returnable(p.assets)
  <2>1. CASE p.kind = "borrow"
    BY <1>5, <2>1 DEF Submit, SubmitBorrow
  <2>2. CASE p.kind = "return"
    BY <1>5, <2>2 DEF Submit, SubmitReturn
  <2> QED
    BY <1>2, <2>1, <2>2
<1>8. NewRequest(p.kind, Submitter(p.by), p.assets) \in Request
  BY <1>2, <1>3, <1>4, <1>7, NewRequestType
<1>9. p.kind = "borrow" => p.policy = policy
  BY <1>5 DEF Validates, ConfirmsPolicy
<1> QED
  BY <1>1, <1>6, <1>7, <1>8, <1>9

\* Every step of the submission over the LAN is a step of the requests, or leaves
\* them alone.
LEMMA SubmissionSteps ==
  ASSUME SubmissionInv, [SubmissionNext]_submissionVars
  PROVE  [BorrowNext]_borrowVars
<1>1. ASSUME NEW h \in Handlers, Accept(h) PROVE BorrowNext
  BY <1>1, AcceptIsSubmission DEF BorrowNext
<1>2. Decision \/ Personnel => BorrowNext
  BY DEF BorrowNext
<1> QED
  BY <1>1, <1>2 DEF SubmissionNext, submissionVars, Forget, Click, Serve, CheckAndRecord, Refuse,
                    Arrive, SavePolicy, Restart

-----------------------------------------------------------------------------
(* Every action preserves the invariant. *)

\* What a commit adds.
LEMMA AcceptEffect ==
  ASSUME SubmissionInv, NEW h \in Handlers, Accept(h)
  PROVE  LET n == Len(requests) + 1
             id == handler[h].id
         IN  /\ id \in RequestIds /\ handler[h].pc = "recorded"
             /\ evidence' \in Seq([id : RequestIds, policy : 0..MaxPolicy])
             /\ Len(evidence') = n /\ Len(requests') = n /\ n \in Nat
             /\ DOMAIN requests' = DOMAIN requests \cup {n} /\ n \notin DOMAIN requests
             /\ \A r \in DOMAIN requests : evidence'[r] = evidence[r]
             /\ evidence'[n].id = id /\ evidence'[n].policy = sent[id].policy
             /\ recent' = recent \cup {n}
             /\ requests'[n].kind = sent[id].kind
<1> DEFINE id == handler[h].id
           p == sent[id]
           e == [id |-> id, policy |-> p.policy]
           q == NewRequest(p.kind, Submitter(p.by), p.assets)
           Entry == [id : RequestIds, policy : 0..MaxPolicy]
<1>1. /\ id \in RequestIds /\ p \in Payload /\ q \in Request
      /\ requests' = Append(requests, q) /\ Len(requests) < MaxRequests
  BY AcceptIsSubmission
<1>2. TypeOK /\ requests \in Seq(Request)
  BY DEF SubmissionInv, BorrowInv, TypeOK
<1>3. e \in Entry /\ evidence \in Seq(Entry) /\ Len(evidence) = Len(requests)
  BY <1>1 DEF Payload, SubmissionInv, SubmissionTypeOK
<1>4. evidence' = Append(evidence, e) /\ recent' = recent \cup {Len(requests')}
  BY DEF Accept
<1>5. /\ Len(requests') = Len(requests) + 1
      /\ DOMAIN requests' = DOMAIN requests \cup {Len(requests) + 1}
      /\ Len(requests) + 1 \notin DOMAIN requests
      /\ requests'[Len(requests) + 1] = q
  BY <1>1, <1>2, AppendEffect
<1>6. DOMAIN requests = 1..Len(requests) /\ Len(requests) \in Nat
  BY <1>2, RequestType
<1>7. /\ evidence' \in Seq(Entry) /\ Len(evidence') = Len(requests) + 1
      /\ \A r \in DOMAIN requests : evidence'[r] = evidence[r]
      /\ evidence'[Len(requests) + 1] = e
  BY <1>3, <1>4, <1>6, AppendProperties
<1>8. q.kind = p.kind
  BY DEF NewRequest
<1>9. handler[h].pc = "recorded" /\ e.id = id /\ e.policy = p.policy
  BY DEF Accept
<1> DEFINE n == Len(requests) + 1
<1>10. /\ Len(evidence') = n /\ Len(requests') = n /\ n \in Nat
       /\ evidence'[n].id = id /\ evidence'[n].policy = p.policy
       /\ recent' = recent \cup {n} /\ requests'[n].kind = p.kind
  BY <1>4, <1>5, <1>6, <1>7, <1>8, <1>9
<1> HIDE DEF e, q
<1> QED
  BY <1>1, <1>5, <1>7, <1>9, <1>10

\* A step that moves one handler leaves the others.
LEMMA HandlerEffect ==
  ASSUME SubmissionTypeOK, NEW h \in Handlers, NEW o \in Places, handler' = [handler EXCEPT ![h] = o]
  PROVE  handler' \in [Handlers -> Places] /\ handler'[h] = o
         /\ \A g \in Handlers \ {h} : handler'[g] = handler[g]
  BY DEF SubmissionTypeOK, Places

\* What the invariant says of the submissions, apart from the requests.
OnceInv == SubmissionTypeOK /\ HandledWereSent /\ OncePerWindow /\ RecentAreSeen /\ RecordedAreFirst

\* A page sends under an id that was not used.
LEMMA ClickStep ==
  ASSUME SubmissionInv, NEW id \in RequestIds, NEW p \in Payload, Click(id, p)
  PROVE  OnceInv'
<1>1. /\ sent' = [sent EXCEPT ![id] = p]
      /\ UNCHANGED <<requests, policy, seen, handler, evidence, recent>>
  BY DEF Click, borrowVars, lending
<1>2. sent' \in [RequestIds -> Payload \cup {Unsent}]
  BY <1>1 DEF SubmissionInv, SubmissionTypeOK
<1>3. \A i \in RequestIds : sent[i] \in Payload => sent'[i] \in Payload
  BY <1>1 DEF SubmissionInv, SubmissionTypeOK
<1>4. \A h \in Handlers : Busy(h) => handler[h].id \in RequestIds
  BY PlaceTypes DEF SubmissionInv, SubmissionTypeOK, Busy, Places
<1>5. HandledWereSent'
  BY <1>1, <1>3, <1>4 DEF SubmissionInv, HandledWereSent, Busy
<1> QED
  BY <1>1, <1>2, <1>5
     DEF SubmissionInv, OnceInv, SubmissionTypeOK, OncePerWindow, RecentAreSeen, RecordedAreFirst,
         Recorded

\* A copy that validates gets a handler.
LEMMA ArriveStep ==
  ASSUME SubmissionInv, NEW h \in Handlers, NEW id \in RequestIds, Arrive(h, id)
  PROVE  OnceInv'
<1> DEFINE o == [pc |-> "validated", id |-> id]
<1>1. /\ SubmissionTypeOK /\ handler' = [handler EXCEPT ![h] = o] /\ sent[id] # Unsent
      /\ UNCHANGED <<requests, policy, sent, seen, evidence, recent>>
  BY DEF Arrive, SubmissionInv, borrowVars, lending
<1>2. o \in Places /\ o.pc = "validated" /\ o.id = id
  BY PlaceTypes
<1> HIDE DEF o
<1>3. /\ handler' \in [Handlers -> Places] /\ handler'[h] = o
      /\ \A g \in Handlers \ {h} : handler'[g] = handler[g]
  BY <1>1, <1>2, HandlerEffect
<1>4. sent[id] \in Payload
  BY <1>1 DEF SubmissionTypeOK
<1>5. HandledWereSent'
  BY <1>1, <1>2, <1>3, <1>4 DEF SubmissionInv, HandledWereSent, Busy
<1>6. RecordedAreFirst'
  BY <1>1, <1>2, <1>3 DEF SubmissionInv, RecordedAreFirst, Recorded
<1> QED
  BY <1>1, <1>3, <1>5, <1>6
     DEF SubmissionInv, OnceInv, SubmissionTypeOK, OncePerWindow, RecentAreSeen, Places

\* The replay cache lets the first copy of a request pass.
LEMMA CheckAndRecordStep ==
  ASSUME SubmissionInv, NEW h \in Handlers, CheckAndRecord(h)
  PROVE  OnceInv'
<1> DEFINE id == handler[h].id
           o == IF id \in seen THEN Waiting ELSE [pc |-> "recorded", id |-> id]
<1>1. /\ SubmissionTypeOK /\ handler' = [handler EXCEPT ![h] = o] /\ handler[h].pc = "validated"
      /\ seen' = seen \cup {id}
      /\ UNCHANGED <<requests, policy, sent, evidence, recent>>
  BY DEF CheckAndRecord, SubmissionInv, borrowVars, lending
<1>2. id \in RequestIds /\ sent[id] \in Payload
  BY <1>1, PlaceTypes DEF SubmissionInv, SubmissionTypeOK, HandledWereSent, Busy, Places
<1>3. o \in Places /\ (o.pc # "waiting" => o.pc = "recorded" /\ o.id = id /\ id \notin seen)
  BY <1>2, PlaceTypes
<1> HIDE DEF o
<1>4. /\ handler' \in [Handlers -> Places] /\ handler'[h] = o
      /\ \A g \in Handlers \ {h} : handler'[g] = handler[g]
  BY <1>1, <1>3, HandlerEffect
<1>5. HandledWereSent'
  BY <1>1, <1>2, <1>3, <1>4 DEF SubmissionInv, HandledWereSent, Busy
<1>6. RecentAreSeen'
  BY <1>1 DEF SubmissionInv, RecentAreSeen
<1>7. RecordedAreFirst'
  <2>1. \A g \in Handlers : Recorded(g) => handler[g].id \in seen
    BY DEF SubmissionInv, RecordedAreFirst
  <2>2. \A r \in recent : evidence[r].id \in seen
    BY DEF SubmissionInv, RecentAreSeen
  <2> QED
    BY <1>1, <1>3, <1>4, <2>1, <2>2 DEF SubmissionInv, RecordedAreFirst, Recorded
<1>8. SubmissionTypeOK'
  BY <1>1, <1>2, <1>4 DEF SubmissionTypeOK, Places
<1> QED
  BY <1>1, <1>5, <1>6, <1>7, <1>8 DEF SubmissionInv, OnceInv, OncePerWindow

\* A commit is the first of its request id within the window.
LEMMA AcceptStep ==
  ASSUME SubmissionInv, NEW h \in Handlers, Accept(h)
  PROVE  OnceInv'
<1> DEFINE id == handler[h].id
           n == Len(requests) + 1
<1>1. /\ SubmissionTypeOK /\ handler' = [handler EXCEPT ![h] = Waiting]
      /\ UNCHANGED <<policy, sent, seen>>
  BY DEF Accept, SubmissionInv
<1>2. /\ id \in RequestIds /\ handler[h].pc = "recorded"
      /\ evidence' \in Seq([id : RequestIds, policy : 0..MaxPolicy])
      /\ Len(evidence') = n /\ Len(requests') = n
      /\ DOMAIN requests' = DOMAIN requests \cup {n} /\ n \notin DOMAIN requests
      /\ \A r \in DOMAIN requests : evidence'[r] = evidence[r]
      /\ evidence'[n].id = id /\ recent' = recent \cup {n}
  BY AcceptEffect
<1>3. /\ handler' \in [Handlers -> Places] /\ handler'[h].pc = "waiting"
      /\ \A g \in Handlers \ {h} : handler'[g] = handler[g]
  BY <1>1, PlaceTypes, HandlerEffect
<1>4. /\ id \in seen /\ \A r \in recent : evidence[r].id # id
      /\ \A g \in Handlers : Recorded(g) /\ handler[g].id = id => g = h
  BY <1>2 DEF SubmissionInv, RecordedAreFirst, Recorded
<1>5. recent \subseteq DOMAIN requests
  BY <1>1 DEF SubmissionTypeOK
<1>6. OncePerWindow'
  BY <1>2, <1>4, <1>5 DEF SubmissionInv, OncePerWindow
<1>7. RecentAreSeen'
  BY <1>1, <1>2, <1>4, <1>5 DEF SubmissionInv, RecentAreSeen
<1>8. RecordedAreFirst'
  <2> SUFFICES ASSUME NEW g \in Handlers, handler'[g].pc = "recorded"
               PROVE  /\ handler'[g].id \in seen'
                      /\ \A k \in Handlers : handler'[k].pc = "recorded" /\ handler'[k].id = handler'[g].id => k = g
                      /\ \A r \in recent' : evidence'[r].id # handler'[g].id
    BY DEF RecordedAreFirst, Recorded
  <2>1. g # h /\ handler'[g] = handler[g] /\ Recorded(g)
    BY <1>3 DEF Recorded
  <2>2. /\ handler[g].id \in seen
        /\ \A k \in Handlers : Recorded(k) /\ handler[k].id = handler[g].id => k = g
        /\ \A r \in recent : evidence[r].id # handler[g].id
    BY <2>1 DEF SubmissionInv, RecordedAreFirst
  <2>3. \A k \in Handlers : handler'[k].pc = "recorded" => Recorded(k) /\ handler'[k] = handler[k]
    BY <1>3 DEF Recorded
  <2>4. handler[g].id # id
    BY <1>4, <2>1
  <2>5. \A r \in recent' : evidence'[r].id # handler'[g].id
    BY <1>2, <1>5, <2>1, <2>2, <2>4
  <2> QED
    BY <1>1, <2>1, <2>2, <2>3, <2>5
<1>9. HandledWereSent'
  BY <1>1, <1>3 DEF SubmissionInv, HandledWereSent, Busy
<1>10. SubmissionTypeOK'
  BY <1>1, <1>2, <1>3, <1>5 DEF SubmissionTypeOK, Places
<1> QED
  BY <1>6, <1>7, <1>8, <1>9, <1>10 DEF OnceInv

\* A refused copy leaves its id recorded.
LEMMA RefuseStep ==
  ASSUME SubmissionInv, NEW h \in Handlers, Refuse(h)
  PROVE  OnceInv'
<1>1. /\ SubmissionTypeOK /\ handler' = [handler EXCEPT ![h] = Waiting]
      /\ UNCHANGED <<requests, policy, sent, seen, evidence, recent>>
  BY DEF Refuse, SubmissionInv, borrowVars, lending
<1>2. /\ handler' \in [Handlers -> Places] /\ handler'[h].pc = "waiting"
      /\ \A g \in Handlers \ {h} : handler'[g] = handler[g]
  BY <1>1, PlaceTypes, HandlerEffect
<1> QED
  BY <1>1, <1>2 DEF SubmissionInv, OnceInv, SubmissionTypeOK, Places, HandledWereSent, Busy,
                    OncePerWindow, RecentAreSeen, RecordedAreFirst, Recorded

\* A request id is forgotten with its requests, and only when no handler has it.
LEMMA ForgetStep ==
  ASSUME SubmissionInv, NEW id \in RequestIds, Forget(id)
  PROVE  OnceInv'
<1>1. /\ seen' = seen \ {id} /\ recent' = {r \in recent : evidence[r].id # id}
      /\ \A h \in Handlers : Busy(h) => handler[h].id # id
      /\ UNCHANGED <<requests, policy, sent, handler, evidence>>
  BY DEF Forget, borrowVars, lending
<1>2. \A h \in Handlers : Recorded(h) => Busy(h)
  BY DEF Recorded, Busy
<1>3. SubmissionTypeOK' /\ HandledWereSent' /\ OncePerWindow' /\ RecentAreSeen'
  BY <1>1 DEF SubmissionInv, SubmissionTypeOK, HandledWereSent, Busy, OncePerWindow, RecentAreSeen
<1>4. RecordedAreFirst'
  BY <1>1, <1>2 DEF SubmissionInv, RecordedAreFirst, Recorded
<1> QED
  BY <1>3, <1>4 DEF OnceInv

\* A new policy, a restart, decisions and staff changes make no request.
LEMMA QuietSubmissionStep ==
  ASSUME SubmissionInv,
         \/ SavePolicy \/ Restart
         \/ (Decision \/ Personnel) /\ UNCHANGED lan
         \/ UNCHANGED submissionVars
  PROVE  OnceInv' /\ DOMAIN requests' = DOMAIN requests
<1>1. CASE SavePolicy
  <2>1. /\ policy < MaxPolicy /\ policy' = policy + 1
        /\ UNCHANGED <<requests, sent, seen, handler, evidence, recent>>
    BY <1>1 DEF SavePolicy, borrowVars, lending
  <2>2. policy' \in 0..MaxPolicy
    BY <2>1, SubmissionConstantsOK DEF SubmissionInv, SubmissionTypeOK
  <2> QED
    BY <2>1, <2>2 DEF SubmissionInv, OnceInv, SubmissionTypeOK, HandledWereSent, Busy,
                      OncePerWindow, RecentAreSeen, RecordedAreFirst, Recorded
<1>2. CASE Restart
  <2>1. /\ seen' = {} /\ recent' = {} /\ UNCHANGED <<requests, policy, sent, evidence>>
        /\ handler' = [h \in Handlers |-> Waiting]
    BY <1>2 DEF Restart, borrowVars, lending
  <2> QED
    BY <2>1, PlaceTypes
       DEF SubmissionInv, OnceInv, SubmissionTypeOK, HandledWereSent, Busy,
           OncePerWindow, RecentAreSeen, RecordedAreFirst, Recorded
<1>3. ASSUME UNCHANGED lan, Len(requests') = Len(requests), DOMAIN requests' = DOMAIN requests
      PROVE  OnceInv'
  BY <1>3 DEF SubmissionInv, OnceInv, SubmissionTypeOK, lan, HandledWereSent, Busy,
              OncePerWindow, RecentAreSeen, RecordedAreFirst, Recorded
<1>4. TypeOK
  BY DEF SubmissionInv, BorrowInv
<1>5. ASSUME NEW r \in DOMAIN requests, NEW v \in {"approved", "rejected", "cancelled"}, Decide(r, v)
      PROVE  Len(requests') = Len(requests) /\ DOMAIN requests' = DOMAIN requests
  BY <1>4, <1>5, DecideEffect
<1>6. Decision => Len(requests') = Len(requests) /\ DOMAIN requests' = DOMAIN requests
  BY <1>5 DEF Decision, ApproveBorrow, ApproveReturn, Deny, Pending
<1>7. ASSUME NEW e \in Employees, DeleteEmployee(e)
      PROVE  Len(requests') = Len(requests) /\ DOMAIN requests' = DOMAIN requests
  <2>1. DOMAIN requests' = DOMAIN requests
    BY <1>7 DEF DeleteEmployee
  <2>2. BorrowInv'
    BY <1>7, StepInv DEF SubmissionInv, BorrowNext, Personnel
  <2>3. (TypeOK => DOMAIN requests = 1..Len(requests) /\ Len(requests) \in Nat)'
    BY RequestType, PTL
  <2>4. DOMAIN requests = 1..Len(requests) /\ Len(requests) \in Nat
    BY <1>4, RequestType
  <2> QED
    BY <2>1, <2>2, <2>3, <2>4 DEF BorrowInv
<1>8. Personnel => Len(requests') = Len(requests) /\ DOMAIN requests' = DOMAIN requests
  BY <1>7 DEF Personnel, ChangeGroup, lending
<1>9. UNCHANGED submissionVars => UNCHANGED lan /\ UNCHANGED requests
  BY DEF submissionVars, lan, borrowVars, lending
<1> QED
  BY <1>1, <1>2, <1>3, <1>6, <1>8, <1>9 DEF SavePolicy, Restart, borrowVars, lending

-----------------------------------------------------------------------------
(* The theorems. *)

\* The invariant holds at the start and every step keeps it.
LEMMA SubmissionInductive ==
  /\ SubmissionInit => SubmissionInv
  /\ SubmissionInv /\ [SubmissionNext]_submissionVars => SubmissionInv'
<1>1. ASSUME SubmissionInit PROVE SubmissionInv
  <2>1. BorrowInv
    BY <1>1, InitInv DEF SubmissionInit
  <2>2. /\ requests = <<>> /\ evidence = <<>> /\ recent = {} /\ seen = {}
        /\ policy \in 0..MaxPolicy /\ handler = [h \in Handlers |-> Waiting]
        /\ sent = [id \in RequestIds |-> Unsent]
    BY <1>1 DEF SubmissionInit, BorrowInit
  <2> QED
    BY <2>1, <2>2, PlaceTypes
       DEF SubmissionInv, SubmissionTypeOK, HandledWereSent, Busy, OncePerWindow, RecentAreSeen,
           RecordedAreFirst, Recorded
<1>2. ASSUME SubmissionInv, [SubmissionNext]_submissionVars PROVE SubmissionInv'
  <2>1. BorrowInv'
    BY <1>2, SubmissionSteps, StepInv DEF SubmissionInv
  <2>2. OnceInv'
    BY <1>2, ClickStep, ArriveStep, CheckAndRecordStep, AcceptStep, RefuseStep, ForgetStep,
       QuietSubmissionStep DEF SubmissionNext, Serve
  <2> QED
    BY <2>1, <2>2 DEF SubmissionInv, OnceInv
<1> QED
  BY <1>1, <1>2

\* The invariant of the submissions holds, for any number of handlers and ids.
THEOREM SubmissionInvariant == SubmissionSpec => []SubmissionInv
  BY SubmissionInductive, PTL DEF SubmissionSpec

\* Requests that come over the LAN, however often each is delivered, are requests:
\* the submission implements the specification of the requests, and what holds of
\* requests, claims and loans holds of it.
THEOREM LanImplementsBorrow == SubmissionSpec => BorrowSpec
<1>1. SubmissionInit => BorrowInit
  BY DEF SubmissionInit
<1>2. SubmissionInv /\ [SubmissionNext]_submissionVars => [BorrowNext]_borrowVars
  BY SubmissionSteps
<1> QED
  BY <1>1, <1>2, SubmissionInvariant, PTL DEF SubmissionSpec, BorrowSpec

\* Within the life of its replay entry a request is committed once, for any number
\* of copies and handlers.
THEOREM CommittedOnce == SubmissionSpec => []OncePerWindow
<1>1. SubmissionInv => OncePerWindow
  BY DEF SubmissionInv
<1> QED
  BY <1>1, SubmissionInvariant, PTL

\* What a new borrow request acknowledges.
FreshEvidence ==
  \A r \in DOMAIN requests' \ DOMAIN requests :
    requests'[r].kind = "borrow" => evidence'[r].policy = policy

\* The evidence of a borrow request names the policy in force at its commit.
THEOREM CurrentEvidence == SubmissionSpec => EvidenceIsCurrent
<1>1. ASSUME SubmissionInv, [SubmissionNext]_submissionVars PROVE FreshEvidence
  <2>1. ASSUME NEW h \in Handlers, Accept(h) PROVE FreshEvidence
    <3>1. sent[handler[h].id].kind = "borrow" => sent[handler[h].id].policy = policy
      BY <1>1, <2>1, AcceptIsSubmission
    <3> QED
      BY <1>1, <2>1, <3>1, AcceptEffect DEF FreshEvidence
  <2>2. ASSUME DOMAIN requests' = DOMAIN requests PROVE FreshEvidence
    BY <2>2 DEF FreshEvidence
  <2>3. UNCHANGED requests => DOMAIN requests' = DOMAIN requests
    OBVIOUS
  <2> QED
    BY <1>1, <2>1, <2>2, <2>3, QuietSubmissionStep
       DEF SubmissionNext, Forget, Click, Serve, CheckAndRecord, Refuse, Arrive, borrowVars, lending
<1>2. SubmissionInv /\ [SubmissionNext]_submissionVars => [FreshEvidence]_submissionVars
  BY <1>1
<1>3. SubmissionSpec => [][FreshEvidence]_submissionVars
  BY <1>2, SubmissionInvariant, PTL DEF SubmissionSpec
<1> QED
  BY <1>3 DEF EvidenceIsCurrent, FreshEvidence

-----------------------------------------------------------------------------
(* The life of the LAN server and of its token. *)


\* The lifecycle lock is held exactly by the task between its acquisition and its
\* release, so at most one start or stop is past it.
Holding(t) == op[t].pc \in {"bind", "abort", "revoke"}
OneHolder == \A t \in Tasks : Holding(t) <=> lifecycle = t

\* A stop leaves no managed listener, and none appears before it ends; a task that
\* issues a token has seen a listener.
Stopping(t) == op[t].pc \in {"abort", "revoke"}
StopsEmptyTheSlot ==
  \A t \in Tasks : /\ Stopping(t) => slot = 0
                   /\ At(t, "issue") => op[t].life # 0

\* A listener whose task has not ended is managed, or a stop has it in hand.
InHand(k) == \E t \in Tasks : op[t] = [pc |-> "abort", life |-> k]
LiveOnesAreHeld ==
  \A k \in Lives : listener[k] \in {"serving", "returned"} => slot = k \/ InHand(k)

\* A server that is up, or that a start is about to bind, although it was disabled
\* has a stop ahead of it: the task that wrote the setting has not yet read it
\* back, or it is on its way to the stop.
StopAhead == \E t \in Tasks : op[t].pc \in {"off", "audit", "take"}
DisabledIsStopped ==
  ~enabled /\ (slot # 0 \/ \E t \in Tasks : At(t, "bind")) => unstopped \/ StopAhead

\* A token made for the managed server is that of the slot, except while a stop is
\* between taking the server and revoking its token.
TokenOfTheSlot ==
  token # Nil /\ token.current => slot = token.seen \/ \E t \in Tasks : Stopping(t)

LanInv == /\ LanTypeOK /\ OneHolder /\ StopsEmptyTheSlot /\ LiveOnesAreHeld
          /\ DisabledIsStopped /\ TokenOfTheSlot

-----------------------------------------------------------------------------
(* Steps of one task. *)

\* A step of a task leaves the others where they are.
LEMMA StepEffect ==
  ASSUME LanTypeOK, NEW t \in Tasks, NEW from, NEW o \in Op, Step(t, from, o)
  PROVE  /\ op' \in [Tasks -> Op] /\ op[t].pc = from
         /\ op'[t] = o /\ \A u \in Tasks \ {t} : op'[u] = op[u]
  BY DEF LanTypeOK, Step, Go, At

\* The places of a task, as elements of the type.
LEMMA OpType ==
  /\ Idle \in Op /\ Idle.pc = "idle"
  /\ \A pc \in {"lock", "bind", "take", "off", "audit"} : [pc |-> pc] \in Op
  /\ \A pc \in {"abort", "revoke", "issue"}, k \in Lives \cup {0} : [pc |-> pc, life |-> k] \in Op
  /\ \A o \in Op : /\ o.pc \in {"idle", "lock", "bind", "take", "off", "audit",
                                "abort", "revoke", "issue"}
                   /\ o.pc \in {"abort", "revoke", "issue"} =>
                        o.life \in Lives \cup {0} /\ o = [pc |-> o.pc, life |-> o.life]
  BY DEF Op, Idle

\* Lives are positive numbers.
LEMMA LivesArePositive == 0 \notin Lives /\ Lives \subseteq Nat
  BY LanConstantsOK DEF Lives

\* A stop has the lock, hence no other task is at the bind or in a stop.
LEMMA HolderIsAlone ==
  ASSUME LanInv, NEW t \in Tasks, Holding(t)
  PROVE  /\ lifecycle = t
         /\ \A u \in Tasks \ {t} : ~Holding(u)
  BY LanConstantsOK DEF LanInv, OneHolder

\* While nobody holds the lock nothing is bound or stopped.
LEMMA NobodyHolds ==
  ASSUME LanInv, lifecycle = Nil, NEW t \in Tasks
  PROVE  ~Holding(t)
  BY LanConstantsOK DEF LanInv, OneHolder

\* A listener in hand stays so as long as no task at the abort moves.
LEMMA InHandStays ==
  ASSUME NEW k, InHand(k),
         \A t \in Tasks : op[t].pc = "abort" => op'[t] = op[t]
  PROVE  InHand(k)'
<1>1. PICK t \in Tasks : op[t] = [pc |-> "abort", life |-> k]
  BY DEF InHand
<1>2. op[t].pc = "abort"
  BY <1>1
<1>3. op'[t] = [pc |-> "abort", life |-> k]
  BY <1>1, <1>2
<1> QED
  BY <1>3 DEF InHand

\* A listener in hand is held by a task at the abort.
LEMMA InHandHolds ==
  ASSUME NEW k, InHand(k)
  PROVE  \E t \in Tasks : op[t].pc = "abort" /\ op[t].life = k
<1>1. PICK t \in Tasks : op[t] = [pc |-> "abort", life |-> k]
  BY DEF InHand
<1>2. op[t].pc = "abort" /\ op[t].life = k
  BY <1>1
<1> QED
  BY <1>2

-----------------------------------------------------------------------------
(* Every action preserves the invariant. *)

\* The start and the stop commands only queue for the lock.
LEMMA BeginStep ==
  ASSUME LanInv, NEW t \in Tasks, BeginStart(t) \/ BeginStop(t)
  PROVE  LanInv'
<1>1. PICK o \in {[pc |-> "lock"], [pc |-> "take"]} : Step(t, "idle", o)
  BY DEF BeginStart, BeginStop
<1>2. o \in Op /\ LanTypeOK
  BY OpType DEF LanInv
<1>3. /\ op' \in [Tasks -> Op] /\ op[t].pc = "idle" /\ op'[t] = o
      /\ \A u \in Tasks \ {t} : op'[u] = op[u]
  BY <1>1, <1>2, StepEffect
<1>4. UNCHANGED <<enabled, slot, listener, token, lifecycle, unstopped>>
  BY DEF BeginStart, BeginStop
<1>5. LanTypeOK'
  BY <1>2, <1>3, <1>4 DEF LanTypeOK
<1>6. OneHolder' /\ StopsEmptyTheSlot'
  BY <1>1, <1>3, <1>4 DEF LanInv, OneHolder, Holding, StopsEmptyTheSlot, Stopping, At
<1>7. LiveOnesAreHeld'
  BY <1>3, <1>4, InHandStays DEF LanInv, LiveOnesAreHeld
<1>8. DisabledIsStopped'
  BY <1>1, <1>3, <1>4 DEF LanInv, DisabledIsStopped, StopAhead, At
<1>9. TokenOfTheSlot'
  BY <1>1, <1>3, <1>4 DEF LanInv, TokenOfTheSlot, Stopping
<1> QED
  BY <1>5, <1>6, <1>7, <1>8, <1>9 DEF LanInv

\* A start takes the free lock when the server is enabled.
LEMMA ReadEnabledStep ==
  ASSUME LanInv, NEW t \in Tasks, ReadEnabled(t)
  PROVE  LanInv'
<1> DEFINE o == IF enabled THEN [pc |-> "bind"] ELSE Idle
<1>1. o \in Op /\ LanTypeOK /\ o.pc = IF enabled THEN "bind" ELSE "idle"
  BY OpType DEF LanInv
<1>2. /\ op' \in [Tasks -> Op] /\ op[t].pc = "lock" /\ op'[t] = o
      /\ \A u \in Tasks \ {t} : op'[u] = op[u]
  BY <1>1, StepEffect DEF ReadEnabled
<1>3. /\ UNCHANGED <<enabled, slot, listener, token, unstopped>> /\ lifecycle = Nil
      /\ lifecycle' = IF enabled THEN t ELSE Nil
  BY DEF ReadEnabled
<1>4. \A u \in Tasks : ~Holding(u)
  BY <1>3, NobodyHolds
<1>5. LanTypeOK'
  BY <1>1, <1>2, <1>3 DEF LanTypeOK
<1>6. OneHolder' /\ StopsEmptyTheSlot'
  BY <1>1, <1>2, <1>3, <1>4, LanConstantsOK
     DEF LanInv, OneHolder, Holding, StopsEmptyTheSlot, Stopping, At
<1>7. LiveOnesAreHeld'
  BY <1>2, <1>3, InHandStays DEF LanInv, LiveOnesAreHeld
<1>8. DisabledIsStopped'
  BY <1>1, <1>2, <1>3 DEF LanInv, DisabledIsStopped, StopAhead, At
<1>9. TokenOfTheSlot'
  BY <1>1, <1>2, <1>3 DEF LanInv, TokenOfTheSlot, Stopping
<1> QED
  BY <1>5, <1>6, <1>7, <1>8, <1>9 DEF LanInv

\* While a start is at the bind, an unfinished listener is the managed one.
LEMMA LiveAtBind ==
  ASSUME LanInv, NEW t \in Tasks, At(t, "bind") \/ At(t, "revoke")
  PROVE  \A k \in Lives : listener[k] \in {"serving", "returned"} => slot = k
<1>1. Holding(t) /\ op[t].pc # "abort"
  BY DEF Holding, At
<1>2. \A u \in Tasks : op[u].pc # "abort"
  BY <1>1, HolderIsAlone DEF Holding
<1> QED
  BY <1>2, InHandHolds DEF LanInv, LiveOnesAreHeld

\* A start finds a server, or it drops one that ended with its token and binds a
\* new listener or none.
LEMMA BindStep ==
  ASSUME LanInv, NEW t \in Tasks, Bind(t)
  PROVE  LanInv'
<1>1. Idle \in Op /\ LanTypeOK /\ Idle.pc = "idle"
  BY OpType DEF LanInv
<1>2. /\ op' \in [Tasks -> Op] /\ op[t].pc = "bind" /\ op'[t] = Idle
      /\ \A u \in Tasks \ {t} : op'[u] = op[u]
  BY <1>1, StepEffect DEF Bind
<1>3. UNCHANGED <<enabled, unstopped>> /\ lifecycle' = Nil
  BY DEF Bind
<1>4. \A u \in Tasks : u # t => ~Holding(u)
  BY <1>2, HolderIsAlone DEF Holding
<1>5. \A u \in Tasks : op'[u].pc \notin {"bind", "abort", "revoke"}
  BY <1>1, <1>2, <1>4 DEF Holding
<1>6. \A k \in Lives : listener[k] \in {"serving", "returned"} => slot = k
  BY <1>2, LiveAtBind DEF At
<1>7. token # Nil /\ token.current => slot = token.seen
  BY <1>2, <1>4 DEF LanInv, TokenOfTheSlot, Stopping, Holding
<1>8. OneHolder' /\ StopsEmptyTheSlot'
  BY <1>1, <1>2, <1>3, <1>5, LanConstantsOK
     DEF LanInv, OneHolder, Holding, StopsEmptyTheSlot, Stopping, At
<1>9. DisabledIsStopped'
  BY <1>1, <1>2, <1>3, <1>5 DEF LanInv, DisabledIsStopped, StopAhead, At
<1>10. CASE UNCHANGED <<slot, listener, token>>
  <2>1. LanTypeOK'
    BY <1>1, <1>2, <1>3, <1>10 DEF LanTypeOK
  <2>2. LiveOnesAreHeld' /\ TokenOfTheSlot'
    BY <1>6, <1>7, <1>10 DEF LiveOnesAreHeld, TokenOfTheSlot
  <2> QED
    BY <1>8, <1>9, <2>1, <2>2 DEF LanInv
<1>11. CASE /\ SlotIsFree /\ token' = IF slot = 0 THEN token ELSE Nil
            /\ \/ slot' = 0 /\ UNCHANGED listener
               \/ \E k \in Lives : /\ Fresh(k) /\ slot' = k
                                   /\ listener' = [listener EXCEPT ![k] = "serving"]
  <2>1. LanTypeOK'
    BY <1>1, <1>2, <1>3, <1>11 DEF LanTypeOK
  <2>2. \A k \in Lives : listener[k] \notin {"serving", "returned"}
    BY <1>6, <1>11, LivesArePositive DEF SlotIsFree, Finished
  <2>3. LiveOnesAreHeld'
    BY <1>1, <1>11, <2>2 DEF LiveOnesAreHeld, LanTypeOK
  <2>4. slot = 0 /\ token # Nil => ~token.current
    BY <1>1, <1>7, LivesArePositive DEF LanTypeOK, Token
  <2>5. TokenOfTheSlot'
    BY <1>11, <2>4 DEF TokenOfTheSlot
  <2> QED
    BY <1>8, <1>9, <2>1, <2>3, <2>5 DEF LanInv
<1> QED
  BY <1>10, <1>11 DEF Bind

\* A listener's task goes from the accept loop to its revocation and its end.
LEMMA ServeStep ==
  ASSUME LanInv, NEW k \in Lives, ServeReturns(k) \/ ServeRevokes(k)
  PROVE  LanInv'
<1>1. /\ UNCHANGED <<enabled, slot, lifecycle, op, unstopped>>
      /\ token' = token \/ token' = Nil
      /\ listener[k] \in {"serving", "returned"}
      /\ \E v \in {"returned", "finished"} : listener' = [listener EXCEPT ![k] = v]
  BY DEF ServeReturns, ServeRevokes
<1>2. LanTypeOK'
  BY <1>1 DEF LanInv, LanTypeOK
<1>3. \A j \in Lives : listener'[j] \in {"serving", "returned"} =>
        listener[j] \in {"serving", "returned"}
  BY <1>1 DEF LanInv, LanTypeOK
<1>4. LiveOnesAreHeld'
  BY <1>1, <1>3 DEF LanInv, LiveOnesAreHeld, InHand
<1>5. OneHolder' /\ StopsEmptyTheSlot' /\ DisabledIsStopped' /\ TokenOfTheSlot'
  BY <1>1 DEF LanInv, OneHolder, Holding, StopsEmptyTheSlot, Stopping, At,
              DisabledIsStopped, StopAhead, TokenOfTheSlot
<1> QED
  BY <1>2, <1>4, <1>5 DEF LanInv

\* A stop that gets the lock has the managed listener in hand.
LEMMA TakeStep ==
  ASSUME LanInv, NEW t \in Tasks, Take(t)
  PROVE  LanInv'
<1> DEFINE o == [pc |-> "abort", life |-> slot]
<1>1. o \in Op /\ LanTypeOK
  BY OpType DEF LanInv, LanTypeOK
<1>2. /\ op' \in [Tasks -> Op] /\ op[t].pc = "take" /\ op'[t] = o
      /\ \A u \in Tasks \ {t} : op'[u] = op[u]
  BY <1>1, StepEffect DEF Take
<1>3. /\ UNCHANGED <<enabled, listener, token, unstopped>> /\ lifecycle = Nil
      /\ lifecycle' = t /\ slot' = 0
  BY DEF Take
<1>4. \A u \in Tasks : op[u].pc \notin {"bind", "abort", "revoke"}
  BY <1>3, NobodyHolds DEF Holding
<1>5. LanTypeOK'
  BY <1>1, <1>2, <1>3 DEF LanTypeOK
<1>6. OneHolder' /\ StopsEmptyTheSlot'
  BY <1>1, <1>2, <1>3, <1>4, LanConstantsOK
     DEF LanInv, OneHolder, Holding, StopsEmptyTheSlot, Stopping, At
<1>7. \A k \in Lives : listener[k] \in {"serving", "returned"} => slot = k
  BY <1>4, InHandHolds DEF LanInv, LiveOnesAreHeld
<1>8. ASSUME NEW k \in Lives, slot = k
      PROVE  InHand(k)'
  BY <1>2, <1>8 DEF InHand
<1>9. LiveOnesAreHeld'
  BY <1>3, <1>7, <1>8 DEF LiveOnesAreHeld
<1>10. \A u \in Tasks : op'[u].pc # "bind"
  BY <1>2, <1>4
<1>11. DisabledIsStopped'
  BY <1>3, <1>10 DEF DisabledIsStopped, At
<1>12. TokenOfTheSlot'
  BY <1>2 DEF TokenOfTheSlot, Stopping
<1> QED
  BY <1>5, <1>6, <1>9, <1>11, <1>12 DEF LanInv

\* The listener in hand ends.
LEMMA AbortStep ==
  ASSUME LanInv, NEW t \in Tasks, Abort(t)
  PROVE  LanInv'
<1> DEFINE o == [pc |-> "revoke", life |-> op[t].life]
<1>1. LanTypeOK /\ op[t] \in Op /\ op[t].pc = "abort"
  BY DEF LanInv, LanTypeOK, Abort, Step, At
<1>2. o \in Op
  BY <1>1, OpType
<1>3. /\ op' \in [Tasks -> Op] /\ op'[t] = o
      /\ \A u \in Tasks \ {t} : op'[u] = op[u]
  BY <1>1, <1>2, StepEffect DEF Abort
<1>4. /\ UNCHANGED <<enabled, slot, token, lifecycle, unstopped>>
      /\ listener' = [k \in Lives |-> IF k = op[t].life THEN "finished" ELSE listener[k]]
  BY DEF Abort
<1>5. \A u \in Tasks : u # t => op[u].pc \notin {"bind", "abort", "revoke"}
  BY <1>1, HolderIsAlone DEF Holding
<1>6. LanTypeOK'
  BY <1>1, <1>3, <1>4 DEF LanTypeOK
<1>7. OneHolder' /\ StopsEmptyTheSlot'
  BY <1>1, <1>3, <1>4 DEF LanInv, OneHolder, Holding, StopsEmptyTheSlot, Stopping, At
<1>8. ASSUME NEW k \in Lives, listener'[k] \in {"serving", "returned"}
      PROVE  slot' = k
  <2>1. k # op[t].life /\ listener[k] \in {"serving", "returned"}
    BY <1>4, <1>8
  <2>2. ~InHand(k)
    BY <1>5, <2>1, InHandHolds
  <2> QED
    BY <1>4, <2>1, <2>2 DEF LanInv, LiveOnesAreHeld
<1>9. LiveOnesAreHeld'
  BY <1>8 DEF LiveOnesAreHeld
<1>10. DisabledIsStopped'
  BY <1>1, <1>3, <1>4 DEF LanInv, DisabledIsStopped, StopAhead, At
<1>11. TokenOfTheSlot'
  BY <1>3 DEF TokenOfTheSlot, Stopping
<1> QED
  BY <1>6, <1>7, <1>9, <1>10, <1>11 DEF LanInv

\* The stop ends with the token revoked.
LEMMA RevokeAtStopStep ==
  ASSUME LanInv, NEW t \in Tasks, RevokeAtStop(t)
  PROVE  LanInv'
<1>1. Idle \in Op /\ LanTypeOK /\ Idle.pc = "idle"
  BY OpType DEF LanInv
<1>2. /\ op' \in [Tasks -> Op] /\ op[t].pc = "revoke" /\ op'[t] = Idle
      /\ \A u \in Tasks \ {t} : op'[u] = op[u]
  BY <1>1, StepEffect DEF RevokeAtStop
<1>3. /\ UNCHANGED <<enabled, slot, listener, unstopped>>
      /\ token' = Nil /\ lifecycle' = Nil
  BY DEF RevokeAtStop
<1>4. \A u \in Tasks : u # t => op[u].pc \notin {"bind", "abort", "revoke"}
  BY <1>2, HolderIsAlone DEF Holding
<1>5. LanTypeOK'
  BY <1>1, <1>2, <1>3 DEF LanTypeOK
<1>6. OneHolder' /\ StopsEmptyTheSlot'
  BY <1>1, <1>2, <1>3, <1>4, LanConstantsOK
     DEF LanInv, OneHolder, Holding, StopsEmptyTheSlot, Stopping, At
<1>7. LiveOnesAreHeld'
  BY <1>2, <1>3, LiveAtBind DEF LiveOnesAreHeld, At
<1>8. DisabledIsStopped'
  BY <1>1, <1>2, <1>3 DEF LanInv, DisabledIsStopped, StopAhead, At
<1>9. TokenOfTheSlot'
  BY <1>3 DEF TokenOfTheSlot
<1> QED
  BY <1>5, <1>6, <1>7, <1>8, <1>9 DEF LanInv

\* An update writes the setting, reads it back, and goes on to the audit entry and
\* the stop when it finds the server disabled.
LEMMA SettingsStep ==
  ASSUME LanInv, NEW t \in Tasks,
         (\E value \in BOOLEAN : WriteEnabled(t, value)) \/ ReadBack(t) \/ Audit(t)
  PROVE  LanInv'
<1>1. /\ UNCHANGED <<slot, listener, token, lifecycle>> /\ enabled' \in BOOLEAN
      /\ unstopped' \in BOOLEAN /\ (unstopped => unstopped')
  BY DEF WriteEnabled, ReadBack, Audit, LanInv, LanTypeOK
<1>2. \E from \in {"idle", "off", "audit"}, o \in {Idle, [pc |-> "off"], [pc |-> "audit"], [pc |-> "take"]} :
        /\ Step(t, from, o)
        /\ o.pc \in {"off", "audit", "take"} \/ unstopped' \/ enabled'
        /\ from = "idle" \/ enabled' = enabled
  <2>1. CASE \E value \in BOOLEAN : WriteEnabled(t, value)
    BY <2>1 DEF WriteEnabled
  <2>2. CASE ReadBack(t)
    BY <2>2 DEF ReadBack
  <2>3. CASE Audit(t)
    BY <2>3 DEF Audit
  <2> QED
    BY <2>1, <2>2, <2>3
<1>3. PICK from \in {"idle", "off", "audit"}, o \in Op :
        /\ Step(t, from, o) /\ o.pc \in {"idle", "off", "audit", "take"}
        /\ o.pc \in {"off", "audit", "take"} \/ unstopped' \/ enabled'
        /\ from = "idle" \/ enabled' = enabled
  BY <1>2, OpType
<1>4. /\ op' \in [Tasks -> Op] /\ op[t].pc = from /\ op'[t] = o
      /\ \A u \in Tasks \ {t} : op'[u] = op[u]
  BY <1>3, StepEffect DEF LanInv
<1>5. LanTypeOK'
  BY <1>1, <1>4 DEF LanInv, LanTypeOK
<1>6. OneHolder' /\ StopsEmptyTheSlot'
  BY <1>1, <1>3, <1>4 DEF LanInv, OneHolder, Holding, StopsEmptyTheSlot, Stopping, At
<1>7. LiveOnesAreHeld'
  BY <1>1, <1>4, InHandStays DEF LanInv, LiveOnesAreHeld
<1>8. DisabledIsStopped'
  BY <1>1, <1>3, <1>4 DEF DisabledIsStopped, StopAhead
<1>9. TokenOfTheSlot'
  BY <1>1, <1>3, <1>4 DEF LanInv, TokenOfTheSlot, Stopping
<1> QED
  BY <1>5, <1>6, <1>7, <1>8, <1>9 DEF LanInv

\* A server that ended by itself is dropped, and a running one is seen.
LEMMA RequireRunningStep ==
  ASSUME LanInv, NEW t \in Tasks, RequireRunning(t)
  PROVE  LanInv'
<1>1. /\ LanTypeOK /\ UNCHANGED <<enabled, listener, lifecycle, unstopped>>
      /\ \/ UNCHANGED <<slot, token>>
         \/ slot # 0 /\ Finished(slot) /\ slot' = 0 /\ token' = Nil
  BY DEF RequireRunning, Prune, LanInv
<1> DEFINE o == IF slot' # 0 THEN [pc |-> "issue", life |-> slot] ELSE Idle
<1>2. o \in Op /\ o.pc \in {"idle", "issue"} /\ (o.pc = "issue" => o.life # 0)
  <2>1. CASE slot' # 0
    BY <1>1, <2>1, OpType DEF LanTypeOK
  <2>2. CASE slot' = 0
    BY <2>2, OpType
  <2> QED
    BY <2>1, <2>2
<1>3. /\ op' \in [Tasks -> Op] /\ op[t].pc = "idle" /\ op'[t] = o
      /\ \A u \in Tasks \ {t} : op'[u] = op[u]
  BY <1>1, <1>2, StepEffect DEF RequireRunning
<1>4. LanTypeOK'
  BY <1>1, <1>3 DEF LanTypeOK
<1>5. OneHolder' /\ StopsEmptyTheSlot'
  BY <1>1, <1>2, <1>3 DEF LanInv, OneHolder, Holding, StopsEmptyTheSlot, Stopping, At
<1>6. \A k \in Lives : InHand(k) => InHand(k)'
  BY <1>3, InHandStays
<1>7. LiveOnesAreHeld'
  BY <1>1, <1>6 DEF LanInv, LiveOnesAreHeld, Finished
<1>8. DisabledIsStopped'
  BY <1>1, <1>2, <1>3 DEF LanInv, DisabledIsStopped, StopAhead, At
<1>9. TokenOfTheSlot'
  BY <1>1, <1>2, <1>3 DEF LanInv, TokenOfTheSlot, Stopping
<1> QED
  BY <1>4, <1>5, <1>7, <1>8, <1>9 DEF LanInv

\* A token is made for the listener that was seen.
LEMMA IssueStep ==
  ASSUME LanInv, NEW t \in Tasks, Issue(t)
  PROVE  LanInv'
<1>1. Idle \in Op /\ LanTypeOK /\ Idle.pc = "idle"
  BY OpType DEF LanInv
<1>2. /\ op' \in [Tasks -> Op] /\ op[t].pc = "issue" /\ op'[t] = Idle
      /\ \A u \in Tasks \ {t} : op'[u] = op[u]
  BY <1>1, StepEffect DEF Issue
<1>3. /\ UNCHANGED <<enabled, slot, listener, lifecycle, unstopped>>
      /\ token' = [seen |-> op[t].life, current |-> slot = op[t].life]
  BY DEF Issue
<1>4. op[t].life \in Lives
  BY <1>1, <1>2, OpType DEF LanInv, LanTypeOK, StopsEmptyTheSlot, At
<1>5. token' \in Token
  BY <1>3, <1>4 DEF Token
<1>6. LanTypeOK'
  BY <1>1, <1>2, <1>3, <1>5 DEF LanTypeOK
<1>7. OneHolder' /\ StopsEmptyTheSlot'
  BY <1>1, <1>2, <1>3 DEF LanInv, OneHolder, Holding, StopsEmptyTheSlot, Stopping, At
<1>8. LiveOnesAreHeld'
  BY <1>2, <1>3, InHandStays DEF LanInv, LiveOnesAreHeld
<1>9. DisabledIsStopped'
  BY <1>1, <1>2, <1>3 DEF LanInv, DisabledIsStopped, StopAhead, At
<1>10. TokenOfTheSlot'
  BY <1>3 DEF TokenOfTheSlot
<1> QED
  BY <1>6, <1>7, <1>8, <1>9, <1>10 DEF LanInv

\* Revocations and restarts leave nothing to hold.
LEMMA RevokeOrLaunchStep ==
  ASSUME LanInv, Revoke \/ NextLaunch
  PROVE  LanInv'
<1>1. CASE Revoke
  BY <1>1 DEF Revoke, LanInv, LanTypeOK, OneHolder, Holding, StopsEmptyTheSlot, Stopping, At,
              LiveOnesAreHeld, InHand, DisabledIsStopped, StopAhead, TokenOfTheSlot
<1>2. CASE NextLaunch
  <2>1. /\ slot' = 0 /\ token' = Nil /\ lifecycle' = Nil /\ unstopped' = FALSE
        /\ listener' = [k \in Lives |-> "none"] /\ UNCHANGED enabled
        /\ op' = [t \in Tasks |-> Idle] /\ Idle \in Op /\ Idle.pc = "idle"
    BY <1>2, OpType DEF NextLaunch
  <2> QED
    BY <2>1, LanConstantsOK
       DEF LanInv, LanTypeOK, OneHolder, Holding, StopsEmptyTheSlot, Stopping, At,
           LiveOnesAreHeld, DisabledIsStopped, TokenOfTheSlot
<1> QED
  BY <1>1, <1>2

-----------------------------------------------------------------------------
(* The theorems. *)

\* The invariant holds when the process starts.
LEMMA LanInitInv == LanInit => LanInv
<1> SUFFICES ASSUME LanInit PROVE LanInv
  OBVIOUS
<1>1. op = [t \in Tasks |-> Idle] /\ Idle \in Op /\ Idle.pc = "idle"
  BY OpType DEF LanInit
<1> QED
  BY <1>1, LanConstantsOK
     DEF LanInit, LanInv, LanTypeOK, OneHolder, Holding, StopsEmptyTheSlot, Stopping, At,
         LiveOnesAreHeld, DisabledIsStopped, TokenOfTheSlot

\* No step breaks the invariant.
LEMMA LanNextInv == LanInv /\ [LanNext]_lanVars => LanInv'
<1> SUFFICES ASSUME LanInv, [LanNext]_lanVars PROVE LanInv'
  OBVIOUS
<1>1. ASSUME NEW t \in Tasks, Begin(t) \/ Locking(t) \/ Continue(t)
      PROVE  LanInv'
  BY <1>1, BeginStep, RequireRunningStep, SettingsStep, ReadEnabledStep, TakeStep, BindStep,
     AbortStep, RevokeAtStopStep, IssueStep DEF Begin, Locking, Continue
<1>2. ASSUME NEW k \in Lives, ServeReturns(k) \/ ServeRevokes(k)
      PROVE  LanInv'
  BY <1>2, ServeStep
<1>3. CASE UNCHANGED lanVars
  BY <1>3 DEF lanVars, LanInv, LanTypeOK, OneHolder, Holding, StopsEmptyTheSlot, Stopping, At,
              LiveOnesAreHeld, InHand, DisabledIsStopped, StopAhead, TokenOfTheSlot
<1> QED
  BY <1>1, <1>2, <1>3, RevokeOrLaunchStep DEF LanNext

\* LanInv is an invariant of the server, for any number of tasks and of listeners.
THEOREM LanInvariant == LanSpec => []LanInv
  BY LanInitInv, LanNextInv, PTL DEF LanSpec

\* Every variable keeps its type, for any number of tasks and of listeners.
THEOREM LanTypes == LanSpec => []LanTypeOK
<1>1. LanInv => LanTypeOK
  BY DEF LanInv
<1> QED
  BY <1>1, LanInvariant, PTL

\* No interleaving of starts, stops and updates leaves a listener running that
\* nobody manages or that was disabled.
THEOREM NoOrphans == LanSpec => []NoOrphanListener
<1>1. LanInv => NoOrphanListener
  <2> SUFFICES ASSUME LanInv PROVE NoOrphanListener
    OBVIOUS
  <2>1. \A k \in Lives : listener[k] = "serving" => slot = k \/ InHand(k)
    BY DEF LanInv, LiveOnesAreHeld
  <2>2. (\A t \in Tasks : At(t, "idle")) => ~StopAhead
    BY DEF At, StopAhead
  <2> QED
    BY <2>1, <2>2 DEF NoOrphanListener, InHand, LanInv, DisabledIsStopped
<1> QED
  BY <1>1, LanInvariant, PTL

\* A token made for the managed server does not outlive it once the lifecycle lock
\* is free again.
THEOREM TokensDie == LanSpec => []TokensDieWithTheirServer
<1>1. LanInv => TokensDieWithTheirServer
  <2> SUFFICES ASSUME LanInv, lifecycle = Nil, token # Nil, token.current
               PROVE  slot = token.seen
    BY DEF TokensDieWithTheirServer
  <2>1. \A t \in Tasks : ~Stopping(t)
    BY NobodyHolds DEF Holding, Stopping
  <2> QED
    BY <2>1 DEF LanInv, TokenOfTheSlot
<1> QED
  BY <1>1, LanInvariant, PTL

\* Only the administrator and a restart take the token of a server that is serving:
\* no late stop, ended listener or start does.
THEOREM NoStrayRevocations == LanSpec => NoStrayRevocation
<1>1. ASSUME LanInv, LanInv', [LanNext]_lanVars,
             token # Nil, token' = Nil, listener[token.seen] = "serving"
      PROVE  Revoke \/ NextLaunch
  <2>1. token.seen \in Lives
    BY <1>1 DEF LanInv, LanTypeOK, Token
  <2>2. listener[token.seen] \in {"serving", "returned"}
    BY <1>1
  <2>3. slot = token.seen \/ (InHand(token.seen) /\ slot = 0)
    BY <1>1, <2>1, <2>2, InHandHolds
       DEF LanInv, LiveOnesAreHeld, StopsEmptyTheSlot, Stopping
  <2>4. ~(slot # 0 /\ Finished(slot))
    BY <1>1, <2>3, <2>1, LivesArePositive DEF Finished
  <2>5. ASSUME NEW t \in Tasks, Bind(t)
        PROVE  FALSE
    <3>1. At(t, "bind")
      BY <2>5 DEF Bind, Step
    <3>2. slot = token.seen /\ slot # 0
      BY <1>1, <2>1, <2>2, <3>1, LiveAtBind, LivesArePositive
    <3> QED
      BY <1>1, <2>4, <2>5, <3>2 DEF Bind, SlotIsFree
  <2>6. ASSUME NEW t \in Tasks, RevokeAtStop(t)
        PROVE  FALSE
    <3>1. At(t, "revoke")
      BY <2>6 DEF RevokeAtStop, Step
    <3>2. slot = token.seen /\ slot # 0
      BY <1>1, <2>1, <2>2, <3>1, LiveAtBind, LivesArePositive
    <3> QED
      BY <1>1, <3>1, <3>2 DEF LanInv, StopsEmptyTheSlot, Stopping, At
  <2>7. ASSUME NEW k \in Lives, ServeRevokes(k)
        PROVE  FALSE
    <3>1. listener[k] = "returned" /\ k # token.seen
      BY <1>1, <2>7 DEF ServeRevokes
    <3>2. slot = k \/ InHand(k)
      BY <1>1, <3>1 DEF LanInv, LiveOnesAreHeld
    <3>3. InHand(k) => slot = 0
      BY <1>1, InHandHolds DEF LanInv, StopsEmptyTheSlot, Stopping
    <3>4. k # 0 /\ token.seen # 0
      BY <2>1, LivesArePositive
    <3>5. InHand(k) /\ InHand(token.seen)
      BY <2>3, <3>1, <3>2, <3>3, <3>4
    <3>6. PICK t \in Tasks : op[t].pc = "abort" /\ op[t].life = k
      BY <3>5, InHandHolds
    <3>7. PICK u \in Tasks : op[u].pc = "abort" /\ op[u].life = token.seen
      BY <3>5, InHandHolds
    <3>8. t = u
      BY <1>1, <3>6, <3>7, HolderIsAlone DEF Holding
    <3> QED
      BY <3>1, <3>6, <3>7, <3>8
  <2>8. ASSUME NEW t \in Tasks, RequireRunning(t)
        PROVE  FALSE
    BY <1>1, <2>4, <2>8 DEF RequireRunning, Prune
  <2>9. ASSUME NEW t \in Tasks, Issue(t)
        PROVE  FALSE
    <3>1. token' \in Token
      BY <1>1, <2>9, OpType DEF Issue, Token, LanInv, LanTypeOK, StopsEmptyTheSlot, Step, At
    <3> QED
      BY <1>1, <3>1, LanConstantsOK
  <2> QED
    BY <1>1, <2>5, <2>6, <2>7, <2>8, <2>9
       DEF LanNext, Begin, Locking, Continue, lanVars, BeginStart, BeginStop, WriteEnabled,
           ReadEnabled, Take, Abort, ReadBack, Audit, ServeReturns
<1>2. LanInv /\ LanInv' /\ [LanNext]_lanVars =>
        (token # Nil /\ token' = Nil /\ listener[token.seen] = "serving" => Revoke \/ NextLaunch)
  BY <1>1
<1> QED
  BY <1>2, LanInvariant, PTL DEF LanSpec, NoStrayRevocation
=============================================================================
