---------------------------- MODULE BorrowRequests ----------------------------
(***************************************************************************)
(* Lending of assets: requests that employees submit over the LAN, the     *)
(* decisions of an administrator, the claims that reserve an asset while a *)
(* borrow request is pending, the loans, and the imports that assign       *)
(* assets behind the requests' back.                                       *)
(*                                                                         *)
(* Every operation is one SQLite transaction and so one step, except the   *)
(* historical import: its preview is shown to a user, computed again when  *)
(* the import is applied, and only then acted upon.                        *)
(***************************************************************************)
EXTENDS Naturals, Sequences, FiniteSets

CONSTANTS
  Assets,       \* serialized assets, registered or not
  Employees,    \* people who may be in the employee table
  Nobody,       \* a NULL employee reference
  Sources,      \* which operations besides requests a run lets happen
  MaxRequests,  \* bound: requests submitted
  MaxSheet      \* bound: rows of an imported workbook

\* "register": assets are created.  "wizard": with an owner.  "history": the
\* historical assignment import.  "staff": employees come, go and offboard.
SourceKinds == {"register", "wizard", "history", "staff"}

ASSUME BorrowConstantsOK ==
  /\ Nobody \notin Employees
  /\ Sources \subseteq SourceKinds
  /\ MaxRequests \in Nat /\ MaxSheet \in Nat

VARIABLES
  status,      \* assets.status
  loan,        \* the active loan of an asset: its holder and its request
  history,     \* employees that closed loans refer to
  requests,    \* borrow_requests with their items
  claims,      \* asset_pending_claims: the claiming request, or 0
  staff,       \* rows of the employee table
  offboarded,  \* those of staff group Offboarding
  sheet        \* the historical import under way

lending == <<status, loan, history, requests, claims>>
borrowVars == <<lending, staff, offboarded, sheet>>

Ids == 1..MaxRequests
Loan == [holder : Employees, request : Ids \cup {0}]
NoLoan == [holder |-> Nobody, request |-> 0]
OnLoan(a) == loan[a] # NoLoan

Request == [kind : {"borrow", "return"}, assets : (SUBSET Assets) \ {{}},
            by : Employees \cup {Nobody}, borrower : Employees \cup {Nobody},
            status : {"pending", "approved", "rejected", "cancelled"}]

Pending(r) == r \in DOMAIN requests /\ requests[r].status = "pending"

\* A workbook under way: the employee of each asset, whether the user confirmed
\* a transfer, and what the apply step made of the row.
Row == [emp : Employees, confirmed : BOOLEAN,
        class : {"unclassified", "new", "transfer", "skip"}]
NoSheet == [pc |-> "none", rows |-> <<>>]

BorrowInit ==
  /\ status \in [Assets -> {"unregistered", "in_stock"}]
  /\ loan = [a \in Assets |-> NoLoan]
  /\ history = {}
  /\ requests = <<>>
  /\ claims = [a \in Assets |-> 0]
  /\ staff = Employees /\ offboarded = {}
  /\ sheet = NoSheet

-----------------------------------------------------------------------------
(* Submission. *)

\* validate_submission_tx for a borrow request.
Borrowable(e, as) ==
  /\ e \notin offboarded
  /\ \A a \in as : status[a] = "in_stock" /\ ~OnLoan(a) /\ claims[a] = 0

\* validate_submission_tx for a return request: all of one borrower.
Returnable(as) ==
  /\ \A a \in as : status[a] = "assigned" /\ OnLoan(a)
  /\ \A a, b \in as : loan[a].holder = loan[b].holder

\* Somebody whose staff id is unknown submits under a name of his own.
Submitters == staff \cup {Nobody}

NewRequest(kind, e, as) ==
  [kind |-> kind, assets |-> as, by |-> e, status |-> "pending",
   borrower |-> IF kind = "borrow" THEN e
                ELSE loan[CHOOSE a \in as : TRUE].holder]

SubmitBorrow(e, as) ==
  /\ Borrowable(e, as)
  /\ requests' = Append(requests, NewRequest("borrow", e, as))
  /\ claims' = [a \in Assets |-> IF a \in as THEN Len(requests) + 1 ELSE claims[a]]
  /\ UNCHANGED <<status, loan, history, staff, offboarded, sheet>>

SubmitReturn(e, as) ==
  /\ Returnable(as)
  /\ requests' = Append(requests, NewRequest("return", e, as))
  /\ UNCHANGED <<status, loan, history, claims, staff, offboarded, sheet>>

\* submit_borrow_request_with_confirmation_conn: validated again in the
\* transaction that inserts; any failure leaves nothing behind.
Submit(kind, e, as) ==
  /\ Len(requests) < MaxRequests
  /\ e \in Submitters
  /\ IF kind = "borrow" THEN SubmitBorrow(e, as) ELSE SubmitReturn(e, as)

-----------------------------------------------------------------------------
(* Decisions. *)

Released(r) == [a \in Assets |-> IF claims[a] = r THEN 0 ELSE claims[a]]
Decide(r, verdict) == requests' = [requests EXCEPT ![r].status = verdict]

\* What approving a borrow request finds and its loans' constraints demand: a
\* manual entry has no employee, and the loan's reference is NOT NULL.
Lendable(q) ==
  /\ \A a \in q.assets : status[a] = "in_stock" /\ ~OnLoan(a)
  /\ q.by # Nobody

ApproveBorrow(r) ==
  LET q == requests[r] IN
  /\ Pending(r) /\ q.kind = "borrow" /\ Lendable(q)
  /\ status' = [a \in Assets |-> IF a \in q.assets THEN "assigned" ELSE status[a]]
  /\ loan' = [a \in Assets |-> IF a \in q.assets THEN [holder |-> q.by, request |-> r]
                               ELSE loan[a]]
  /\ claims' = Released(r)
  /\ Decide(r, "approved")
  /\ UNCHANGED <<history, staff, offboarded, sheet>>

\* Mutant: only a loan of the recorded borrower is closed.
ClosesLoansOf(q) == {a \in q.assets : loan[a].holder = q.borrower}

\* The loans a return closes: whatever loan of its assets is active.
Closes(q) == {a \in q.assets : OnLoan(a)}

ApproveReturn(r) ==
  LET q == requests[r] IN
  /\ Pending(r) /\ q.kind = "return"
  /\ \A a \in q.assets : status[a] = "assigned"
  /\ status' = [a \in Assets |-> IF a \in q.assets THEN "in_stock" ELSE status[a]]
  /\ loan' = [a \in Assets |-> IF a \in Closes(q) THEN NoLoan ELSE loan[a]]
  /\ history' = history \cup {loan[a].holder : a \in Closes(q)}
                        \cup (IF Closes(q) # {} THEN {q.by} \ {Nobody} ELSE {})
  /\ Decide(r, "approved")
  /\ UNCHANGED <<claims, staff, offboarded, sheet>>

\* Mutant: a decision against the request keeps its claims.
DenyKeepsClaims(r, verdict) ==
  /\ Pending(r)
  /\ Decide(r, verdict)
  /\ UNCHANGED <<status, loan, history, claims, staff, offboarded, sheet>>

\* reject_borrow_request_conn and cancel_borrow_request_conn.
Deny(r, verdict) ==
  /\ Pending(r)
  /\ Decide(r, verdict)
  /\ claims' = Released(r)
  /\ UNCHANGED <<status, loan, history, staff, offboarded, sheet>>

-----------------------------------------------------------------------------
(* Assets and employees. *)

\* upsert_assets_conn creates assets in stock and never changes a status.
Register(a) ==
  /\ "register" \in Sources /\ status[a] = "unregistered"
  /\ status' = [status EXCEPT ![a] = "in_stock"]
  /\ UNCHANGED <<loan, history, requests, claims, staff, offboarded, sheet>>

\* The import wizard creates an asset together with the loan of its owner.
ImportOwned(a, e) ==
  /\ "wizard" \in Sources /\ status[a] = "unregistered" /\ e \in staff
  /\ status' = [status EXCEPT ![a] = "assigned"]
  /\ loan' = [loan EXCEPT ![a] = [holder |-> e, request |-> 0]]
  /\ UNCHANGED <<history, requests, claims, staff, offboarded, sheet>>

\* An employee's staff group becomes Offboarding, or another one.
ChangeGroup(e) ==
  /\ "staff" \in Sources /\ e \in staff
  /\ offboarded' = IF e \in offboarded THEN offboarded \ {e} ELSE offboarded \cup {e}
  /\ UNCHANGED <<lending, staff, sheet>>

\* Mutant: only closed loans keep an employee.
KeptByHistory(e) == e \in history

Kept(e) == e \in history \/ \E a \in Assets : loan[a].holder = e

\* delete_employee_conn clears every employee reference of a request that
\* mentions the employee in any of them.
DeleteEmployee(e) ==
  /\ "staff" \in Sources /\ e \in staff /\ ~Kept(e)
  /\ staff' = staff \ {e} /\ offboarded' = offboarded \ {e}
  /\ requests' = [r \in DOMAIN requests |->
       IF e \in {requests[r].by, requests[r].borrower}
       THEN [requests[r] EXCEPT !.by = Nobody, !.borrower = Nobody] ELSE requests[r]]
  /\ UNCHANGED <<status, loan, history, claims, sheet>>

-----------------------------------------------------------------------------
(* The historical assignment import. *)

\* preview_historical_assignment_import_conn, and the user's answers to it: he
\* may confirm a transfer where the asset has another holder.
PreviewSheet ==
  /\ "history" \in Sources /\ sheet = NoSheet
  /\ \E as \in (SUBSET Assets) \ {{}} :
       /\ Cardinality(as) <= MaxSheet
       /\ \E emp \in [as -> staff] :
          \E sure \in SUBSET {a \in as : loan[a].holder \notin {Nobody, emp[a]}} :
            sheet' = [pc |-> "shown",
                      rows |-> [a \in as |-> [emp |-> emp[a], confirmed |-> a \in sure,
                                              class |-> "unclassified"]]]
  /\ UNCHANGED <<lending, staff, offboarded>>

CancelSheet ==
  /\ sheet.pc = "shown" /\ sheet' = NoSheet
  /\ UNCHANGED <<lending, staff, offboarded>>

\* What the apply step makes of a row: it looks at the present holder, and at the
\* user's confirmation whoever that holder was then.
Class(a, row) == CASE row.emp \notin staff         -> "skip"
                   [] ~OnLoan(a)                   -> "new"
                   [] loan[a].holder = row.emp     -> "skip"
                   [] OTHER -> IF row.confirmed THEN "transfer" ELSE "skip"

ClassifySheet ==
  /\ sheet.pc = "shown"
  /\ sheet' = [pc |-> "classified",
               rows |-> [a \in DOMAIN sheet.rows |->
                           [sheet.rows[a] EXCEPT !.class = Class(a, sheet.rows[a])]]]
  /\ UNCHANGED <<lending, staff, offboarded>>

Rows(class) == {a \in DOMAIN sheet.rows : sheet.rows[a].class = class}

\* A new assignment is revalidated in the transaction, a transfer is not; a
\* missing employee violates the loan's foreign key.
SheetFails ==
  \/ \E a \in Rows("new") : OnLoan(a) /\ loan[a].holder # sheet.rows[a].emp
  \/ \E a \in Rows("new") \cup Rows("transfer") : sheet.rows[a].emp \notin staff

\* Mutant: a new assignment is not revalidated against a loan made meanwhile.
AssignedBlindly == Rows("new") \cup Rows("transfer")

\* The assets that get a new loan.
AssignedBySheet == {a \in Rows("new") : ~OnLoan(a)} \cup Rows("transfer")

ApplySheet ==
  /\ sheet.pc = "classified" /\ ~SheetFails
  /\ status' = [a \in Assets |-> IF a \in AssignedBySheet THEN "assigned" ELSE status[a]]
  /\ loan' = [a \in Assets |-> IF a \in AssignedBySheet
                               THEN [holder |-> sheet.rows[a].emp, request |-> 0]
                               ELSE loan[a]]
  /\ history' = history \cup {loan[a].holder : a \in {b \in Rows("transfer") : OnLoan(b)}}
  /\ sheet' = NoSheet
  /\ UNCHANGED <<requests, claims, staff, offboarded>>

RejectSheet ==
  /\ sheet.pc = "classified" /\ SheetFails
  /\ sheet' = NoSheet
  /\ UNCHANGED <<lending, staff, offboarded>>

-----------------------------------------------------------------------------
Decision == \E r \in Ids : \/ ApproveBorrow(r) \/ ApproveReturn(r)
                           \/ Deny(r, "rejected") \/ Deny(r, "cancelled")

Import == \/ PreviewSheet \/ CancelSheet \/ ClassifySheet \/ ApplySheet \/ RejectSheet
          \/ \E a \in Assets : Register(a) \/ \E e \in Employees : ImportOwned(a, e)

Personnel == \E e \in Employees : ChangeGroup(e) \/ DeleteEmployee(e)

Submission == \E kind \in {"borrow", "return"}, e \in Employees \cup {Nobody},
                 as \in (SUBSET Assets) \ {{}} : Submit(kind, e, as)

BorrowNext == Submission \/ Decision \/ Import \/ Personnel

BorrowSpec == BorrowInit /\ [][BorrowNext]_borrowVars

-----------------------------------------------------------------------------
(* The integrity check of the asset screen, where loans and status can differ. *)

LoanWithoutStatus == {a \in Assets : OnLoan(a) /\ status[a] # "assigned"}
StatusWithoutLoan == {a \in Assets : status[a] = "assigned" /\ ~OnLoan(a)}
OrphanLoans == {a \in Assets : OnLoan(a) /\ loan[a].holder \notin staff}

-----------------------------------------------------------------------------
(* Properties. *)

\* Every variable has its type.
TypeOK ==
  /\ status \in [Assets -> {"unregistered", "in_stock", "assigned"}]
  /\ loan \in [Assets -> Loan \cup {NoLoan}]
  /\ history \subseteq Employees /\ staff \subseteq Employees /\ offboarded \subseteq staff
  /\ requests \in Seq(Request) /\ Len(requests) <= MaxRequests
  /\ claims \in [Assets -> Ids \cup {0}]
  /\ sheet.pc \in {"none", "shown", "classified"}
  /\ DOMAIN sheet.rows \subseteq Assets /\ \A a \in DOMAIN sheet.rows : sheet.rows[a] \in Row

\* assets.status and asset_loans are written by four operations each in its own
\* way; however they interleave, an asset is assigned exactly when it has an
\* active loan.
LoansMatchStatus == LoanWithoutStatus = {} /\ StatusWithoutLoan = {}

\* The claims are those of the pending borrow requests, all of them and no
\* others: none outlives its request, none is missing or held by two.
ClaimsArePending ==
  \A r \in Ids, a \in Assets :
    claims[a] = r <=> Pending(r) /\ requests[r].kind = "borrow" /\ a \in requests[r].assets

\* No loan, open or closed, and no request refers to an employee who was deleted.
ReferencesResolve ==
  /\ history \subseteq staff /\ OrphanLoans = {}
  /\ \A r \in DOMAIN requests : {requests[r].by, requests[r].borrower} \subseteq Submitters

\* A loan that names a request is the loan that request asked for: approved, of
\* this asset, to this employee.  What comes and goes around it does not detach it.
LoansTraceable ==
  \A a \in Assets : loan[a].request # 0 =>
    LET q == requests[loan[a].request] IN
    /\ loan[a].request \in DOMAIN requests
    /\ q.status = "approved" /\ q.kind = "borrow" /\ a \in q.assets /\ q.by = loan[a].holder

\* While a request claims an asset no other request lends it; only an import,
\* which does not look at claims, may take it away.
ClaimsReserve == \A a \in Assets : claims[a] # 0 => loan[a].request = 0

\* A loan is replaced by another one only where the user confirmed a transfer of
\* this asset: an asset lent between the import's classification and its
\* transaction is not taken over.
NoSilentTakeover ==
  [][\A a \in Assets : OnLoan(a) /\ OnLoan(a)' /\ loan'[a] # loan[a] =>
       a \in DOMAIN sheet.rows /\ sheet.rows[a].confirmed]_borrowVars

=============================================================================
