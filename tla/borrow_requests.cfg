\* Requests, decisions, imports and personnel changes in any order.
CONSTANTS
  Assets = {a1, a2}
  Employees = {e1, e2}
  Nobody = Nobody
  Sources = {"register", "wizard", "history", "staff"}
  MaxRequests = 2
  MaxSheet = 1
SPECIFICATION BorrowSpec
SYMMETRY Symmetry
INVARIANTS LoansMatchStatus ClaimsArePending ReferencesResolve
PROPERTIES NoSilentTakeover
CHECK_DEADLOCK FALSE
