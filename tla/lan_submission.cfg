\* Copies of two requests, a decision, a new policy and restarts in any order.
CONSTANTS
  Assets = {a1, a2}
  Employees = {e1}
  Nobody = Nobody
  Sources = {"staff"}
  MaxRequests = 3
  MaxSheet = 0
  Handlers = {h1, h2}
  RequestIds = {q1, q2}
  MaxPolicy = 2
SPECIFICATION SubmissionSpec
SYMMETRY Symmetry
INVARIANTS OncePerWindow
PROPERTIES EvidenceIsCurrent
CHECK_DEADLOCK FALSE
