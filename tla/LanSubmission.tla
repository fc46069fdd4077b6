----------------------------- MODULE LanSubmission -----------------------------
(***************************************************************************)
(* Submission over the LAN: the page composes a request once, the network   *)
(* may deliver it any number of times, and each delivery is handled by a    *)
(* task of its own in three steps: a transaction that validates and commits *)
(* nothing, the replay cache in memory, and the transaction that submits.   *)
(* Between them an administrator decides other requests and changes the     *)
(* Handle with Care policy.  A handler has no await between its steps, so   *)
(* only the end of the process interrupts it.                               *)
(***************************************************************************)
EXTENDS BorrowRequests

CONSTANTS
  Handlers,    \* requests served at the same time
  RequestIds,  \* request ids of the pages, one per click
  MaxPolicy    \* bound: versions of the policy

ASSUME SubmissionConstantsOK == MaxPolicy \in Nat

VARIABLES
  policy,    \* the current version of the Handle with Care policy, 0 if none
  sent,      \* what the page sent under each request id
  seen,      \* LanTokenStore.replay_cache
  handler,   \* the handlers of submit_borrow_request
  evidence,  \* borrow_request_confirmations, and the request id of each request
  recent     \* requests committed since their request id was last forgotten

submissionVars == <<borrowVars, policy, sent, seen, handler, evidence, recent>>
lan == <<policy, sent, seen, handler, evidence, recent>>

Payload == [kind : {"borrow", "return"}, by : Employees \cup {Nobody},
            assets : (SUBSET Assets) \ {{}}, policy : 0..MaxPolicy]
Unsent == [kind |-> "none"]
Waiting == [pc |-> "waiting"]
Busy(h) == handler[h].pc # "waiting"

SubmissionInit ==
  /\ BorrowInit /\ \A a \in Assets : status[a] = "in_stock"
  /\ policy \in {0, 1} \cap 0..MaxPolicy
  /\ sent = [id \in RequestIds |-> Unsent]
  /\ seen = {} /\ evidence = <<>> /\ recent = {}
  /\ handler = [h \in Handlers |-> Waiting]

-----------------------------------------------------------------------------
\* An employee who is not found submits under a name of his own.
Submitter(e) == IF e \in staff THEN e ELSE Nobody

\* validate_submission_tx
Acceptable(p) == IF p.kind = "borrow" THEN Borrowable(Submitter(p.by), p.assets)
                 ELSE Returnable(p.assets)

\* Mutant: any version of the policy will do.
ConfirmsSomePolicy(p) == p.kind = "borrow" => p.policy # 0

\* validate_confirmation_tx: a borrow request acknowledges the current policy.
ConfirmsPolicy(p) == p.kind = "borrow" => p.policy # 0 /\ p.policy = policy

Validates(p) == Acceptable(p) /\ ConfirmsPolicy(p)

\* The page offered a policy version and assets at some earlier time; every click
\* takes a new request id.
Click(id, p) ==
  /\ sent[id] = Unsent
  /\ p.policy \in (IF p.kind = "borrow" THEN 1..policy ELSE {0})
  /\ sent' = [sent EXCEPT ![id] = p]
  /\ UNCHANGED <<borrowVars, policy, seen, handler, evidence, recent>>

\* A copy of the request arrives with a valid token and passes validation; one
\* that does not leaves no trace.
Arrive(h, id) ==
  /\ ~Busy(h) /\ sent[id] # Unsent /\ Validates(sent[id])
  /\ handler' = [handler EXCEPT ![h] = [pc |-> "validated", id |-> id]]
  /\ UNCHANGED <<borrowVars, policy, sent, seen, evidence, recent>>

\* Mutant: the id is looked up but only recorded with the commit.
CheckOnly(h) ==
  /\ handler[h].pc = "validated"
  /\ handler' = [handler EXCEPT ![h] = IF @.id \in seen THEN Waiting
                                       ELSE [pc |-> "recorded", id |-> @.id]]
  /\ UNCHANGED <<borrowVars, policy, sent, seen, evidence, recent>>

\* check_and_record_request
CheckAndRecord(h) ==
  LET id == handler[h].id IN
  /\ handler[h].pc = "validated"
  /\ handler' = [handler EXCEPT ![h] = IF id \in seen THEN Waiting
                                       ELSE [pc |-> "recorded", id |-> id]]
  /\ seen' = seen \cup {id}
  /\ UNCHANGED <<borrowVars, policy, sent, evidence, recent>>

\* The submitting transaction validates again and inserts the request, its items
\* and claims, and its confirmation.
Accept(h) ==
  LET id == handler[h].id
      p == sent[id]
  IN /\ handler[h].pc = "recorded" /\ Validates(p)
     /\ Submit(p.kind, Submitter(p.by), p.assets)
     /\ evidence' = Append(evidence, [id |-> id, policy |-> p.policy])
     /\ recent' = recent \cup {Len(requests')}
     /\ handler' = [handler EXCEPT ![h] = Waiting]
     /\ UNCHANGED <<policy, sent, seen>>

\* It fails: nothing is written, but the request id has been recorded.
Refuse(h) ==
  /\ handler[h].pc = "recorded"
  /\ ~Validates(sent[handler[h].id]) \/ Len(requests) = MaxRequests
  /\ handler' = [handler EXCEPT ![h] = Waiting]
  /\ UNCHANGED <<borrowVars, policy, sent, seen, evidence, recent>>

\* An entry of the replay cache expires five minutes after it was made; a handler
\* does not take that long from recording to committing.
Forget(id) ==
  /\ id \in seen
  /\ \A h \in Handlers : Busy(h) => handler[h].id # id
  /\ seen' = seen \ {id}
  /\ recent' = {r \in recent : evidence[r].id # id}
  /\ UNCHANGED <<borrowVars, policy, sent, handler, evidence>>

SavePolicy ==
  /\ policy < MaxPolicy
  /\ policy' = policy + 1
  /\ UNCHANGED <<borrowVars, sent, seen, handler, evidence, recent>>

\* The process ends and starts again: the replay cache was in its memory.
Restart ==
  /\ seen' = {} /\ recent' = {}
  /\ handler' = [h \in Handlers |-> Waiting]
  /\ UNCHANGED <<borrowVars, policy, sent, evidence>>

Serve(h) == CheckAndRecord(h) \/ Accept(h) \/ Refuse(h)

SubmissionNext ==
  \/ \E id \in RequestIds : Forget(id) \/ \E p \in Payload : Click(id, p)
  \/ \E h \in Handlers : Serve(h) \/ \E id \in RequestIds : Arrive(h, id)
  \/ SavePolicy \/ Restart
  \/ Decision /\ UNCHANGED lan
  \/ Personnel /\ UNCHANGED lan

SubmissionSpec == SubmissionInit /\ [][SubmissionNext]_submissionVars

-----------------------------------------------------------------------------
(* Properties *)

\* Every variable has its type.
SubmissionTypeOK ==
  /\ policy \in 0..MaxPolicy
  /\ sent \in [RequestIds -> Payload \cup {Unsent}]
  /\ seen \subseteq RequestIds
  /\ handler \in [Handlers -> {Waiting} \cup [pc : {"validated", "recorded"}, id : RequestIds]]
  /\ evidence \in Seq([id : RequestIds, policy : 0..MaxPolicy])
  /\ Len(evidence) = Len(requests) /\ recent \subseteq DOMAIN requests

\* However often a request is delivered, and however its copies overlap with each
\* other and with a decision that frees its assets again, it becomes one request
\* within the life of its replay entry.
OncePerWindow == \A r, s \in recent : evidence[r].id = evidence[s].id => r = s

\* The evidence of a borrow request acknowledges the policy in force when the
\* request was committed, not the one that was in force when it was validated.
EvidenceIsCurrent ==
  [][\A r \in DOMAIN requests' \ DOMAIN requests :
       requests'[r].kind = "borrow" => evidence'[r].policy = policy]_submissionVars
=============================================================================
