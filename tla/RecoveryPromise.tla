---------------------------- MODULE RecoveryPromise ----------------------------
(***************************************************************************)
(* What recovery codes promise a user, with no files, journal or crash:    *)
(* activating a batch and using a code take effect and enter a permanent   *)
(* record in one step, a batch is activated once, and a code works once.   *)
(***************************************************************************)
CONSTANTS Accounts, Codes, Batches, NoBatch

VARIABLES
  active,  \* the batch whose codes an account can use, or NoBatch
  used,    \* the codes of that batch that have been used
  log      \* the permanent record

promiseVars == <<active, used, log>>

Activation(a, b) == [what |-> "activated", acct |-> a, batch |-> b, codes |-> Codes]
Use(a, b, c)     == [what |-> "used", acct |-> a, batch |-> b, codes |-> {c}]

Init ==
  /\ active = [a \in Accounts |-> NoBatch]
  /\ used = [a \in Accounts |-> {}]
  /\ log = {}

\* A batch never activated before replaces the account's codes.
Activate(a, b) ==
  /\ Activation(a, b) \notin log
  /\ active' = [active EXCEPT ![a] = b]
  /\ used' = [used EXCEPT ![a] = {}]
  /\ log' = log \cup {Activation(a, b)}

\* A code of the active batch is used for the first and only time.
UseCode(a, c) ==
  /\ active[a] # NoBatch
  /\ Use(a, active[a], c) \notin log
  /\ used' = [used EXCEPT ![a] = @ \cup {c}]
  /\ log' = log \cup {Use(a, active[a], c)}
  /\ UNCHANGED active

\* Revocation takes the codes away; it promises nothing about the record.
Revoke(a) ==
  /\ active' = [active EXCEPT ![a] = NoBatch]
  /\ used' = [used EXCEPT ![a] = {}]
  /\ UNCHANGED log

Next == \E a \in Accounts : \/ \E b \in Batches : Activate(a, b)
                            \/ \E c \in Codes : UseCode(a, c)
                            \/ Revoke(a)

Spec == Init /\ [][Next]_promiseVars
=============================================================================
