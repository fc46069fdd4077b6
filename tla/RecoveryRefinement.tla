-------------------------- MODULE RecoveryRefinement --------------------------
(* How RecoveryLedger implements RecoveryPromise. *)
EXTENDS RecoveryLedger

\* An activation or the use of a batch code, as the promise's log writes it.
Promised(e) == e.type # "BatchRevoked" /\ e.batch # NoBatch

LogOf(e) == [what  |-> IF e.type = "BatchActivated" THEN "activated" ELSE "used",
             acct  |-> e.acct,
             batch |-> e.batch,
             codes |-> IF e.row = NoRow THEN Codes ELSE {e.row.code}]

\* The record is the ledger together with the block that the journal will make
\* the next start append: that is what turns a transaction and a later append
\* into one step.
Record ==
  EventsIn(ledger) \cup
  (IF journal = NoEntry THEN {} ELSE {e \in {EventOf(journal)} : WillBeRecorded(e)})

Promise == INSTANCE RecoveryPromise WITH
  active <- [a \in Accounts |-> rows[a].batch],
  used   <- [a \in Accounts |-> rows[a].used],
  log    <- {LogOf(e) : e \in {x \in Record : Promised(x)}}

\* Commands that run one after another, with a crash at any point, a failing
\* transaction or a journal that cannot be written or removed, look to the user
\* like the atomic steps of the promise.
KeepsPromise == Promise!Spec
=============================================================================
