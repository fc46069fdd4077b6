------------------------------- MODULE LanServer -------------------------------
(***************************************************************************)
(* The life of the LAN borrow server and of its access token: starting and  *)
(* stopping the listener task, the setting that enables it, and the token   *)
(* that an administrator issues for the employees' QR code.                 *)
(*                                                                          *)
(* The commands run in their own tasks.  A tokio mutex, the lifecycle lock, *)
(* serializes starts and stops across their awaits; a std mutex guards the  *)
(* slot of the running server and is held only within one step; the token   *)
(* store has a mutex of its own.  An abort drops the accept loop only:      *)
(* connections that are kept alive still reach the handlers, so what shuts  *)
(* them out after a stop is the revocation of the token.                    *)
(***************************************************************************)
EXTENDS Naturals, FiniteSets

CONSTANTS
  Tasks,      \* command invocations that may overlap
  Nil,        \* no task, no token
  MaxStarts   \* bound: listeners started in the life of the process

Lives == 1..MaxStarts

\* seen: the listener the issuing command found running; current: it was still
\* the managed one when the token was made.
Token == [seen : Lives, current : BOOLEAN]

ASSUME LanConstantsOK == MaxStarts \in Nat /\ Nil \notin Tasks \cup Token

VARIABLES
  enabled,    \* app_settings: the server is enabled
  slot,       \* LanServerManager.server: the managed listener, or 0
  listener,   \* the task of each listener
  token,      \* LanTokenStore.active_token, with what is known of its issue
  lifecycle,  \* holder of LanServerManager.lifecycle
  op,         \* the command each task executes, where it is and what it read
  unstopped   \* an update disabled the server and then failed before its stop

lanVars == <<enabled, slot, listener, token, lifecycle, op, unstopped>>

Idle == [pc |-> "idle"]
Op == {Idle} \cup [pc : {"lock", "bind", "take", "off", "audit"}]
             \cup [pc : {"abort", "revoke", "issue"}, life : Lives \cup {0}]

At(t, pc) == op[t].pc = pc
Go(t, o) == op' = [op EXCEPT ![t] = o]
Step(t, from, o) == At(t, from) /\ Go(t, o)

LanInit ==
  /\ enabled \in BOOLEAN
  /\ slot = 0 /\ listener = [k \in Lives |-> "none"]
  /\ token = Nil /\ lifecycle = Nil
  /\ op = [t \in Tasks |-> Idle]
  /\ unstopped = FALSE

Finished(k) == listener[k] = "finished"
Fresh(k) == listener[k] = "none" /\ \A j \in Lives : j < k => listener[j] # "none"

-----------------------------------------------------------------------------
(* start *)

BeginStart(t) ==
  /\ Step(t, "idle", [pc |-> "lock"])
  /\ UNCHANGED <<enabled, slot, listener, token, lifecycle, unstopped>>

\* The lifecycle lock is awaited, then the setting is read.
ReadEnabled(t) ==
  /\ lifecycle = Nil
  /\ Step(t, "lock", IF enabled THEN [pc |-> "bind"] ELSE Idle)
  /\ lifecycle' = IF enabled THEN t ELSE Nil
  /\ UNCHANGED <<enabled, slot, listener, token, unstopped>>

\* Mutant: a running server is not noticed.
SlotIsFreeAlways == TRUE

\* No server is managed, or the managed one has ended by itself.
SlotIsFree == slot = 0 \/ Finished(slot)

\* The rest of start holds the slot's mutex: a server that ended is dropped with
\* its token; the port may be taken, else a new listener task is managed.
Bind(t) ==
  /\ Step(t, "bind", Idle)
  /\ lifecycle' = Nil
  /\ IF ~SlotIsFree THEN UNCHANGED <<slot, listener, token>>
     ELSE /\ token' = IF slot = 0 THEN token ELSE Nil
          /\ \/ slot' = 0 /\ UNCHANGED listener
             \/ \E k \in Lives : /\ Fresh(k) /\ slot' = k
                                 /\ listener' = [listener EXCEPT ![k] = "serving"]
  /\ UNCHANGED <<enabled, unstopped>>

\* The accept loop may return; the task then revokes the token and ends.
ServeReturns(k) ==
  /\ listener[k] = "serving"
  /\ listener' = [listener EXCEPT ![k] = "returned"]
  /\ UNCHANGED <<enabled, slot, token, lifecycle, op, unstopped>>

ServeRevokes(k) ==
  /\ listener[k] = "returned"
  /\ listener' = [listener EXCEPT ![k] = "finished"]
  /\ token' = Nil
  /\ UNCHANGED <<enabled, slot, lifecycle, op, unstopped>>

-----------------------------------------------------------------------------
(* stop *)

BeginStop(t) ==
  /\ Step(t, "idle", [pc |-> "take"])
  /\ UNCHANGED <<enabled, slot, listener, token, lifecycle, unstopped>>

Take(t) ==
  /\ lifecycle = Nil /\ lifecycle' = t
  /\ Step(t, "take", [pc |-> "abort", life |-> slot])
  /\ slot' = 0
  /\ UNCHANGED <<enabled, listener, token, unstopped>>

\* Mutant: the lock is given back before the token is revoked.
AbortAndUnlock(t) ==
  /\ Step(t, "abort", [pc |-> "revoke", life |-> op[t].life])
  /\ listener' = [k \in Lives |-> IF k = op[t].life THEN "finished" ELSE listener[k]]
  /\ lifecycle' = Nil
  /\ UNCHANGED <<enabled, slot, token, unstopped>>

\* Mutant: the task is awaited without having been aborted.
AwaitOnly(t) ==
  /\ Step(t, "abort", [pc |-> "revoke", life |-> op[t].life])
  /\ \A k \in Lives : op[t].life = k => Finished(k)
  /\ UNCHANGED <<enabled, slot, listener, token, lifecycle, unstopped>>

\* The task is aborted and awaited: it ends with or without its own revocation.
Abort(t) ==
  /\ Step(t, "abort", [pc |-> "revoke", life |-> op[t].life])
  /\ listener' = [k \in Lives |-> IF k = op[t].life THEN "finished" ELSE listener[k]]
  /\ UNCHANGED <<enabled, slot, token, lifecycle, unstopped>>

\* Mutant: stop leaves the token to the task.
LeaveToken(t) ==
  /\ Step(t, "revoke", Idle)
  /\ lifecycle' = Nil
  /\ UNCHANGED <<enabled, slot, listener, token, unstopped>>

RevokeAtStop(t) ==
  /\ Step(t, "revoke", Idle)
  /\ token' = Nil
  /\ lifecycle' = Nil
  /\ UNCHANGED <<enabled, slot, listener, unstopped>>

-----------------------------------------------------------------------------
(* Settings *)

\* update_borrow_lan_settings: a payload may leave the setting alone.  Each
\* setting is its own autocommit.
WriteEnabled(t, value) ==
  /\ Step(t, "idle", [pc |-> "off"])
  /\ enabled' = value
  /\ UNCHANGED <<slot, listener, token, lifecycle, unstopped>>

\* The settings are read back: what decides is the value found, not the payload's.
ReadBack(t) ==
  /\ Step(t, "off", IF enabled THEN Idle ELSE [pc |-> "audit"])
  /\ UNCHANGED <<enabled, slot, listener, token, lifecycle, unstopped>>

\* The audit entry may fail, and with it the command, before the server is stopped.
Audit(t) ==
  /\ \/ Step(t, "audit", [pc |-> "take"]) /\ UNCHANGED unstopped
     \/ Step(t, "audit", Idle) /\ unstopped' = TRUE
  /\ UNCHANGED <<enabled, slot, listener, token, lifecycle>>

-----------------------------------------------------------------------------
(* Tokens *)

\* status: a server that ended by itself is dropped together with its token.
Prune == IF slot # 0 /\ Finished(slot) THEN slot' = 0 /\ token' = Nil
         ELSE UNCHANGED <<slot, token>>

\* require_running is status; the token is made in a second step.
RequireRunning(t) ==
  /\ Prune
  /\ Step(t, "idle", IF slot' # 0 THEN [pc |-> "issue", life |-> slot] ELSE Idle)
  /\ UNCHANGED <<enabled, listener, lifecycle, unstopped>>

Issue(t) ==
  /\ Step(t, "issue", Idle)
  /\ token' = [seen |-> op[t].life, current |-> slot = op[t].life]
  /\ UNCHANGED <<enabled, slot, listener, lifecycle, unstopped>>

\* The administrator's command; the window's close event revokes before it stops.
Revoke == token' = Nil /\ UNCHANGED <<enabled, slot, listener, lifecycle, op, unstopped>>

\* The process ends and starts again: only the setting survives.
NextLaunch ==
  /\ slot' = 0 /\ token' = Nil /\ lifecycle' = Nil /\ unstopped' = FALSE
  /\ listener' = [k \in Lives |-> "none"]
  /\ op' = [t \in Tasks |-> Idle]
  /\ UNCHANGED enabled

-----------------------------------------------------------------------------
Begin(t) == BeginStart(t) \/ BeginStop(t) \/ RequireRunning(t)
              \/ \E value \in BOOLEAN : WriteEnabled(t, value)
Locking(t) == ReadEnabled(t) \/ Take(t)
Continue(t) == Bind(t) \/ Abort(t) \/ RevokeAtStop(t) \/ ReadBack(t) \/ Audit(t) \/ Issue(t)

LanNext == \/ \E t \in Tasks : Begin(t) \/ Locking(t) \/ Continue(t)
           \/ \E k \in Lives : ServeReturns(k) \/ ServeRevokes(k)
           \/ Revoke \/ NextLaunch

LanSpec == LanInit /\ [][LanNext]_lanVars

\* tokio schedules every task again, and its mutex is granted in the order in
\* which it was asked for.
LanFairSpec ==
  /\ LanSpec
  /\ \A t \in Tasks : WF_lanVars(Continue(t)) /\ SF_lanVars(Locking(t))
  /\ \A k \in Lives : WF_lanVars(ServeRevokes(k))

-----------------------------------------------------------------------------
(* Properties *)

\* Every variable has its type.
LanTypeOK ==
  /\ enabled \in BOOLEAN /\ unstopped \in BOOLEAN
  /\ slot \in Lives \cup {0}
  /\ listener \in [Lives -> {"none", "serving", "returned", "finished"}]
  /\ token \in Token \cup {Nil} /\ lifecycle \in Tasks \cup {Nil}
  /\ op \in [Tasks -> Op]

\* A listener that accepts connections is the managed one, or a stop has it in
\* hand; and between the commands a server that was disabled is stopped, unless an
\* update failed between its write and its stop: however starts, stops and the
\* update's write interleave, no listener is left running that nobody manages or
\* nobody wants.
NoOrphanListener ==
  /\ \A k \in Lives : listener[k] = "serving" =>
       slot = k \/ \E t \in Tasks : op[t] = [pc |-> "abort", life |-> k]
  /\ (\A t \in Tasks : At(t, "idle")) /\ ~enabled /\ ~unstopped => slot = 0

\* A token that was made while its server was the managed one does not outlive it:
\* no start or stop gives the lock back with such a token of another life.
TokensDieWithTheirServer ==
  lifecycle = Nil /\ token # Nil => (token.current => slot = token.seen)

\* The old server's end, a stop that was late and the pruning of an ended server
\* never take the token of a server that is serving; an administrator may.
NoStrayRevocation ==
  [][token # Nil /\ token' = Nil /\ listener[token.seen] = "serving" =>
       Revoke \/ NextLaunch]_lanVars

\* A stop that was asked for comes to its end.
StopsFinish == \A t \in Tasks : At(t, "take") ~> At(t, "idle")
=============================================================================
