----------------------------- MODULE SessionStore -----------------------------
(***************************************************************************)
(* Local accounts in the database, and what the process keeps about them in *)
(* memory: sessions with the role their account had at login, counters of   *)
(* failed logins with their lockouts, the logins in flight, and the         *)
(* security policy.  A command resolves its session, works on the database  *)
(* and invalidates sessions in separate steps; a login verifies a password  *)
(* for a long time between reading its hash and issuing a session; a        *)
(* recovery of a forgotten password needs no session.                       *)
(*                                                                         *)
(* Counters and logins in flight go by the name as it was typed (trimmed,   *)
(* in lower case), the account by what is left of that name without the     *)
(* characters no username has: several names lead to one account.  Only     *)
(* the change of a username is left out.                                    *)
(***************************************************************************)
EXTENDS Naturals, FiniteSets

CONSTANTS
  Accounts,      \* accounts, by id
  Names,         \* names as typed at a login: trimmed, in lower case
  UserName,      \* the name each account is stored under
  AccountOf,     \* the account a typed name leads to
  Adman,         \* the default administrator
  Threads,       \* commands that may overlap
  MaxFailed,     \* failed logins that lock an account, by policy
  MaxBegun       \* bound: logins, commands and recoveries begun

Policies == {"standard", "strict"}
Roles == {"user", "admin", "super_admin"}
Absent == {"unborn", "deleted"}

ASSUME SessionConstantsOK ==
  /\ Adman \in Accounts
  /\ UserName \in [Accounts -> Names] /\ AccountOf \in [Names -> Accounts]
  /\ \A a \in Accounts : AccountOf[UserName[a]] = a
  /\ MaxFailed \in [Policies -> Nat \ {0}]
  /\ MaxFailed["strict"] <= MaxFailed["standard"]
  /\ MaxBegun \in Nat

VARIABLES
  account,   \* app_local_accounts: role, and the number of the present password
  saved,     \* the policy in app_settings
  sessions,  \* SessionStore.entries; sessions that agree in everything are one
  lockout,   \* SessionStore.lockouts; LockElapses stands for the clock
  inFlight,  \* SessionStore.in_flight_logins
  policy,    \* SessionStore.policy
  op,        \* the command of each thread
  begun,     \* logins, commands and recoveries so far
  guesses    \* wrong passwords tried under a name since its lock or counter was lifted

authVars == <<account, saved, sessions, lockout, inFlight, policy, op, begun, guesses>>
memory == <<sessions, lockout, policy, guesses>>
database == <<account, saved>>

Idle == [pc |-> "idle"]
Clear == [failed |-> 0, lock |-> "none"]
Exists(a) == account[a].role \notin Absent
Supers == {a \in Accounts : account[a].role = "super_admin"}

\* is_sole_active_super_admin: exempt from lockouts, under the stored name only.
IsSole(n) == \E a \in Accounts : Supers = {a} /\ UserName[a] = n

\* A database that was opened: the default administrator is a super administrator.
Databases ==
  {d \in [Accounts -> [role : Roles \cup {"unborn"}, pw : {0}]] : d[Adman].role = "super_admin"}

AuthInit ==
  /\ account \in Databases
  /\ saved \in Policies /\ policy = saved
  /\ sessions = {} /\ lockout = [n \in Names |-> Clear]
  /\ inFlight = {} /\ op = [t \in Threads |-> Idle]
  /\ begun = 0 /\ guesses = [n \in Names |-> 0]

At(t, pc) == op[t].pc = pc
Step(t, from, o) == At(t, from) /\ op' = [op EXCEPT ![t] = o]
Begin(t, o) == Step(t, "idle", o) /\ begun < MaxBegun /\ begun' = begun + 1

-----------------------------------------------------------------------------
(* Lockouts *)

Locked(n) == lockout[n].lock = "running"

\* What is left of the counters when those that have not locked are dropped.
Kept == [n \in Names |-> IF Locked(n) THEN lockout[n] ELSE Clear]
GuessesKept == [n \in Names |-> IF Locked(n) THEN guesses[n] ELSE 0]

\* record_failed_attempt_with_exemption on an entry; the count saturates, here at
\* the bound beyond which it makes no difference.
Recorded(entry, exempt) ==
  LET old == IF entry.lock = "elapsed" THEN Clear ELSE entry
      n   == IF old.failed < MaxFailed["standard"] THEN old.failed + 1 ELSE old.failed
  IN [failed |-> n,
      lock |-> IF ~exempt /\ n >= MaxFailed[policy] THEN "running" ELSE old.lock]

\* Other names may have filled the map: then the entries without a lock go first.
RecordFailure(n, exempt) ==
  \/ /\ lockout' = [lockout EXCEPT ![n] = Recorded(lockout[n], exempt)]
     /\ UNCHANGED guesses
  \/ /\ lockout' = [Kept EXCEPT ![n] = Recorded(Kept[n], exempt)]
     /\ guesses' = GuessesKept

\* record_successful_login and unlock_account
Unlock(n) == /\ lockout' = [lockout EXCEPT ![n] = Clear]
             /\ guesses' = [guesses EXCEPT ![n] = 0]

\* check_lockout_with_exemption: an elapsed lock is cleared, the lock of the sole
\* super administrator is lifted.
LockedOut(n, sole) == Locked(n) /\ ~sole
CheckEntry(n, sole) ==
  /\ lockout' = [lockout EXCEPT ![n] =
       CASE @.lock = "elapsed" -> Clear
         [] @.lock = "running" /\ sole -> [@ EXCEPT !.lock = "none"]
         [] OTHER -> @]
  /\ guesses' = IF Locked(n) /\ sole THEN [guesses EXCEPT ![n] = 0] ELSE guesses

LockElapses(n) ==
  /\ Locked(n)
  /\ lockout' = [lockout EXCEPT ![n].lock = "elapsed"]
  /\ guesses' = [guesses EXCEPT ![n] = 0]
  /\ UNCHANGED <<database, sessions, policy, inFlight, op, begun>>

-----------------------------------------------------------------------------
(* Login *)

\* Mutant: logins for the same name run side by side.
FreeForAll(n) == TRUE

\* acquire_in_flight_login
FreeToLogin(n) == n \notin inFlight

BeginLogin(t, n) ==
  /\ FreeToLogin(n) /\ inFlight' = inFlight \cup {n}
  /\ Begin(t, [pc |-> "check", name |-> n, sole |-> IsSole(n)])
  /\ UNCHANGED <<database, memory>>

EndLogin(t) == inFlight' = inFlight \ {op[t].name}

CheckLockout(t) ==
  LET n == op[t].name IN
  /\ At(t, "check") /\ CheckEntry(n, op[t].sole)
  /\ IF LockedOut(n, op[t].sole)
     THEN Step(t, "check", Idle) /\ EndLogin(t)
     ELSE /\ Step(t, "check", [pc |-> "verify", name |-> n, sole |-> op[t].sole])
          /\ UNCHANGED inFlight
  /\ UNCHANGED <<database, sessions, policy, begun>>

\* The hash of the account the name leads to is read and the password compared
\* with it; raced: the account was changed after this.
Verify(t, right) ==
  LET n == op[t].name
      a == AccountOf[n]
  IN /\ At(t, "verify")
     /\ (right => Exists(a))
     /\ Step(t, "verify", IF right
          THEN [pc |-> "load", name |-> n, pw |-> account[a].pw, raced |-> FALSE]
          ELSE [pc |-> "failed", name |-> n, sole |-> op[t].sole])
     /\ guesses' = IF right \/ op[t].sole THEN guesses ELSE [guesses EXCEPT ![n] = @ + 1]
     /\ UNCHANGED <<database, sessions, lockout, policy, inFlight, begun>>

Fail(t) ==
  /\ Step(t, "failed", Idle) /\ EndLogin(t)
  /\ RecordFailure(op[t].name, op[t].sole)
  /\ UNCHANGED <<database, sessions, policy, begun>>

\* The counter is cleared, then the account's role is read.
Load(t) ==
  LET n == op[t].name
      a == AccountOf[n]
  IN /\ At(t, "load") /\ Unlock(n)
     /\ IF Exists(a)
        THEN /\ Step(t, "load", [pc |-> "issue", name |-> n, pw |-> op[t].pw,
                                 role |-> account[a].role, raced |-> op[t].raced])
             /\ UNCHANGED inFlight
        ELSE Step(t, "load", Idle) /\ EndLogin(t)
     /\ UNCHANGED <<database, sessions, policy, begun>>

\* spared: a recovery that set another password failed to end this session.
IssueSession(t) ==
  /\ Step(t, "issue", Idle) /\ EndLogin(t)
  /\ sessions' = sessions \cup {[of |-> AccountOf[op[t].name], role |-> op[t].role,
                                 pw |-> op[t].pw, raced |-> op[t].raced, spared |-> FALSE]}
  /\ UNCHANGED <<database, lockout, policy, begun, guesses>>

\* Logout, or the idle or absolute time passed: the entry is not found again.
EndSession(s) ==
  /\ sessions' = sessions \ {s}
  /\ UNCHANGED <<database, lockout, policy, inFlight, op, begun, guesses>>

-----------------------------------------------------------------------------
(* Commands on accounts *)

\* The logins that have read what a command is about to change.
Raced(as) == [u \in Threads |->
  IF op[u].pc \in {"load", "issue"} /\ AccountOf[op[u].name] \in as
  THEN [op[u] EXCEPT !.raced = TRUE] ELSE op[u]]
CommitStep(t, as, o) == op' = [Raced(as) EXCEPT ![t] = o]

Commands == {"create", "role", "delete", "password", "reset", "policy", "replace"}
Needs(cmd) == IF cmd = "password" THEN Roles ELSE {"super_admin"}

\* require_super_admin or require_authenticated; the context is frozen here.
Resolve(t, s, cmd, a) ==
  /\ s.role \in Needs(cmd)
  /\ Begin(t, [pc |-> cmd, by |-> s.of, target |-> a])
  /\ UNCHANGED <<database, memory, inFlight>>

Unlocking(a, n) == [pc |-> "unlock", target |-> a, name |-> n]
Invalidating(a) == [pc |-> "invalidate", target |-> a]

\* A command that ends with an error changes nothing: a payload is refused, a row
\* is missing, the ledger's gate is closed.
Refuse(t) ==
  /\ op[t].pc \in Commands \cup {"code"}
  /\ op' = [op EXCEPT ![t] = Idle]
  /\ UNCHANGED <<database, memory, inFlight, begun>>

Create(t) ==
  /\ op[t].pc = "create" /\ account[op[t].target].role = "unborn"
  /\ \E r \in Roles : account' = [account EXCEPT ![op[t].target].role = r]
  /\ op' = [op EXCEPT ![t] = Idle]
  /\ UNCHANGED <<saved, memory, inFlight, begun>>

\* Mutant: the last super administrator may go.
NotTheLastAlways(a) == TRUE

\* Counted inside the transaction that demotes or deletes.
NotTheLast(a) == account[a].role = "super_admin" => Cardinality(Supers) > 1

ChangeRole(t, r) ==
  LET a == op[t].target IN
  /\ op[t].pc = "role" /\ Exists(a) /\ (r = "super_admin" \/ NotTheLast(a))
  /\ account' = [account EXCEPT ![a].role = r]
  /\ CommitStep(t, {a}, Invalidating(a))
  /\ UNCHANGED <<saved, memory, inFlight, begun>>

Delete(t) ==
  LET a == op[t].target IN
  /\ op[t].pc = "delete" /\ Exists(a) /\ a # op[t].by /\ NotTheLast(a)
  /\ account' = [account EXCEPT ![a].role = "deleted"]
  /\ CommitStep(t, {a}, Invalidating(a))
  /\ UNCHANGED <<saved, memory, inFlight, begun>>

\* change_local_account_password: the current password is verified, then written.
ChangePassword(t) ==
  LET a == op[t].target IN
  /\ op[t].pc = "password" /\ Exists(a)
  /\ account' = [account EXCEPT ![a].pw = @ + 1]
  /\ CommitStep(t, {a}, Unlocking(a, UserName[a]))
  /\ UNCHANGED <<saved, memory, inFlight, begun>>

\* admin_reset_local_account_password: the actor is read again and gives his
\* password; a wrong one is recorded against his name.
ActorIsSuper(t) == account[op[t].by].role = "super_admin"

WrongPassword(t) ==
  /\ op[t].pc \in {"reset", "policy"} /\ ActorIsSuper(t)
  /\ RecordFailure(UserName[op[t].by], IsSole(UserName[op[t].by]))
  /\ op' = [op EXCEPT ![t] = Idle]
  /\ UNCHANGED <<database, sessions, policy, inFlight, begun>>

ResetPassword(t) ==
  LET a == op[t].target IN
  /\ op[t].pc = "reset" /\ ActorIsSuper(t) /\ a # op[t].by /\ Exists(a)
  /\ account' = [account EXCEPT ![a].pw = @ + 1]
  /\ CommitStep(t, {a}, Unlocking(a, UserName[a]))
  /\ UNCHANGED <<saved, memory, inFlight, begun>>

UnlockTarget(t) ==
  /\ At(t, "unlock") /\ Step(t, "unlock", Invalidating(op[t].target))
  /\ Unlock(op[t].name)
  /\ UNCHANGED <<database, sessions, policy, inFlight, begun>>

\* Mutant: only sessions of an account that still exists are looked for.
InvalidateExisting(t) ==
  /\ Step(t, "invalidate", Idle)
  /\ sessions' = {s \in sessions : s.of # op[t].target \/ ~Exists(s.of)}
  /\ UNCHANGED <<database, lockout, policy, inFlight, begun, guesses>>

Invalidate(t) ==
  /\ Step(t, "invalidate", Idle)
  /\ sessions' = {s \in sessions : s.of # op[t].target}
  /\ UNCHANGED <<database, lockout, policy, inFlight, begun, guesses>>

\* update_security_policy: the setting, then switch_policy, which forgets the
\* counters that have not locked.
SavePolicy(t, mode) ==
  /\ op[t].pc = "policy" /\ ActorIsSuper(t)
  /\ saved' = mode
  /\ op' = [op EXCEPT ![t] = [pc |-> "switch", mode |-> mode]]
  /\ UNCHANGED <<account, memory, inFlight, begun>>

SwitchPolicy(t) ==
  /\ Step(t, "switch", Idle)
  /\ policy' = op[t].mode
  /\ lockout' = Kept /\ guesses' = GuessesKept
  /\ UNCHANGED <<database, sessions, inFlight, begun>>

\* Another database takes the place of this one (restore, move, reset of all
\* data); the sessions are cleared after its lock was given back.
Replace(t) ==
  /\ op[t].pc = "replace"
  /\ account' \in Databases /\ saved' \in Policies
  /\ CommitStep(t, Accounts, [pc |-> "clear"])
  /\ UNCHANGED <<memory, inFlight, begun>>

InvalidateAll(t) ==
  /\ Step(t, "clear", Idle)
  /\ sessions' = {} /\ lockout' = [n \in Names |-> Clear]
  /\ guesses' = [n \in Names |-> 0]
  /\ UNCHANGED <<database, policy, inFlight, begun>>

-----------------------------------------------------------------------------
(* Recovery of a forgotten password: forgot_local_account_password_conn *)

\* No session, and no place among the logins in flight.
BeginRecovery(t, n) ==
  /\ Begin(t, [pc |-> "gate", name |-> n, sole |-> IsSole(n)])
  /\ UNCHANGED <<database, memory, inFlight>>

CheckRecovery(t) ==
  LET n == op[t].name IN
  /\ At(t, "gate") /\ CheckEntry(n, op[t].sole)
  /\ Step(t, "gate", IF LockedOut(n, op[t].sole) THEN Idle
                     ELSE [pc |-> "code", name |-> n, sole |-> op[t].sole])
  /\ UNCHANGED <<database, sessions, policy, inFlight, begun>>

\* The code is wrong, the shared default one or already used, or there is no such
\* account.
WrongCode(t) ==
  /\ Step(t, "code", Idle)
  /\ RecordFailure(op[t].name, op[t].sole)
  /\ UNCHANGED <<database, sessions, policy, inFlight, begun>>

\* The code is consumed and the new password written in one transaction.
BurnCode(t) ==
  LET a == AccountOf[op[t].name] IN
  /\ At(t, "code") /\ Exists(a)
  /\ account' = [account EXCEPT ![a].pw = @ + 1]
  /\ CommitStep(t, {a}, [pc |-> "append", target |-> a, name |-> op[t].name])
  /\ UNCHANGED <<saved, memory, inFlight, begun>>

\* The burnt code is in the ledger, or was a legacy one, which need not be.
AppendBurn(t) ==
  /\ Step(t, "append", Unlocking(op[t].target, op[t].name))
  /\ UNCHANGED <<database, memory, inFlight, begun>>

\* append_event failed: the command ends with its error, the new password stays,
\* and the sessions of the old one are not looked for.
AppendBurnFails(t) ==
  LET a == op[t].target IN
  /\ Step(t, "append", Idle)
  /\ sessions' = {[s EXCEPT !.spared = @ \/ (s.of = a /\ s.pw # account[a].pw)] : s \in sessions}
  /\ UNCHANGED <<database, lockout, guesses, policy, inFlight, begun>>

-----------------------------------------------------------------------------
(* Starts *)

\* ensure_local_accounts_seed, at every start: the default administrator exists
\* and is a super administrator again.
Seeded == [account EXCEPT ![Adman] =
  [role |-> "super_admin", pw |-> IF Exists(Adman) THEN @.pw ELSE 0]]

Restart ==
  /\ account' = Seeded /\ policy' = saved /\ UNCHANGED <<saved, begun>>
  /\ sessions' = {} /\ lockout' = [n \in Names |-> Clear]
  /\ guesses' = [n \in Names |-> 0]
  /\ inFlight' = {} /\ op' = [t \in Threads |-> Idle]

-----------------------------------------------------------------------------
Login(t) == \/ \E n \in Names : BeginLogin(t, n)
            \/ CheckLockout(t) \/ Fail(t) \/ Load(t) \/ IssueSession(t)
            \/ \E right \in BOOLEAN : Verify(t, right)

Command(t) ==
  \/ \E s \in sessions, cmd \in Commands, a \in Accounts : Resolve(t, s, cmd, a)
  \/ Refuse(t) \/ Create(t) \/ Delete(t) \/ ChangePassword(t) \/ WrongPassword(t)
  \/ ResetPassword(t) \/ UnlockTarget(t) \/ Invalidate(t) \/ Replace(t)
  \/ InvalidateAll(t) \/ SwitchPolicy(t)
  \/ \E r \in Roles : ChangeRole(t, r)
  \/ \E mode \in Policies : SavePolicy(t, mode)

Recovery(t) == \/ \E n \in Names : BeginRecovery(t, n)
               \/ CheckRecovery(t) \/ WrongCode(t) \/ BurnCode(t)
               \/ AppendBurn(t) \/ AppendBurnFails(t)

AuthNext == \/ \E t \in Threads : Login(t) \/ Command(t) \/ Recovery(t)
            \/ \E n \in Names : LockElapses(n)
            \/ \E s \in sessions : EndSession(s)
            \/ Restart

AuthSpec == AuthInit /\ [][AuthNext]_authVars

-----------------------------------------------------------------------------
(* Properties *)

\* What a command has read by the place it is at.
Checking == [pc : {"check", "verify", "failed", "gate", "code"}, name : Names, sole : BOOLEAN]
Verified == [pc : {"load"}, name : Names, pw : Nat, raced : BOOLEAN]
Issuing == [pc : {"issue"}, name : Names, pw : Nat, role : Roles, raced : BOOLEAN]
Commanding == [pc : Commands, by : Accounts, target : Accounts]
Ending == [pc : {"append", "unlock"}, target : Accounts, name : Names]
Invalidations == [pc : {"invalidate"}, target : Accounts]
Op == {Idle, [pc |-> "clear"]} \cup [pc : {"switch"}, mode : Policies]
        \cup Checking \cup Verified \cup Issuing \cup Commanding \cup Ending \cup Invalidations

\* Every variable has its type.
AuthTypeOK ==
  /\ account \in [Accounts -> [role : Roles \cup Absent, pw : Nat]]
  /\ saved \in Policies /\ policy \in Policies
  /\ sessions \subseteq [of : Accounts, role : Roles, pw : Nat, raced : BOOLEAN, spared : BOOLEAN]
  /\ lockout \in [Names -> [failed : 0..MaxFailed["standard"],
                            lock : {"none", "running", "elapsed"}]]
  /\ inFlight \subseteq Names /\ op \in [Threads -> Op]
  /\ begun \in Nat /\ guesses \in [Names -> Nat]

\* Somebody can always administer the accounts, whatever demotions and deletions
\* of two super administrators overlap.
SuperAdminRemains == Supers # {}

\* Between the commands, a session has the role of its account and was issued for
\* the password its account has: what changed an account reached all of its
\* sessions.  Two kinds of session are excepted: those of a login that overlapped
\* the change, and, for the password alone, those of before a recovery whose entry
\* in the ledger failed after its new password was committed.
SessionsAreCurrent ==
  (\A t \in Threads : op[t].pc \notin {"append", "unlock", "invalidate", "clear"}) =>
    \A s \in sessions :
      \/ s.raced
      \/ s.role = account[s.of].role /\ (s.spared \/ s.pw = account[s.of].pw)

\* No more passwords are tried by logins under one name as typed, before the name
\* is locked or its counter is cleared, than the laxer policy allows (the sole
\* super administrator's stored name excepted): logins that overlap do not pass the
\* check together.  Another spelling of the name has a counter of its own.
GuessesAreBounded == \A n \in Names : guesses[n] <= MaxFailed["standard"]
=============================================================================
