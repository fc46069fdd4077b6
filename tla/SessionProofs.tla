----------------------------- MODULE SessionProofs -----------------------------
(***************************************************************************)
(* Theorems about SessionStore for any accounts, overlapping commands and   *)
(* lockout thresholds.                                                      *)
(***************************************************************************)
EXTENDS SessionStore, FiniteSetTheorems, TLAPS

\* A change of an account is still on its way to the sessions.
Reaches(t, a) == \/ op[t].pc \in {"unlock", "invalidate"} /\ op[t].target = a
                 \/ op[t].pc = "clear"
BeingEnded(a) == \E t \in Threads : Reaches(t, a)

\* A recovery has set the password of an account, and its entry in the ledger is
\* not made: it may yet fail and spare the sessions.
Recovers(t, a) == op[t].pc = "append" /\ op[t].target = a
BeingRecovered(a) == \E t \in Threads : Recovers(t, a)

\* A session is current, or its login overlapped the change, or the change that
\* outdated it is about to end it; its password may also be one that a recovery
\* replaced, which then spared it or has yet to come to it.
PasswordHeld(s) == s.spared \/ BeingRecovered(s.of) \/ s.pw = account[s.of].pw
SessionsHeld ==
  \A s \in sessions : \/ s.raced \/ BeingEnded(s.of)
                      \/ s.role = account[s.of].role /\ PasswordHeld(s)

\* What a login has read is what its account has, unless a change was marked on it.
LoginsHeld ==
  \A t \in Threads :
    /\ op[t].pc = "load" => op[t].raced \/ op[t].pw = account[AccountOf[op[t].name]].pw
    /\ op[t].pc = "issue" => \/ op[t].raced
                             \/ /\ op[t].pw = account[AccountOf[op[t].name]].pw
                                /\ op[t].role = account[AccountOf[op[t].name]].role

CurrentInv == AuthTypeOK /\ SessionsHeld /\ LoginsHeld

\* A login is in flight from its entry to its end, one for each name.
LoggingIn(t) == op[t].pc \in {"check", "verify", "load", "failed", "issue"}
OneLogin ==
  \A t \in Threads : LoggingIn(t) =>
    /\ op[t].name \in inFlight
    /\ \A u \in Threads : LoggingIn(u) /\ op[u].name = op[t].name => u = t

\* A wrong password that counts and is not yet recorded.
Unrecorded(t, n) == op[t].pc = "failed" /\ ~op[t].sole /\ op[t].name = n
Pending(n) == \E t \in Threads : Unrecorded(t, n)
Count(n) == IF lockout[n].lock = "elapsed" THEN 0 ELSE lockout[n].failed

\* The counter follows the guesses, but for the one that is not yet recorded.
GuessesAreCounted ==
  \A n \in Names : guesses[n] <= Count(n) \/ (Pending(n) /\ guesses[n] <= Count(n) + 1)

\* Who is not locked may still guess, and so may a login that has passed the check.
RoomToGuess ==
  /\ \A n \in Names : ~Locked(n) /\ ~Pending(n) => guesses[n] < MaxFailed["standard"]
  /\ \A t \in Threads : op[t].pc = "verify" /\ ~op[t].sole =>
       guesses[op[t].name] < MaxFailed["standard"]

GuessInv == AuthTypeOK /\ OneLogin /\ GuessesAreCounted /\ RoomToGuess /\ GuessesAreBounded

-----------------------------------------------------------------------------
(* Types. *)

\* The place of a command tells what it has read.
LEMMA OpKinds ==
  /\ Idle \in Op /\ Idle.pc = "idle"
  /\ \A o \in Op :
       /\ o.pc \in {"check", "verify", "failed", "gate", "code"} => o \in Checking
       /\ o.pc = "load" => o \in Verified
       /\ o.pc = "issue" => o \in Issuing
       /\ o.pc \in Commands => o \in Commanding
       /\ o.pc \in {"append", "unlock"} => o \in Ending
       /\ o.pc = "invalidate" => o \in Invalidations
       /\ o.pc = "switch" => o.mode \in Policies
  BY DEF Op, Idle, Checking, Verified, Issuing, Commanding, Ending, Invalidations, Commands

\* The records a command goes on with, their places, and what they name.
LEMMA NextPlaces ==
  /\ \A a \in Accounts, n \in Names :
       /\ Unlocking(a, n) \in Op /\ Unlocking(a, n).pc = "unlock"
       /\ Unlocking(a, n).target = a /\ Unlocking(a, n).name = n
  /\ \A a \in Accounts : /\ Invalidating(a) \in Op /\ Invalidating(a).pc = "invalidate"
                          /\ Invalidating(a).target = a
  /\ \A a \in Accounts : UserName[a] \in Names
  /\ \A n \in Names : AccountOf[n] \in Accounts
  BY SessionConstantsOK DEF Unlocking, Invalidating, Op, Ending, Invalidations

\* A lockout entry, and the entry without failures.
Entries == [failed : 0..MaxFailed["standard"], lock : {"none", "running", "elapsed"}]
LEMMA ClearEntry == Clear \in Entries
  BY SessionConstantsOK DEF Clear, Policies, Entries

\* A step of a command leaves the other commands where they are.
LEMMA StepEffect ==
  ASSUME AuthTypeOK, NEW t \in Threads, NEW o \in Op, op' = [op EXCEPT ![t] = o]
  PROVE  /\ op' \in [Threads -> Op] /\ op'[t] = o
         /\ \A u \in Threads \ {t} : op'[u] = op[u]
  BY DEF AuthTypeOK

\* A login that has read one of the accounts, and a login that was marked and is
\* otherwise as it was.
HasRead(o, as) == o.pc \in {"load", "issue"} /\ AccountOf[o.name] \in as
OnlyMarked(old, new) ==
  /\ new.pc = old.pc /\ new.raced /\ new.name = old.name /\ new.pw = old.pw
  /\ old.pc = "issue" => new.role = old.role

\* A commit marks the logins that had read what it changed, and nothing else of
\* the other commands.
LEMMA CommitEffect ==
  ASSUME AuthTypeOK, NEW t \in Threads, NEW as, NEW o \in Op, CommitStep(t, as, o)
  PROVE  /\ op' \in [Threads -> Op] /\ op'[t] = o
         /\ \A u \in Threads \ {t} :
              IF HasRead(op[u], as) THEN OnlyMarked(op[u], op'[u]) ELSE op'[u] = op[u]
<1>1. ASSUME NEW u \in Threads, op[u].pc \in {"load", "issue"}
      PROVE  LET m == [op[u] EXCEPT !.raced = TRUE] IN m \in Op /\ OnlyMarked(op[u], m)
  <2>1. op[u] \in Op
    BY DEF AuthTypeOK
  <2>2. CASE op[u].pc = "load"
    <3>1. op[u] \in Verified
      BY <2>1, <2>2, OpKinds
    <3>2. [op[u] EXCEPT !.raced = TRUE] \in Verified
      BY <3>1 DEF Verified
    <3> QED
      BY <2>2, <3>1, <3>2 DEF Verified, Op, OnlyMarked
  <2>3. CASE op[u].pc = "issue"
    <3>1. op[u] \in Issuing
      BY <2>1, <2>3, OpKinds
    <3>2. [op[u] EXCEPT !.raced = TRUE] \in Issuing
      BY <3>1 DEF Issuing
    <3> QED
      BY <2>3, <3>1, <3>2 DEF Issuing, Op, OnlyMarked
  <2> QED
    BY <1>1, <2>2, <2>3
<1>2. \A u \in Threads : Raced(as)[u] \in Op
  BY <1>1 DEF Raced, AuthTypeOK
<1>3. Raced(as) \in [Threads -> Op]
  BY <1>2 DEF Raced
<1>4. /\ op' \in [Threads -> Op] /\ op'[t] = o
      /\ \A u \in Threads \ {t} : op'[u] = Raced(as)[u]
  BY <1>3 DEF CommitStep
<1>5. \A u \in Threads : Raced(as)[u] = IF op[u].pc \in {"load", "issue"} /\ AccountOf[op[u].name] \in as
                                          THEN [op[u] EXCEPT !.raced = TRUE] ELSE op[u]
  BY DEF Raced
<1>6. ASSUME NEW u \in Threads \ {t}, HasRead(op[u], as)
      PROVE  OnlyMarked(op[u], op'[u])
  <2>1. op'[u] = [op[u] EXCEPT !.raced = TRUE]
    BY <1>4, <1>5, <1>6 DEF HasRead
  <2>2. OnlyMarked(op[u], [op[u] EXCEPT !.raced = TRUE])
    BY <1>1, <1>6 DEF HasRead
  <2> QED
    BY <2>1, <2>2
<1>7. ASSUME NEW u \in Threads \ {t}, ~HasRead(op[u], as)
      PROVE  op'[u] = op[u]
  BY <1>4, <1>5, <1>7 DEF HasRead
<1> QED
  BY <1>4, <1>6, <1>7

\* The next entry after a failure is an entry.
LEMMA RecordedType ==
  ASSUME AuthTypeOK, NEW e \in Entries, NEW exempt
  PROVE  Recorded(e, exempt) \in Entries
<1> DEFINE M == MaxFailed["standard"]
           old == IF e.lock = "elapsed" THEN Clear ELSE e
           n == IF old.failed < M THEN old.failed + 1 ELSE old.failed
<1>1. M \in Nat \ {0}
  BY SessionConstantsOK DEF Policies
<1>2. old \in Entries
  BY ClearEntry
<1>3. n \in 0..M
  BY <1>1, <1>2 DEF Entries
<1> HIDE DEF n
<1>4. [failed |-> n, lock |-> IF ~exempt /\ n >= MaxFailed[policy] THEN "running" ELSE old.lock]
        \in Entries
  BY <1>2, <1>3 DEF Entries
<1> QED
  BY <1>4 DEF Recorded, n

\* What remains of the counters has their types.
LEMMA KeptType ==
  ASSUME AuthTypeOK
  PROVE  Kept \in [Names -> Entries] /\ GuessesKept \in [Names -> Nat]
  BY ClearEntry DEF AuthTypeOK, Entries, Kept, GuessesKept

\* A recorded failure keeps the types of the counters.
LEMMA FailureTypes ==
  ASSUME AuthTypeOK, NEW n \in Names, NEW exempt, RecordFailure(n, exempt)
  PROVE  lockout' \in [Names -> Entries] /\ guesses' \in [Names -> Nat]
<1>1. lockout \in [Names -> Entries] /\ guesses \in [Names -> Nat]
  BY DEF AuthTypeOK, Entries
<1>2. Recorded(lockout[n], exempt) \in Entries /\ Recorded(Kept[n], exempt) \in Entries
  BY <1>1, KeptType, RecordedType
<1> QED
  BY <1>1, <1>2, KeptType DEF RecordFailure

\* The check of a lockout keeps the types of the counters.
LEMMA CheckTypes ==
  ASSUME AuthTypeOK, NEW n \in Names, NEW sole, CheckEntry(n, sole)
  PROVE  lockout' \in [Names -> Entries] /\ guesses' \in [Names -> Nat]
<1>1. lockout \in [Names -> Entries] /\ guesses \in [Names -> Nat]
  BY DEF AuthTypeOK, Entries
<1>2. lockout[n] \in Entries
  BY <1>1
<1>3. lockout' \in [Names -> Entries]
  BY <1>1, <1>2, ClearEntry DEF CheckEntry, Entries
<1>4. guesses' \in [Names -> Nat]
  BY <1>1 DEF CheckEntry
<1> QED
  BY <1>3, <1>4

\* Logins keep the types.
LEMMA LoginTypes ==
  ASSUME AuthTypeOK, NEW t \in Threads, Login(t)
  PROVE  AuthTypeOK'
<1> USE DEF memory, database
<1>1. ASSUME NEW n \in Names, BeginLogin(t, n) PROVE AuthTypeOK'
  <2>1. [pc |-> "check", name |-> n, sole |-> IsSole(n)] \in Op
    BY DEF Op, Checking, IsSole
  <2> QED
    BY <1>1, <2>1, StepEffect DEF AuthTypeOK, BeginLogin, Begin, Step
<1>2. CASE CheckLockout(t)
  <2>1. op[t] \in Checking
    BY <1>2, OpKinds DEF CheckLockout, At, AuthTypeOK
  <2>2. [pc |-> "verify", name |-> op[t].name, sole |-> op[t].sole] \in Op
    BY <2>1 DEF Op, Checking
  <2>3. op' \in [Threads -> Op] /\ inFlight' \subseteq Names
    BY <1>2, <2>2, OpKinds, StepEffect DEF CheckLockout, Step, EndLogin, AuthTypeOK
  <2>4. lockout' \in [Names -> Entries] /\ guesses' \in [Names -> Nat]
    BY <1>2, <2>1, CheckTypes DEF CheckLockout, Checking
  <2> QED
    BY <1>2, <2>3, <2>4 DEF CheckLockout, AuthTypeOK, Entries
<1>3. ASSUME NEW right \in BOOLEAN, Verify(t, right) PROVE AuthTypeOK'
  <2>1. op[t] \in Checking
    BY <1>3, OpKinds DEF Verify, At, AuthTypeOK
  <2>2. account[AccountOf[op[t].name]].pw \in Nat
    BY <2>1, NextPlaces DEF Checking, AuthTypeOK
  <2>3. /\ [pc |-> "load", name |-> op[t].name, pw |-> account[AccountOf[op[t].name]].pw,
            raced |-> FALSE] \in Op
        /\ [pc |-> "failed", name |-> op[t].name, sole |-> op[t].sole] \in Op
    BY <2>1, <2>2 DEF Op, Checking, Verified
  <2>4. op' \in [Threads -> Op]
    BY <1>3, <2>3, StepEffect DEF Verify, Step
  <2>5. guesses' \in [Names -> Nat]
    BY <1>3, <2>1 DEF Verify, AuthTypeOK, Checking
  <2> QED
    BY <1>3, <2>4, <2>5 DEF Verify, AuthTypeOK
<1>4. CASE Fail(t)
  <2>1. op[t].name \in Names
    BY <1>4, OpKinds DEF Fail, Step, At, AuthTypeOK, Checking
  <2>2. op' \in [Threads -> Op] /\ inFlight' \subseteq Names
    BY <1>4, OpKinds, StepEffect DEF Fail, Step, EndLogin, AuthTypeOK
  <2>3. lockout' \in [Names -> Entries] /\ guesses' \in [Names -> Nat]
    BY <1>4, <2>1, FailureTypes DEF Fail
  <2> QED
    BY <1>4, <2>2, <2>3 DEF Fail, AuthTypeOK, Entries
<1>5. CASE Load(t)
  <2>1. op[t] \in Verified
    BY <1>5, OpKinds DEF Load, At, AuthTypeOK
  <2>2. account[AccountOf[op[t].name]].role \in Roles \cup Absent
    BY <2>1, NextPlaces DEF Verified, AuthTypeOK
  <2>3. Exists(AccountOf[op[t].name]) =>
          [pc |-> "issue", name |-> op[t].name, pw |-> op[t].pw,
           role |-> account[AccountOf[op[t].name]].role, raced |-> op[t].raced] \in Op
    BY <2>1, <2>2 DEF Op, Verified, Issuing, Exists
  <2>4. op' \in [Threads -> Op] /\ inFlight' \subseteq Names
    BY <1>5, <2>3, OpKinds, StepEffect DEF Load, Step, EndLogin, AuthTypeOK
  <2>5. lockout' \in [Names -> Entries] /\ guesses' \in [Names -> Nat]
    BY <1>5, ClearEntry DEF Load, Unlock, AuthTypeOK, Entries
  <2> QED
    BY <1>5, <2>4, <2>5 DEF Load, AuthTypeOK, Entries
<1>6. CASE IssueSession(t)
  <2>1. op[t] \in Issuing
    BY <1>6, OpKinds DEF IssueSession, Step, At, AuthTypeOK
  <2>2. op' \in [Threads -> Op] /\ inFlight' \subseteq Names
    BY <1>6, OpKinds, StepEffect DEF IssueSession, Step, EndLogin, AuthTypeOK
  <2>3. AccountOf[op[t].name] \in Accounts
    BY <2>1, NextPlaces DEF Issuing
  <2> DEFINE s == [of |-> AccountOf[op[t].name], role |-> op[t].role, pw |-> op[t].pw,
                   raced |-> op[t].raced, spared |-> FALSE]
  <2>4. op[t].role \in Roles /\ op[t].pw \in Nat /\ op[t].raced \in BOOLEAN
    BY <2>1 DEF Issuing
  <2>5. s \in [of : Accounts, role : Roles, pw : Nat, raced : BOOLEAN, spared : BOOLEAN]
    BY <2>3, <2>4
  <2>6. sessions' = sessions \cup {s}
    BY <1>6 DEF IssueSession
  <2> HIDE DEF s
  <2>7. sessions' \subseteq [of : Accounts, role : Roles, pw : Nat, raced : BOOLEAN, spared : BOOLEAN]
    BY <2>5, <2>6 DEF AuthTypeOK
  <2> QED
    BY <1>6, <2>2, <2>7 DEF IssueSession, AuthTypeOK
<1> QED
  BY <1>1, <1>2, <1>3, <1>4, <1>5, <1>6 DEF Login

\* Commands keep the types.
LEMMA CommandTypes ==
  ASSUME AuthTypeOK, NEW t \in Threads, Command(t)
  PROVE  AuthTypeOK'
<1> USE DEF memory, database
<1>1. ASSUME NEW s \in sessions, NEW cmd \in Commands, NEW a \in Accounts, Resolve(t, s, cmd, a)
      PROVE  AuthTypeOK'
  <2>1. [pc |-> cmd, by |-> s.of, target |-> a] \in Op
    BY DEF Op, Commanding, AuthTypeOK
  <2> QED
    BY <1>1, <2>1, StepEffect DEF Resolve, Begin, Step, AuthTypeOK
<1>2. op[t].pc \in Commands \cup {"unlock", "invalidate"} => op[t].target \in Accounts
  BY OpKinds DEF AuthTypeOK, Commanding, Ending, Invalidations
<1>3. op[t].pc \in Commands => op[t].by \in Accounts
  BY OpKinds DEF AuthTypeOK, Commanding
<1>4. Clear \in Entries
  BY ClearEntry
<1>5. \A a \in Accounts : Invalidating(a) \in Op /\ Unlocking(a, UserName[a]) \in Op
  BY NextPlaces
<1>6. /\ [pc |-> "clear"] \in Op
      /\ \A mode \in Policies : [pc |-> "switch", mode |-> mode] \in Op
  BY DEF Op
<1>7. CASE Refuse(t)
  BY <1>7, OpKinds, StepEffect DEF Refuse, AuthTypeOK
<1>8. CASE Create(t)
  <2>1. op[t].target \in Accounts
    BY <1>2, <1>8 DEF Create, Commands
  <2>2. account' \in [Accounts -> [role : Roles \cup Absent, pw : Nat]]
    BY <1>8, <2>1 DEF Create, AuthTypeOK
  <2>3. op' \in [Threads -> Op]
    BY <1>8, OpKinds, StepEffect DEF Create
  <2> QED
    BY <1>8, <2>2, <2>3 DEF Create, AuthTypeOK
<1>9. ASSUME NEW r \in Roles, ChangeRole(t, r) PROVE AuthTypeOK'
  <2>1. op' \in [Threads -> Op]
    BY <1>2, <1>5, <1>9, CommitEffect DEF ChangeRole, Commands
  <2> QED
    BY <1>9, <2>1 DEF ChangeRole, AuthTypeOK
<1>10. CASE Delete(t)
  <2>1. op' \in [Threads -> Op]
    BY <1>2, <1>5, <1>10, CommitEffect DEF Delete, Commands
  <2> QED
    BY <1>10, <2>1 DEF Delete, AuthTypeOK, Absent
<1>11. CASE ChangePassword(t) \/ ResetPassword(t)
  <2>1. /\ op[t].target \in Accounts
        /\ account' = [account EXCEPT ![op[t].target].pw = @ + 1]
        /\ CommitStep(t, {op[t].target}, Unlocking(op[t].target, UserName[op[t].target]))
        /\ UNCHANGED <<saved, sessions, lockout, policy, guesses, inFlight, begun>>
    BY <1>2, <1>11 DEF ChangePassword, ResetPassword, Commands
  <2>2. op' \in [Threads -> Op]
    BY <1>5, <2>1, CommitEffect
  <2>3. account' \in [Accounts -> [role : Roles \cup Absent, pw : Nat]]
    BY <2>1 DEF AuthTypeOK
  <2> QED
    BY <2>1, <2>2, <2>3 DEF AuthTypeOK
<1>13. CASE WrongPassword(t)
  <2>1. UserName[op[t].by] \in Names
    BY <1>3, <1>13, NextPlaces DEF WrongPassword, Commands
  <2>2. lockout' \in [Names -> Entries] /\ guesses' \in [Names -> Nat]
    BY <1>13, <2>1, FailureTypes DEF WrongPassword
  <2>3. op' \in [Threads -> Op]
    BY <1>13, OpKinds, StepEffect DEF WrongPassword
  <2> QED
    BY <1>13, <2>2, <2>3 DEF WrongPassword, AuthTypeOK, Entries
<1>14. CASE UnlockTarget(t)
  <2>1. op' \in [Threads -> Op]
    BY <1>2, <1>5, <1>14, StepEffect DEF UnlockTarget, Step, At
  <2>2. lockout' \in [Names -> Entries] /\ guesses' \in [Names -> Nat]
    BY <1>4, <1>14 DEF UnlockTarget, Unlock, AuthTypeOK, Entries
  <2> QED
    BY <1>14, <2>1, <2>2 DEF UnlockTarget, AuthTypeOK, Entries
<1>15. CASE Invalidate(t)
  BY <1>15, OpKinds, StepEffect DEF Invalidate, Step, AuthTypeOK
<1>16. ASSUME NEW mode \in Policies, SavePolicy(t, mode) PROVE AuthTypeOK'
  BY <1>6, <1>16, StepEffect DEF SavePolicy, AuthTypeOK
<1>17. CASE SwitchPolicy(t)
  <2>1. op[t].mode \in Policies
    BY <1>17, OpKinds DEF SwitchPolicy, Step, At, AuthTypeOK
  <2> QED
    BY <1>17, <2>1, KeptType, OpKinds, StepEffect DEF SwitchPolicy, Step, AuthTypeOK, Entries
<1>18. CASE Replace(t)
  <2>1. op' \in [Threads -> Op]
    BY <1>6, <1>18, CommitEffect DEF Replace
  <2> QED
    BY <1>18, <2>1 DEF Replace, Databases, Absent, AuthTypeOK
<1>19. CASE InvalidateAll(t)
  BY <1>4, <1>19, OpKinds, StepEffect DEF InvalidateAll, Step, AuthTypeOK, Entries
<1> QED
  BY <1>1, <1>7, <1>8, <1>9, <1>10, <1>11, <1>13, <1>14, <1>15, <1>16, <1>17, <1>18, <1>19
     DEF Command

\* Recoveries keep the types.
LEMMA RecoveryTypes ==
  ASSUME AuthTypeOK, NEW t \in Threads, Recovery(t)
  PROVE  AuthTypeOK'
<1> USE DEF memory, database
<1>1. ASSUME NEW n \in Names, BeginRecovery(t, n) PROVE AuthTypeOK'
  <2>1. [pc |-> "gate", name |-> n, sole |-> IsSole(n)] \in Op
    BY DEF Op, Checking, IsSole
  <2> QED
    BY <1>1, <2>1, StepEffect DEF AuthTypeOK, BeginRecovery, Begin, Step
<1>2. CASE CheckRecovery(t)
  <2>1. op[t] \in Checking
    BY <1>2, OpKinds DEF CheckRecovery, At, AuthTypeOK
  <2>2. [pc |-> "code", name |-> op[t].name, sole |-> op[t].sole] \in Op
    BY <2>1 DEF Op, Checking
  <2>3. op' \in [Threads -> Op]
    BY <1>2, <2>2, OpKinds, StepEffect DEF CheckRecovery, Step
  <2>4. lockout' \in [Names -> Entries] /\ guesses' \in [Names -> Nat]
    BY <1>2, <2>1, CheckTypes DEF CheckRecovery, Checking
  <2> QED
    BY <1>2, <2>3, <2>4 DEF CheckRecovery, AuthTypeOK, Entries
<1>3. CASE WrongCode(t)
  <2>1. op[t].name \in Names
    BY <1>3, OpKinds DEF WrongCode, Step, At, AuthTypeOK, Checking
  <2>2. op' \in [Threads -> Op]
    BY <1>3, OpKinds, StepEffect DEF WrongCode, Step
  <2>3. lockout' \in [Names -> Entries] /\ guesses' \in [Names -> Nat]
    BY <1>3, <2>1, FailureTypes DEF WrongCode
  <2> QED
    BY <1>3, <2>2, <2>3 DEF WrongCode, AuthTypeOK, Entries
<1>4. CASE BurnCode(t)
  <2>1. op[t].name \in Names /\ AccountOf[op[t].name] \in Accounts
    BY <1>4, OpKinds, NextPlaces DEF BurnCode, At, AuthTypeOK, Checking
  <2>2. [pc |-> "append", target |-> AccountOf[op[t].name], name |-> op[t].name] \in Op
    BY <2>1 DEF Op, Ending
  <2>3. op' \in [Threads -> Op]
    BY <1>4, <2>2, CommitEffect DEF BurnCode
  <2>4. account' \in [Accounts -> [role : Roles \cup Absent, pw : Nat]]
    BY <1>4, <2>1 DEF BurnCode, AuthTypeOK
  <2> QED
    BY <1>4, <2>3, <2>4 DEF BurnCode, AuthTypeOK
<1>5. CASE AppendBurn(t)
  <2>1. op[t] \in Ending
    BY <1>5, OpKinds DEF AppendBurn, Step, At, AuthTypeOK
  <2>2. op' \in [Threads -> Op]
    BY <1>5, <2>1, NextPlaces, StepEffect DEF AppendBurn, Step, Ending
  <2> QED
    BY <1>5, <2>2 DEF AppendBurn, AuthTypeOK
<1>6. CASE AppendBurnFails(t)
  <2>1. op' \in [Threads -> Op]
    BY <1>6, OpKinds, StepEffect DEF AppendBurnFails, Step
  <2>2. ASSUME NEW s \in sessions
        PROVE  [s EXCEPT !.spared = @ \/ (s.of = op[t].target /\ s.pw # account[op[t].target].pw)]
                 \in [of : Accounts, role : Roles, pw : Nat, raced : BOOLEAN, spared : BOOLEAN]
    BY <2>2 DEF AuthTypeOK
  <2>3. sessions' \subseteq [of : Accounts, role : Roles, pw : Nat, raced : BOOLEAN, spared : BOOLEAN]
    BY <1>6, <2>2 DEF AppendBurnFails
  <2> QED
    BY <1>6, <2>1, <2>3 DEF AppendBurnFails, AuthTypeOK
<1> QED
  BY <1>1, <1>2, <1>3, <1>4, <1>5, <1>6 DEF Recovery

\* The clock, the ends of sessions and restarts keep the types.
LEMMA OtherTypes ==
  ASSUME AuthTypeOK,
         \/ \E n \in Names : LockElapses(n)
         \/ \E s \in sessions : EndSession(s)
         \/ Restart
  PROVE  AuthTypeOK'
<1> USE DEF memory, database
<1>1. CASE \E n \in Names : LockElapses(n)
  BY <1>1 DEF LockElapses, AuthTypeOK
<1>2. CASE \E s \in sessions : EndSession(s)
  BY <1>2 DEF EndSession, AuthTypeOK
<1>3. CASE Restart
  <2>1. Seeded \in [Accounts -> [role : Roles \cup Absent, pw : Nat]]
    BY SessionConstantsOK DEF Seeded, AuthTypeOK, Roles
  <2> QED
    BY <1>3, <2>1, ClearEntry, OpKinds DEF Restart, AuthTypeOK, Entries
<1> QED
  BY <1>1, <1>2, <1>3

\* The process starts with values of the types.
LEMMA InitTypes == AuthInit => AuthTypeOK
  BY ClearEntry, OpKinds DEF AuthInit, AuthTypeOK, Databases, Absent, Policies, Entries

\* Every step keeps the types.
LEMMA NextTypes == AuthTypeOK /\ [AuthNext]_authVars => AuthTypeOK'
<1>1. AuthTypeOK /\ UNCHANGED authVars => AuthTypeOK'
  BY DEF authVars, AuthTypeOK
<1> QED
  BY <1>1, LoginTypes, CommandTypes, RecoveryTypes, OtherTypes DEF AuthNext

\* Every variable keeps its type, for any accounts, names, threads and thresholds.
THEOREM AuthTypes == AuthSpec => []AuthTypeOK
  BY InitTypes, NextTypes, PTL DEF AuthSpec

-----------------------------------------------------------------------------
(* Somebody administers the accounts. *)

\* A super administrator who is not the last leaves another one.
LEMMA AnotherSuper ==
  ASSUME NEW a \in Accounts, SuperAdminRemains, NotTheLast(a)
  PROVE  Supers \ {a} # {}
<1>1. CASE account[a].role = "super_admin"
  <2>1. Cardinality(Supers) > 1
    BY <1>1 DEF NotTheLast
  <2>2. Cardinality({a}) = 1 /\ Cardinality({}) = 0
    BY FS_Singleton, FS_EmptySet
  <2>3. Supers # {a} /\ Supers # {}
    BY <2>1, <2>2
  <2> QED
    BY <2>3
<1>2. CASE account[a].role # "super_admin"
  BY <1>2 DEF SuperAdminRemains, Supers
<1> QED
  BY <1>1, <1>2

\* An account that keeps its role keeps its right.
LEMMA SupersStay ==
  ASSUME NEW s \in Supers, account'[s].role = "super_admin"
  PROVE  SuperAdminRemains'
  BY DEF Supers, SuperAdminRemains

\* No command takes the last super administrator's right.
LEMMA CommandsKeepSuper ==
  ASSUME AuthTypeOK, SuperAdminRemains, NEW t \in Threads, Command(t)
  PROVE  SuperAdminRemains'
<1> USE DEF database
<1>1. op[t].pc \in Commands => op[t].target \in Accounts
  BY OpKinds DEF AuthTypeOK, Commanding
<1>2. PICK s \in Supers : TRUE
  BY DEF SuperAdminRemains
<1>3. s \in Accounts /\ account[s].role = "super_admin"
  BY <1>2 DEF Supers
<1>4. CASE UNCHANGED account
  BY <1>4 DEF Supers, SuperAdminRemains
<1>5. CASE Create(t)
  <2>1. s # op[t].target
    BY <1>3, <1>5 DEF Create
  <2> QED
    BY <1>3, <1>5, <2>1, SupersStay DEF Create, AuthTypeOK, Supers
<1>6. ASSUME NEW r \in Roles, ChangeRole(t, r) PROVE SuperAdminRemains'
  <2>1. op[t].target \in Accounts
    BY <1>1, <1>6 DEF ChangeRole, Commands
  <2>2. CASE r = "super_admin"
    BY <1>3, <1>6, <2>1, <2>2, SupersStay DEF ChangeRole, AuthTypeOK, Supers
  <2>3. CASE r # "super_admin"
    <3>1. NotTheLast(op[t].target)
      BY <1>6, <2>3 DEF ChangeRole
    <3>2. PICK o \in Supers : o # op[t].target
      BY <2>1, <3>1, AnotherSuper
    <3> QED
      BY <1>6, <3>2, SupersStay DEF ChangeRole, AuthTypeOK, Supers
  <2> QED
    BY <2>2, <2>3
<1>7. CASE Delete(t)
  <2>1. op[t].target \in Accounts /\ NotTheLast(op[t].target)
    BY <1>1, <1>7 DEF Delete, Commands
  <2>2. PICK o \in Supers : o # op[t].target
    BY <2>1, AnotherSuper
  <2> QED
    BY <1>7, <2>2, SupersStay DEF Delete, AuthTypeOK, Supers
<1>8. CASE ChangePassword(t) \/ ResetPassword(t)
  <2>1. account' = [account EXCEPT ![op[t].target].pw = @ + 1] /\ op[t].target \in Accounts
    BY <1>1, <1>8 DEF ChangePassword, ResetPassword, Commands
  <2>2. account'[s].role = account[s].role
    BY <1>3, <2>1 DEF AuthTypeOK
  <2> QED
    BY <1>2, <1>3, <2>2, SupersStay
<1>9. CASE Replace(t)
  BY <1>9, SessionConstantsOK DEF Replace, Databases, Supers, SuperAdminRemains
<1>10. UNCHANGED account \/ Create(t) \/ (\E r \in Roles : ChangeRole(t, r)) \/ Delete(t)
         \/ ChangePassword(t) \/ ResetPassword(t) \/ Replace(t)
  BY DEF Command, Resolve, Refuse, WrongPassword, UnlockTarget, Invalidate, InvalidateAll,
         SwitchPolicy, SavePolicy
<1> QED
  BY <1>4, <1>5, <1>6, <1>7, <1>8, <1>9, <1>10

\* A recovery sets a password, and leaves every account its role.
LEMMA RecoveriesKeepRoles ==
  ASSUME AuthTypeOK, NEW t \in Threads, Recovery(t)
  PROVE  \A a \in Accounts : account'[a].role = account[a].role
<1>1. ASSUME BurnCode(t)
      PROVE  \A a \in Accounts : account'[a].role = account[a].role
  BY <1>1 DEF BurnCode, AuthTypeOK
<1>2. BurnCode(t) \/ UNCHANGED account
  BY DEF Recovery, BeginRecovery, CheckRecovery, WrongCode, AppendBurn, AppendBurnFails, database
<1> QED
  BY <1>1, <1>2

\* Accounts that keep their roles keep a super administrator.
LEMMA SuperByRoles ==
  ASSUME SuperAdminRemains, \A a \in Accounts : account'[a].role = account[a].role
  PROVE  SuperAdminRemains'
  BY DEF Supers, SuperAdminRemains

\* Whatever demotions and deletions overlap, a super administrator remains.
THEOREM SuperRemains == AuthSpec => []SuperAdminRemains
<1>1. AuthInit => SuperAdminRemains
  BY SessionConstantsOK DEF AuthInit, Databases, Supers, SuperAdminRemains
<1>2. AuthTypeOK /\ SuperAdminRemains /\ [AuthNext]_authVars => SuperAdminRemains'
  <2> SUFFICES ASSUME AuthTypeOK, SuperAdminRemains, [AuthNext]_authVars
               PROVE  SuperAdminRemains'
    OBVIOUS
  <2>1. CASE UNCHANGED account
    BY <2>1 DEF Supers, SuperAdminRemains
  <2>2. ASSUME NEW t \in Threads, Login(t) PROVE UNCHANGED account
    BY <2>2 DEF Login, BeginLogin, CheckLockout, Fail, Load, IssueSession, Verify, database
  <2>3. CASE Restart
    <3>1. account'[Adman].role = "super_admin"
      BY <2>3, SessionConstantsOK DEF Restart, Seeded, AuthTypeOK
    <3> QED
      BY <3>1, SessionConstantsOK DEF Supers, SuperAdminRemains
  <2>5. ASSUME NEW t \in Threads, Recovery(t) PROVE SuperAdminRemains'
    BY <2>5, RecoveriesKeepRoles, SuperByRoles
  <2>4. UNCHANGED authVars \/ (\E n \in Names : LockElapses(n))
          \/ (\E s \in sessions : EndSession(s)) => UNCHANGED account
    BY DEF authVars, LockElapses, EndSession, database
  <2> QED
    BY <2>1, <2>2, <2>3, <2>4, <2>5, CommandsKeepSuper DEF AuthNext
<1> QED
  BY <1>1, <1>2, AuthTypes, PTL DEF AuthSpec

-----------------------------------------------------------------------------
(* Sessions are current. *)

\* A step that leaves the accounts alone, issues nothing and does not give up the
\* end of a session keeps sessions and logins as they were.
LEMMA QuietStep ==
  ASSUME CurrentInv, NEW t \in Threads, \A u \in Threads \ {t} : op'[u] = op[u],
         UNCHANGED account, sessions' \subseteq sessions,
         \A s \in sessions' : Reaches(t, s.of) => Reaches(t, s.of)',
         \A s \in sessions' : Recovers(t, s.of) => Reaches(t, s.of)',
         op'[t].pc \notin {"load", "issue"}
  PROVE  SessionsHeld' /\ LoginsHeld'
<1>1. ASSUME NEW s \in sessions', BeingEnded(s.of)
      PROVE  BeingEnded(s.of)'
  <2>1. PICK u \in Threads : Reaches(u, s.of)
    BY <1>1 DEF BeingEnded
  <2>2. Reaches(u, s.of)'
    BY <2>1 DEF Reaches
  <2> QED
    BY <2>2 DEF BeingEnded
<1>2. ASSUME NEW s \in sessions', BeingRecovered(s.of)
      PROVE  BeingRecovered(s.of)' \/ BeingEnded(s.of)'
  <2>1. PICK u \in Threads : Recovers(u, s.of)
    BY <1>2 DEF BeingRecovered
  <2>2. CASE u = t
    BY <2>1, <2>2 DEF BeingEnded
  <2>3. CASE u # t
    <3>1. Recovers(u, s.of)'
      BY <2>1, <2>3 DEF Recovers
    <3> QED
      BY <3>1 DEF BeingRecovered
  <2> QED
    BY <2>2, <2>3
<1>3. SessionsHeld'
  <2> SUFFICES ASSUME NEW s \in sessions'
               PROVE  (s.raced \/ BeingEnded(s.of)
                        \/ (s.role = account[s.of].role /\ PasswordHeld(s)))'
    BY DEF SessionsHeld
  <2>1. s.raced \/ BeingEnded(s.of) \/ (s.role = account[s.of].role /\ PasswordHeld(s))
    BY DEF CurrentInv, SessionsHeld
  <2> QED
    BY <1>1, <1>2, <2>1 DEF PasswordHeld
<1>4. LoginsHeld'
  BY DEF CurrentInv, LoginsHeld
<1> QED
  BY <1>3, <1>4

\* A commit outdates only what its command goes on to end, or a recovery to come
\* to, and what it marks.
LEMMA ChangeStep ==
  ASSUME CurrentInv, NEW t \in Threads, NEW as \in SUBSET Accounts, NEW o \in Op,
         CommitStep(t, as, o), UNCHANGED sessions,
         \A a \in Accounts \ as : account'[a] = account[a],
         op[t].pc \in Commands \cup {"code"}, o.pc \notin {"load", "issue"},
         \A a \in as : \/ Reaches(t, a)'
                       \/ Recovers(t, a)' /\ account'[a].role = account[a].role
  PROVE  SessionsHeld' /\ LoginsHeld'
<1>1. AuthTypeOK
  BY DEF CurrentInv
<1>2. /\ op' \in [Threads -> Op] /\ op'[t] = o
      /\ \A u \in Threads \ {t} :
           IF HasRead(op[u], as) THEN OnlyMarked(op[u], op'[u]) ELSE op'[u] = op[u]
  BY <1>1, CommitEffect
<1>3. \A u \in Threads : op[u].pc \in {"append", "unlock", "invalidate", "clear"} =>
        u # t /\ op'[u] = op[u]
  BY <1>2 DEF HasRead, Commands
<1>4. ASSUME NEW a
      PROVE  /\ BeingEnded(a) => BeingEnded(a)'
             /\ BeingRecovered(a) => BeingRecovered(a)'
  <2>1. \A u \in Threads : Reaches(u, a) => Reaches(u, a)'
    BY <1>3 DEF Reaches
  <2>2. \A u \in Threads : Recovers(u, a) => Recovers(u, a)'
    BY <1>3 DEF Recovers
  <2> QED
    BY <2>1, <2>2 DEF BeingEnded, BeingRecovered
<1>5. SessionsHeld'
  <2> SUFFICES ASSUME NEW s \in sessions'
               PROVE  (s.raced \/ BeingEnded(s.of)
                        \/ (s.role = account[s.of].role /\ PasswordHeld(s)))'
    BY DEF SessionsHeld
  <2>1. s \in sessions /\ s.of \in Accounts
    BY <1>1 DEF AuthTypeOK
  <2>2. s.raced \/ BeingEnded(s.of) \/ (s.role = account[s.of].role /\ PasswordHeld(s))
    BY <2>1 DEF CurrentInv, SessionsHeld
  <2>3. CASE s.of \in as /\ Reaches(t, s.of)'
    BY <2>3 DEF BeingEnded
  <2>4. CASE s.of \in as /\ Recovers(t, s.of)' /\ account'[s.of].role = account[s.of].role
    BY <1>4, <2>2, <2>4 DEF PasswordHeld, BeingRecovered
  <2>5. CASE s.of \notin as
    <3>1. account'[s.of] = account[s.of]
      BY <2>1, <2>5
    <3> QED
      BY <1>4, <2>2, <3>1 DEF PasswordHeld
  <2> QED
    BY <2>3, <2>4, <2>5
<1>6. ASSUME NEW u \in Threads
      PROVE  /\ op'[u].pc = "load" => op'[u].raced \/ op'[u].pw = account'[AccountOf[op'[u].name]].pw
             /\ op'[u].pc = "issue" => \/ op'[u].raced
                                       \/ /\ op'[u].pw = account'[AccountOf[op'[u].name]].pw
                                          /\ op'[u].role = account'[AccountOf[op'[u].name]].role
  <2>1. CASE u = t
    BY <1>2, <2>1
  <2>2. CASE u # t /\ HasRead(op[u], as)
    <3>1. op'[u].raced
      BY <1>2, <2>2 DEF OnlyMarked
    <3> QED
      BY <3>1
  <2>3. CASE u # t /\ op[u].pc \in {"load", "issue"} /\ AccountOf[op[u].name] \notin as
    <3>1. op'[u] = op[u]
      BY <1>2, <2>3 DEF HasRead
    <3>2. AccountOf[op[u].name] \in Accounts
      BY <1>1, <2>3, OpKinds, NextPlaces DEF AuthTypeOK, Verified, Issuing
    <3>3. account'[AccountOf[op[u].name]] = account[AccountOf[op[u].name]]
      BY <2>3, <3>2
    <3> QED
      BY <3>1, <3>3 DEF CurrentInv, LoginsHeld
  <2>4. CASE u # t /\ op[u].pc \notin {"load", "issue"}
    <3>1. op'[u] = op[u]
      BY <1>2, <2>4 DEF HasRead
    <3> QED
      BY <2>4, <3>1
  <2> QED
    BY <2>1, <2>2, <2>3, <2>4 DEF HasRead
<1> QED
  BY <1>5, <1>6 DEF LoginsHeld

\* A login reads what its account has, and what it read becomes its session.
LEMMA LoginsKeepCurrent ==
  ASSUME CurrentInv, NEW t \in Threads, Login(t)
  PROVE  SessionsHeld' /\ LoginsHeld'
<1> USE DEF memory, database
<1>1. AuthTypeOK
  BY DEF CurrentInv
<1>2. UNCHANGED account /\ op[t].pc \notin {"append", "unlock", "invalidate", "clear"}
  BY DEF Login, BeginLogin, CheckLockout, Verify, Fail, Load, IssueSession, Begin, Step, At
<1>3. \A a : ~Reaches(t, a) /\ ~Recovers(t, a)
  BY <1>2 DEF Reaches, Recovers
<1>4. PICK o : op' = [op EXCEPT ![t] = o]
  BY DEF Login, BeginLogin, CheckLockout, Verify, Fail, Load, IssueSession, Begin, Step
<1>5. op'[t] = o /\ \A u \in Threads \ {t} : op'[u] = op[u]
  BY <1>1, <1>4 DEF AuthTypeOK
<1>6. ASSUME NEW a
      PROVE  (BeingEnded(a) => BeingEnded(a)') /\ (BeingRecovered(a) => BeingRecovered(a)')
  BY <1>3, <1>5 DEF BeingEnded, Reaches, BeingRecovered, Recovers
<1>7. CASE op'[t].pc \notin {"load", "issue"} /\ UNCHANGED sessions
  BY <1>2, <1>3, <1>5, <1>7, QuietStep
<1>8. ASSUME NEW right \in BOOLEAN, Verify(t, right)
      PROVE  SessionsHeld' /\ LoginsHeld'
  <2>1. op'[t].pc # "issue" /\ (op'[t].pc = "load" => op'[t].pw = account[AccountOf[op'[t].name]].pw)
    BY <1>1, <1>8 DEF Verify, Step, AuthTypeOK
  <2>2. LoginsHeld'
    BY <1>2, <1>5, <2>1 DEF CurrentInv, LoginsHeld
  <2>3. SessionsHeld'
    BY <1>2, <1>6, <1>8 DEF Verify, CurrentInv, SessionsHeld, PasswordHeld
  <2> QED
    BY <2>2, <2>3
<1>9. CASE Load(t) /\ Exists(AccountOf[op[t].name])
  <2>1. /\ op[t].pc = "load" /\ op'[t].pc = "issue" /\ op'[t].name = op[t].name
        /\ op'[t].pw = op[t].pw /\ op'[t].raced = op[t].raced
        /\ op'[t].role = account[AccountOf[op[t].name]].role
    BY <1>1, <1>9 DEF Load, Step, At, AuthTypeOK
  <2>2. LoginsHeld'
    BY <1>2, <1>5, <2>1 DEF CurrentInv, LoginsHeld
  <2>3. SessionsHeld'
    BY <1>2, <1>6, <1>9 DEF Load, CurrentInv, SessionsHeld, PasswordHeld
  <2> QED
    BY <2>2, <2>3
<1>10. CASE IssueSession(t)
  <2>1. op[t].pc = "issue" /\ op'[t].pc = "idle"
    BY <1>1, <1>10 DEF IssueSession, Step, At, AuthTypeOK, Idle
  <2>2. LoginsHeld'
    BY <1>2, <1>5, <2>1 DEF CurrentInv, LoginsHeld
  <2> DEFINE n == [of |-> AccountOf[op[t].name], role |-> op[t].role, pw |-> op[t].pw,
                   raced |-> op[t].raced, spared |-> FALSE]
  <2>3. sessions' = sessions \cup {n}
    BY <1>10 DEF IssueSession
  <2>4. n.raced \/ (n.role = account[n.of].role /\ n.pw = account[n.of].pw)
    BY <2>1 DEF CurrentInv, LoginsHeld
  <2>5. SessionsHeld'
    BY <1>2, <1>6, <2>3, <2>4 DEF CurrentInv, SessionsHeld, PasswordHeld
  <2> QED
    BY <2>2, <2>5
<1>11. \/ op'[t].pc \notin {"load", "issue"} /\ UNCHANGED sessions
       \/ (\E right \in BOOLEAN : Verify(t, right))
       \/ Load(t) /\ Exists(AccountOf[op[t].name])
       \/ IssueSession(t)
  <2>1. ASSUME NEW n \in Names, BeginLogin(t, n)
        PROVE  op'[t].pc \notin {"load", "issue"} /\ UNCHANGED sessions
    BY <1>1, <2>1 DEF BeginLogin, Begin, Step, AuthTypeOK
  <2>2. CASE CheckLockout(t)
    BY <1>1, <2>2 DEF CheckLockout, Step, AuthTypeOK, Idle
  <2>3. CASE Fail(t)
    BY <1>1, <2>3 DEF Fail, Step, AuthTypeOK, Idle
  <2>4. CASE Load(t) /\ ~Exists(AccountOf[op[t].name])
    BY <1>1, <2>4 DEF Load, Step, AuthTypeOK, Idle
  <2> QED
    BY <2>1, <2>2, <2>3, <2>4 DEF Login
<1> QED
  BY <1>7, <1>8, <1>9, <1>10, <1>11

\* A command that begun an account goes on to end its sessions.
LEMMA CommandsKeepCurrent ==
  ASSUME CurrentInv, NEW t \in Threads, Command(t)
  PROVE  SessionsHeld' /\ LoginsHeld'
<1> USE DEF memory, database
<1>1. AuthTypeOK
  BY DEF CurrentInv
<1>2. op[t].pc \in Commands => op[t].target \in Accounts
  BY <1>1, OpKinds DEF AuthTypeOK, Commanding
<1>3. \A a \in Accounts : /\ Invalidating(a) \in Op /\ Unlocking(a, UserName[a]) \in Op
                          /\ Invalidating(a).pc = "invalidate" /\ Invalidating(a).target = a
                          /\ Unlocking(a, UserName[a]).pc = "unlock"
                          /\ Unlocking(a, UserName[a]).target = a
  BY NextPlaces
<1>4. ASSUME NEW a \in Accounts, NEW o \in Op, CommitStep(t, {a}, o), UNCHANGED sessions,
             \A b \in Accounts \ {a} : account'[b] = account[b], op[t].pc \in Commands,
             o.pc \in {"unlock", "invalidate"}, o.target = a
      PROVE  SessionsHeld' /\ LoginsHeld'
  <2>1. op'[t] = o
    BY <1>1, <1>4, CommitEffect
  <2>2. \A b \in {a} : Reaches(t, b)'
    BY <1>4, <2>1 DEF Reaches
  <2> QED
    BY <1>4, <2>2, ChangeStep
<1>5. ASSUME NEW r \in Roles, ChangeRole(t, r) PROVE SessionsHeld' /\ LoginsHeld'
  <2>1. op[t].pc \in Commands /\ op[t].target \in Accounts
    BY <1>2, <1>5 DEF ChangeRole, Commands
  <2>2. /\ CommitStep(t, {op[t].target}, Invalidating(op[t].target)) /\ UNCHANGED sessions
        /\ account' = [account EXCEPT ![op[t].target].role = r]
    BY <1>5 DEF ChangeRole
  <2>3. \A b \in Accounts \ {op[t].target} : account'[b] = account[b]
    BY <1>1, <2>2 DEF AuthTypeOK
  <2> QED
    BY <1>3, <1>4, <2>1, <2>2, <2>3
<1>6. CASE Delete(t)
  <2>1. op[t].pc \in Commands /\ op[t].target \in Accounts
    BY <1>2, <1>6 DEF Delete, Commands
  <2>2. /\ CommitStep(t, {op[t].target}, Invalidating(op[t].target)) /\ UNCHANGED sessions
        /\ account' = [account EXCEPT ![op[t].target].role = "deleted"]
    BY <1>6 DEF Delete
  <2>3. \A b \in Accounts \ {op[t].target} : account'[b] = account[b]
    BY <1>1, <2>2 DEF AuthTypeOK
  <2> QED
    BY <1>3, <1>4, <2>1, <2>2, <2>3
<1>7. CASE ChangePassword(t) \/ ResetPassword(t)
  <2>1. op[t].pc \in Commands /\ op[t].target \in Accounts
    BY <1>2, <1>7 DEF ChangePassword, ResetPassword, Commands
  <2>2. /\ account' = [account EXCEPT ![op[t].target].pw = @ + 1]
        /\ CommitStep(t, {op[t].target}, Unlocking(op[t].target, UserName[op[t].target]))
        /\ UNCHANGED sessions
    BY <1>7 DEF ChangePassword, ResetPassword
  <2>3. \A b \in Accounts \ {op[t].target} : account'[b] = account[b]
    BY <1>1, <2>2 DEF AuthTypeOK
  <2> QED
    BY <1>3, <1>4, <2>1, <2>2, <2>3
<1>8. CASE Create(t)
  <2> DEFINE b == op[t].target
  <2>1. /\ op[t].pc = "create" /\ b \in Accounts /\ account[b].role = "unborn"
        /\ \E r \in Roles : account' = [account EXCEPT ![b].role = r]
        /\ op' = [op EXCEPT ![t] = Idle] /\ UNCHANGED sessions
    BY <1>2, <1>8 DEF Create, Commands
  <2>2. op'[t].pc = "idle" /\ \A u \in Threads \ {t} : op'[u] = op[u]
    BY <1>1, <2>1, OpKinds, StepEffect
  <2>3. \A c \in Accounts : account'[c].pw = account[c].pw /\ (c # b => account'[c] = account[c])
    BY <1>1, <2>1 DEF AuthTypeOK
  <2>4. ASSUME NEW a
        PROVE  (BeingEnded(a) => BeingEnded(a)') /\ (BeingRecovered(a) => BeingRecovered(a)')
    BY <2>1, <2>2 DEF BeingEnded, Reaches, BeingRecovered, Recovers
  <2>5. \A s \in sessions : s.of \in Accounts /\ s.role # "unborn"
    BY <1>1 DEF AuthTypeOK, Roles
  <2>6. SessionsHeld'
    BY <2>1, <2>3, <2>4, <2>5 DEF CurrentInv, SessionsHeld, PasswordHeld
  <2>7. \A u \in Threads : /\ op[u].pc \in {"load", "issue"} => AccountOf[op[u].name] \in Accounts
                           /\ op[u].pc = "issue" => op[u].role # "unborn"
    BY <1>1, OpKinds, NextPlaces DEF AuthTypeOK, Verified, Issuing, Roles
  <2>8. LoginsHeld'
    BY <2>1, <2>2, <2>3, <2>7 DEF CurrentInv, LoginsHeld
  <2> QED
    BY <2>6, <2>8
<1>9. CASE Replace(t)
  <2>1. [pc |-> "clear"] \in Op
    BY DEF Op
  <2>2. op'[t] = [pc |-> "clear"]
    BY <1>1, <1>9, <2>1, CommitEffect DEF Replace
  <2>3. \A a \in Accounts : Reaches(t, a)'
    BY <2>2 DEF Reaches
  <2> QED
    BY <1>9, <2>1, <2>3, ChangeStep DEF Replace, Commands
<1>10. ASSUME NEW o, op' = [op EXCEPT ![t] = o], o.pc \notin {"load", "issue"}, op[t].pc # "append",
              UNCHANGED account, sessions' \subseteq sessions,
              \A s \in sessions' : Reaches(t, s.of) =>
                \/ o.pc \in {"unlock", "invalidate"} /\ o.target = s.of
                \/ o.pc = "clear"
       PROVE  SessionsHeld' /\ LoginsHeld'
  <2>1. op'[t] = o /\ \A u \in Threads \ {t} : op'[u] = op[u]
    BY <1>1, <1>10 DEF AuthTypeOK
  <2>2. \A s \in sessions' : Reaches(t, s.of) => Reaches(t, s.of)'
    BY <1>10, <2>1 DEF Reaches
  <2>3. \A a : ~Recovers(t, a)
    BY <1>10 DEF Recovers
  <2> QED
    BY <1>10, <2>1, <2>2, <2>3, QuietStep
<1>11. CASE \/ \E s \in sessions, cmd \in Commands, a \in Accounts : Resolve(t, s, cmd, a)
            \/ Refuse(t) \/ WrongPassword(t) \/ SwitchPolicy(t)
            \/ \E mode \in Policies : SavePolicy(t, mode)
  <2>1. op[t].pc # "append" /\ \A a : ~Reaches(t, a)
    BY <1>11 DEF Reaches, Resolve, Refuse, WrongPassword, SwitchPolicy, SavePolicy, Begin, Step, At,
                 Commands
  <2>2. UNCHANGED <<account, sessions>>
    BY <1>11 DEF Resolve, Refuse, WrongPassword, SwitchPolicy, SavePolicy
  <2>3. \E o : op' = [op EXCEPT ![t] = o] /\ o.pc \in {"idle", "switch"} \cup Commands
    <3>1. ASSUME NEW s \in sessions, NEW cmd \in Commands, NEW a \in Accounts, Resolve(t, s, cmd, a)
          PROVE  \E o : op' = [op EXCEPT ![t] = o] /\ o.pc \in {"idle", "switch"} \cup Commands
      <4> DEFINE o == [pc |-> cmd, by |-> s.of, target |-> a]
      <4>1. op' = [op EXCEPT ![t] = o] /\ o.pc = cmd
        BY <3>1 DEF Resolve, Begin, Step
      <4> HIDE DEF o
      <4> QED
        BY <4>1
    <3>2. CASE Refuse(t) \/ WrongPassword(t) \/ SwitchPolicy(t)
      BY <3>2, OpKinds DEF Refuse, WrongPassword, SwitchPolicy, Step
    <3>3. ASSUME NEW mode \in Policies, SavePolicy(t, mode)
          PROVE  \E o : op' = [op EXCEPT ![t] = o] /\ o.pc \in {"idle", "switch"} \cup Commands
      <4> DEFINE o == [pc |-> "switch", mode |-> mode]
      <4>1. op' = [op EXCEPT ![t] = o] /\ o.pc = "switch"
        BY <3>3 DEF SavePolicy
      <4> HIDE DEF o
      <4> QED
        BY <4>1
    <3> QED
      BY <1>11, <3>1, <3>2, <3>3
  <2>4. PICK o : op' = [op EXCEPT ![t] = o] /\ o.pc \in {"idle", "switch"} \cup Commands
    BY <2>3
  <2> QED
    BY <1>10, <2>1, <2>2, <2>4 DEF Commands
<1>12. CASE UnlockTarget(t)
  <2>1. op' = [op EXCEPT ![t] = Invalidating(op[t].target)] /\ UNCHANGED <<account, sessions>>
    BY <1>12 DEF UnlockTarget, Step
  <2>2. op[t].pc = "unlock"
    BY <1>12 DEF UnlockTarget, At
  <2>3. \A s \in sessions' : Reaches(t, s.of) => op[t].target = s.of
    BY <2>2 DEF Reaches
  <2> DEFINE o == Invalidating(op[t].target)
  <2>4. o.pc = "invalidate" /\ o.target = op[t].target
    BY DEF Invalidating
  <2> HIDE DEF o
  <2>5. op' = [op EXCEPT ![t] = o]
    BY <2>1 DEF o
  <2> QED
    BY <1>10, <2>1, <2>2, <2>3, <2>4, <2>5
<1>13. CASE Invalidate(t)
  <2>1. /\ op' = [op EXCEPT ![t] = Idle] /\ UNCHANGED account /\ op[t].pc = "invalidate"
        /\ sessions' = {s \in sessions : s.of # op[t].target}
    BY <1>13 DEF Invalidate, Step, At
  <2>2. \A s \in sessions' : ~Reaches(t, s.of)
    BY <2>1 DEF Reaches
  <2> QED
    BY <1>10, <2>1, <2>2, OpKinds
<1>14. CASE InvalidateAll(t)
  <2>1. /\ op' = [op EXCEPT ![t] = Idle] /\ UNCHANGED account /\ sessions' = {}
        /\ op[t].pc = "clear"
    BY <1>14 DEF InvalidateAll, Step, At
  <2> QED
    BY <1>10, <2>1, OpKinds
<1> QED
  BY <1>5, <1>6, <1>7, <1>8, <1>9, <1>11, <1>12, <1>13, <1>14 DEF Command

\* A recovery that has set a password comes to the sessions, or spares them.
LEMMA RecoveriesKeepCurrent ==
  ASSUME CurrentInv, NEW t \in Threads, Recovery(t)
  PROVE  SessionsHeld' /\ LoginsHeld'
<1> USE DEF memory, database
<1>1. AuthTypeOK
  BY DEF CurrentInv
<1>2. CASE (\E n \in Names : BeginRecovery(t, n)) \/ CheckRecovery(t) \/ WrongCode(t)
  <2>1. \A a : ~Reaches(t, a) /\ ~Recovers(t, a)
    BY <1>2 DEF Reaches, Recovers, BeginRecovery, CheckRecovery, WrongCode, Begin, Step, At
  <2>2. UNCHANGED <<account, sessions>>
    BY <1>2 DEF BeginRecovery, CheckRecovery, WrongCode
  <2>3. op'[t].pc \notin {"load", "issue"} /\ \A u \in Threads \ {t} : op'[u] = op[u]
    BY <1>1, <1>2, OpKinds DEF BeginRecovery, CheckRecovery, WrongCode, Begin, Step, AuthTypeOK
  <2> QED
    BY <2>1, <2>2, <2>3, QuietStep
<1>3. CASE BurnCode(t)
  <2> DEFINE a == AccountOf[op[t].name]
             o == [pc |-> "append", target |-> a, name |-> op[t].name]
  <2>1. op[t].pc = "code" /\ op[t].name \in Names /\ a \in Accounts
    BY <1>1, <1>3, OpKinds, NextPlaces DEF BurnCode, At, AuthTypeOK, Checking
  <2>2. o \in Op /\ o.pc = "append" /\ o.target = a
    BY <2>1 DEF Op, Ending
  <2>3. CommitStep(t, {a}, o) /\ UNCHANGED sessions /\ account' = [account EXCEPT ![a].pw = @ + 1]
    BY <1>3 DEF BurnCode
  <2>4. op'[t] = o
    BY <1>1, <2>2, <2>3, CommitEffect
  <2>5. /\ \A b \in Accounts \ {a} : account'[b] = account[b]
        /\ account'[a].role = account[a].role
    BY <1>1, <2>1, <2>3 DEF AuthTypeOK
  <2> HIDE DEF a, o
  <2>6. {a} \in SUBSET Accounts
    BY <2>1
  <2>7. ASSUME NEW b \in {a}
        PROVE  Recovers(t, b)' /\ account'[b].role = account[b].role
    <3>1. b = a
      OBVIOUS
    <3>2. Recovers(t, b)'
      BY <3>1, <2>2, <2>4 DEF Recovers
    <3>3. account'[b].role = account[b].role
      BY <3>1, <2>5
    <3> QED
      BY <3>2, <3>3
  <2> QED
    BY <2>1, <2>2, <2>3, <2>5, <2>6, <2>7, ChangeStep
<1>4. CASE AppendBurn(t)
  <2>1. /\ op[t].pc = "append" /\ op[t] \in Ending /\ UNCHANGED <<account, sessions>>
        /\ op' = [op EXCEPT ![t] = Unlocking(op[t].target, op[t].name)]
    BY <1>1, <1>4, OpKinds DEF AppendBurn, Step, At, AuthTypeOK
  <2>2. op'[t] = Unlocking(op[t].target, op[t].name) /\ \A u \in Threads \ {t} : op'[u] = op[u]
    BY <1>1, <2>1 DEF AuthTypeOK
  <2>3. op'[t].pc = "unlock" /\ op'[t].target = op[t].target
    BY <2>1, <2>2, NextPlaces DEF Ending
  <2>4. \A a : ~Reaches(t, a) /\ (Recovers(t, a) => Reaches(t, a)')
    BY <2>1, <2>3 DEF Reaches, Recovers
  <2> QED
    BY <2>1, <2>2, <2>3, <2>4, QuietStep
<1>5. CASE AppendBurnFails(t)
  <2> DEFINE a == op[t].target
             Spared(s) == [s EXCEPT !.spared = @ \/ (s.of = a /\ s.pw # account[a].pw)]
  <2>1. /\ op[t].pc = "append" /\ op' = [op EXCEPT ![t] = Idle] /\ UNCHANGED account
        /\ sessions' = {Spared(s) : s \in sessions}
    BY <1>5 DEF AppendBurnFails, Step, At
  <2>2. op'[t].pc = "idle" /\ \A u \in Threads \ {t} : op'[u] = op[u]
    BY <1>1, <2>1, OpKinds, StepEffect
  <2>3. ASSUME NEW b
        PROVE  /\ BeingEnded(b) => BeingEnded(b)'
               /\ BeingRecovered(b) /\ b # a => BeingRecovered(b)'
    BY <2>1, <2>2 DEF BeingEnded, Reaches, BeingRecovered, Recovers
  <2>4. ASSUME NEW s \in sessions
        PROVE  LET n == Spared(s) IN
               /\ n.of = s.of /\ n.role = s.role /\ n.pw = s.pw /\ n.raced = s.raced
               /\ n.spared = (s.spared \/ (s.of = a /\ s.pw # account[a].pw))
    BY <1>1 DEF AuthTypeOK
  <2> HIDE DEF Spared, a
  <2>5. ASSUME NEW n \in sessions'
        PROVE  (n.raced \/ BeingEnded(n.of)
                 \/ (n.role = account[n.of].role /\ PasswordHeld(n)))'
    <3>1. PICK s \in sessions : n = Spared(s)
      BY <2>1
    <3>2. /\ n.of = s.of /\ n.role = s.role /\ n.pw = s.pw /\ n.raced = s.raced
          /\ n.spared = (s.spared \/ (s.of = a /\ s.pw # account[a].pw))
      BY <2>4, <3>1
    <3>3. s.raced \/ BeingEnded(s.of) \/ (s.role = account[s.of].role /\ PasswordHeld(s))
      BY DEF CurrentInv, SessionsHeld
    <3>4. CASE s.raced
      BY <3>2, <3>4
    <3>5. CASE BeingEnded(s.of)
      BY <2>3, <3>2, <3>5
    <3>6. CASE s.role = account[s.of].role /\ PasswordHeld(s)
      <4>1. n.spared \/ BeingRecovered(n.of)' \/ n.pw = account'[n.of].pw
        <5>1. CASE s.of = a
          BY <2>1, <3>2, <5>1
        <5>2. CASE s.of # a
          BY <2>1, <2>3, <3>2, <3>6, <5>2 DEF PasswordHeld
        <5> QED
          BY <5>1, <5>2
      <4> QED
        BY <2>1, <3>2, <3>6, <4>1 DEF PasswordHeld
    <3> QED
      BY <3>3, <3>4, <3>5, <3>6
  <2>6. LoginsHeld'
    BY <2>1, <2>2 DEF CurrentInv, LoginsHeld
  <2> QED
    BY <2>5, <2>6 DEF SessionsHeld
<1> QED
  BY <1>2, <1>3, <1>4, <1>5 DEF Recovery

\* No step leaves a stale session without the step that ends it.
LEMMA NextKeepsCurrent == CurrentInv /\ [AuthNext]_authVars => CurrentInv'
<1> SUFFICES ASSUME CurrentInv, [AuthNext]_authVars PROVE CurrentInv'
  OBVIOUS
<1>1. AuthTypeOK'
  BY NextTypes DEF CurrentInv
<1>2. ASSUME NEW n \in Names, LockElapses(n) PROVE SessionsHeld' /\ LoginsHeld'
  BY <1>2 DEF LockElapses, database, CurrentInv, SessionsHeld, LoginsHeld, BeingEnded, Reaches,
              PasswordHeld, BeingRecovered, Recovers
<1>3. ASSUME NEW s \in sessions, EndSession(s) PROVE SessionsHeld' /\ LoginsHeld'
  BY <1>3 DEF EndSession, database, CurrentInv, SessionsHeld, LoginsHeld, BeingEnded, Reaches,
              PasswordHeld, BeingRecovered, Recovers
<1>4. CASE Restart
  BY <1>1, <1>4, OpKinds DEF Restart, CurrentInv, SessionsHeld, LoginsHeld
<1>5. CASE UNCHANGED authVars
  BY <1>1, <1>5 DEF authVars, CurrentInv, SessionsHeld, LoginsHeld, BeingEnded, Reaches,
                    PasswordHeld, BeingRecovered, Recovers
<1> QED
  BY <1>1, <1>2, <1>3, <1>4, <1>5, LoginsKeepCurrent, CommandsKeepCurrent, RecoveriesKeepCurrent
     DEF AuthNext, CurrentInv

\* Between the commands every session has the role and was issued for the password
\* of its account, but for those of logins that overlapped a change, and for the
\* passwords replaced by a recovery whose entry in the ledger failed.
THEOREM CurrentSessions == AuthSpec => []SessionsAreCurrent
<1>1. AuthInit => CurrentInv
  BY InitTypes, OpKinds DEF AuthInit, CurrentInv, SessionsHeld, LoginsHeld
<1>2. CurrentInv => SessionsAreCurrent
  BY DEF CurrentInv, SessionsHeld, PasswordHeld, BeingEnded, Reaches, BeingRecovered, Recovers,
         SessionsAreCurrent
<1> QED
  BY <1>1, <1>2, NextKeepsCurrent, PTL DEF AuthSpec

-----------------------------------------------------------------------------
(* Guesses are bounded. *)

\* The thresholds of both policies are positive and at most that of the laxer one.
LEMMA Thresholds ==
  /\ MaxFailed["standard"] \in Nat \ {0}
  /\ \A p \in Policies : MaxFailed[p] \in Nat \ {0} /\ MaxFailed[p] <= MaxFailed["standard"]
  BY SessionConstantsOK DEF Policies

\* A recorded failure raises the counter up to the threshold, and what remains
\* unlocked had not been locked and is below it, unless the name is exempt.
LEMMA RecordedFacts ==
  ASSUME AuthTypeOK, NEW a \in Names, NEW exempt \in BOOLEAN
  PROVE  LET r == Recorded(lockout[a], exempt)
         IN  /\ Count(a) \in 0..MaxFailed["standard"] /\ r.failed \in 0..MaxFailed["standard"]
             /\ r.lock # "elapsed"
             /\ r.failed = IF Count(a) < MaxFailed["standard"] THEN Count(a) + 1 ELSE Count(a)
             /\ r.lock # "running" => ~Locked(a) /\ (exempt \/ r.failed < MaxFailed["standard"])
<1> DEFINE M == MaxFailed["standard"]
           old == IF lockout[a].lock = "elapsed" THEN Clear ELSE lockout[a]
           n == IF old.failed < M THEN old.failed + 1 ELSE old.failed
           r == [failed |-> n, lock |-> IF ~exempt /\ n >= MaxFailed[policy] THEN "running" ELSE old.lock]
<1>1. /\ M \in Nat \ {0} /\ MaxFailed[policy] \in Nat /\ MaxFailed[policy] <= M
      /\ lockout[a].failed \in 0..M /\ lockout[a].lock \in {"none", "running", "elapsed"}
  BY Thresholds DEF AuthTypeOK
<1>2. /\ old.failed = Count(a) /\ Count(a) \in 0..M /\ old.lock # "elapsed"
      /\ Locked(a) => old.lock = "running"
  BY <1>1 DEF Count, Clear, Locked
<1>3. n \in 0..M /\ n = IF Count(a) < M THEN Count(a) + 1 ELSE Count(a)
  BY <1>1, <1>2
<1> HIDE DEF n, M, old
<1>4. r.failed = n /\ (r.lock = IF ~exempt /\ n >= MaxFailed[policy] THEN "running" ELSE old.lock)
  OBVIOUS
<1>5. r.lock # "elapsed"
  BY <1>2, <1>4
<1>6. r.lock # "running" => ~Locked(a) /\ (exempt \/ n < M)
  BY <1>1, <1>2, <1>3, <1>4
<1>7. Recorded(lockout[a], exempt) = r
  BY DEF Recorded, n, M, old
<1> QED
  BY <1>2, <1>3, <1>4, <1>5, <1>6, <1>7 DEF M

\* The counter of a name is unchanged, cleared of its guesses, has one more failure
\* recorded, or an elapsed lock cleared.
Tended(a) == \/ guesses'[a] = guesses[a] /\ lockout'[a] = lockout[a]
             \/ guesses'[a] = 0
             \/ /\ guesses'[a] = guesses[a]
                /\ \E exempt \in BOOLEAN : lockout'[a] = Recorded(lockout[a], exempt)
             \/ /\ guesses'[a] = guesses[a]
                /\ lockout'[a] = IF lockout[a].lock = "elapsed" THEN Clear ELSE lockout[a]

\* A recorded failure adds to its name's counter, or clears it first; the others
\* are unchanged or cleared.
LEMMA FailureTends ==
  ASSUME AuthTypeOK, NEW n \in Names, NEW exempt \in BOOLEAN, RecordFailure(n, exempt),
         NEW a \in Names
  PROVE  \/ guesses'[a] = 0
         \/ /\ guesses'[a] = guesses[a]
            /\ lockout'[a] = IF a = n THEN Recorded(lockout[a], exempt) ELSE lockout[a]
<1>1. CASE UNCHANGED guesses /\ lockout' = [lockout EXCEPT ![n] = Recorded(lockout[n], exempt)]
  BY <1>1 DEF AuthTypeOK
<1>2. CASE guesses' = GuessesKept /\ lockout' = [Kept EXCEPT ![n] = Recorded(Kept[n], exempt)]
  <2>1. CASE Locked(a)
    <3>1. guesses'[a] = guesses[a] /\ Kept[a] = lockout[a]
      BY <1>2, <2>1 DEF GuessesKept, Kept
    <3>2. Kept \in [Names -> Entries]
      BY KeptType
    <3>3. lockout'[a] = IF a = n THEN Recorded(Kept[a], exempt) ELSE Kept[a]
      BY <1>2, <3>2
    <3> QED
      BY <3>1, <3>3
  <2>2. CASE ~Locked(a)
    BY <1>2, <2>2 DEF GuessesKept
  <2> QED
    BY <2>1, <2>2
<1> QED
  BY <1>1, <1>2 DEF RecordFailure

\* The check of a lockout tends the counters.
LEMMA CheckTends ==
  ASSUME AuthTypeOK, NEW n \in Names, NEW sole, CheckEntry(n, sole), NEW a \in Names
  PROVE  /\ Tended(a)
         /\ a # n => guesses'[a] = guesses[a] /\ lockout'[a] = lockout[a]
<1>1. a # n => guesses'[a] = guesses[a] /\ lockout'[a] = lockout[a]
  BY DEF CheckEntry, AuthTypeOK
<1>2. CASE a = n /\ Locked(n) /\ sole
  <2>1. guesses'[a] = 0
    BY <1>2 DEF CheckEntry, AuthTypeOK
  <2> QED
    BY <1>2, <2>1 DEF Tended
<1>3. CASE a = n /\ ~(Locked(n) /\ sole)
  <2>1. /\ guesses' = guesses
        /\ lockout'[a] = IF lockout[a].lock = "elapsed" THEN Clear ELSE lockout[a]
    BY <1>3 DEF CheckEntry, AuthTypeOK, Locked
  <2> QED
    BY <1>3, <2>1 DEF Tended
<1> QED
  BY <1>1, <1>2, <1>3 DEF Tended

\* The invariant on the guesses, for one name.
GuessOK(a) ==
  /\ guesses[a] <= Count(a) \/ (Pending(a) /\ guesses[a] <= Count(a) + 1)
  /\ ~Locked(a) /\ ~Pending(a) => guesses[a] < MaxFailed["standard"]
  /\ \A t \in Threads : op[t].pc = "verify" /\ ~op[t].sole /\ op[t].name = a =>
       guesses[a] < MaxFailed["standard"]
  /\ guesses[a] <= MaxFailed["standard"]

\* The invariant speaks of each name by itself.
LEMMA GuessByName ==
  ASSUME AuthTypeOK
  PROVE  GuessesAreCounted /\ RoomToGuess /\ GuessesAreBounded <=> \A a \in Names : GuessOK(a)
<1>1. \A t \in Threads : op[t].pc = "verify" => op[t].name \in Names
  BY OpKinds DEF AuthTypeOK, Checking
<1> QED
  BY <1>1 DEF GuessOK, GuessesAreCounted, RoomToGuess, GuessesAreBounded

\* A step that leaves the logins of a name that verify or have failed where
\* they are, and that tends its counter, keeps its invariant.
LEMMA TendedStep ==
  ASSUME AuthTypeOK, AuthTypeOK', NEW a \in Names, GuessOK(a), Tended(a),
         \A u \in Threads : op[u].pc \in {"verify", "failed"} => op'[u] = op[u],
         \A u \in Threads : op'[u].pc \in {"verify", "failed"} => op'[u] = op[u]
  PROVE  GuessOK(a)'
<1>1. /\ guesses[a] \in Nat /\ guesses'[a] \in Nat /\ MaxFailed["standard"] \in Nat \ {0}
      /\ Count(a) \in Nat /\ Count(a)' \in Nat
  BY Thresholds DEF AuthTypeOK, Count
<1>2. Pending(a)' <=> Pending(a)
  BY DEF Pending, Unrecorded
<1>3. \A u \in Threads : op'[u].pc = "verify" /\ ~op'[u].sole /\ op'[u].name = a =>
        op[u].pc = "verify" /\ ~op[u].sole /\ op[u].name = a
  OBVIOUS
<1>4. CASE guesses'[a] = guesses[a] /\ lockout'[a] = lockout[a]
  BY <1>2, <1>3, <1>4 DEF GuessOK, Count, Locked
<1>5. CASE guesses'[a] = 0
  BY <1>1, <1>5 DEF GuessOK
<1>6. ASSUME guesses'[a] = guesses[a], NEW exempt \in BOOLEAN, lockout'[a] = Recorded(lockout[a], exempt)
      PROVE  GuessOK(a)'
  <2>1. /\ Count(a)' = lockout'[a].failed /\ Count(a) <= Count(a)'
        /\ Locked(a) => Locked(a)'
    BY <1>1, <1>6, RecordedFacts DEF Count, Locked
  <2> QED
    BY <1>1, <1>2, <1>3, <1>6, <2>1 DEF GuessOK
<1>7. CASE /\ guesses'[a] = guesses[a]
           /\ lockout'[a] = IF lockout[a].lock = "elapsed" THEN Clear ELSE lockout[a]
  <2>1. Count(a)' = Count(a) /\ (Locked(a)' <=> Locked(a))
    BY <1>7 DEF Count, Locked, Clear
  <2> QED
    BY <1>2, <1>3, <1>7, <2>1 DEF GuessOK
<1> QED
  BY <1>4, <1>5, <1>6, <1>7 DEF Tended

\* A name whose guesses were cleared is within its bound.
LEMMA ClearedGuesses ==
  ASSUME AuthTypeOK', NEW a \in Names, guesses'[a] = 0
  PROVE  GuessOK(a)'
<1>1. MaxFailed["standard"] \in Nat \ {0} /\ Count(a)' \in Nat
  BY Thresholds DEF AuthTypeOK, Count
<1> QED
  BY <1>1 DEF GuessOK

\* A command is no login and touches none, and it tends the counters.
LEMMA CommandShape ==
  ASSUME AuthTypeOK, NEW t \in Threads, Command(t)
  PROVE  /\ ~LoggingIn(t) /\ ~LoggingIn(t)' /\ UNCHANGED inFlight
         /\ \A u \in Threads \ {t} :
              /\ op'[u].pc = op[u].pc
              /\ op[u].pc \in {"check", "verify", "failed"} => op'[u] = op[u]
              /\ LoggingIn(u) => op'[u].name = op[u].name
         /\ \A a \in Names : Tended(a)
<1> USE DEF memory, database
<1>1. /\ op[t].pc \in Commands => op[t].target \in Accounts /\ op[t].by \in Accounts
      /\ op[t].pc = "unlock" => op[t].target \in Accounts
  BY OpKinds DEF AuthTypeOK, Commanding, Ending
<1>2. \A a \in Accounts : /\ Invalidating(a) \in Op /\ Unlocking(a, UserName[a]) \in Op
                          /\ Unlocking(a, UserName[a]).pc = "unlock"
  BY NextPlaces
<1>3. [pc |-> "clear"] \in Op /\ \A mode \in Policies : [pc |-> "switch", mode |-> mode] \in Op
  BY DEF Op
<1>4. UNCHANGED inFlight
  BY DEF Command, Resolve, Refuse, Create, ChangeRole, Delete, ChangePassword, ResetPassword,
         WrongPassword, UnlockTarget, Invalidate, SavePolicy, SwitchPolicy, Replace, InvalidateAll
<1>5. op[t].pc \in {"idle", "code", "unlock", "invalidate", "switch", "clear"} \cup Commands
  BY DEF Command, Resolve, Refuse, Create, ChangeRole, Delete, ChangePassword, ResetPassword,
         WrongPassword, UnlockTarget, Invalidate, SavePolicy, SwitchPolicy, Replace, InvalidateAll,
         Begin, Step, At, Commands
<1>6. ASSUME NEW o \in Op, o.pc \notin {"check", "verify", "load", "failed", "issue"},
             \/ op' = [op EXCEPT ![t] = o]
             \/ \E as : CommitStep(t, as, o)
      PROVE  /\ ~LoggingIn(t) /\ ~LoggingIn(t)'
             /\ \A u \in Threads \ {t} :
                  /\ op'[u].pc = op[u].pc
                  /\ op[u].pc \in {"check", "verify", "failed"} => op'[u] = op[u]
                  /\ LoggingIn(u) => op'[u].name = op[u].name
  <2>1. ~LoggingIn(t)
    BY <1>5 DEF LoggingIn, Commands
  <2>2. CASE op' = [op EXCEPT ![t] = o]
    BY <1>6, <2>1, <2>2, StepEffect DEF LoggingIn
  <2>3. ASSUME NEW as, CommitStep(t, as, o)
        PROVE  /\ ~LoggingIn(t)'
               /\ \A u \in Threads \ {t} :
                    /\ op'[u].pc = op[u].pc
                    /\ op[u].pc \in {"check", "verify", "failed"} => op'[u] = op[u]
                    /\ LoggingIn(u) => op'[u].name = op[u].name
    <3>1. /\ op'[t] = o
          /\ \A u \in Threads \ {t} :
               IF HasRead(op[u], as) THEN OnlyMarked(op[u], op'[u]) ELSE op'[u] = op[u]
      BY <1>6, <2>3, CommitEffect
    <3>2. ~LoggingIn(t)'
      BY <1>6, <3>1 DEF LoggingIn
    <3>3. ASSUME NEW u \in Threads \ {t}
          PROVE  /\ op'[u].pc = op[u].pc
                 /\ op[u].pc \in {"check", "verify", "failed"} => op'[u] = op[u]
                 /\ LoggingIn(u) => op'[u].name = op[u].name
      <4>1. CASE HasRead(op[u], as)
        BY <3>1, <4>1 DEF HasRead, OnlyMarked
      <4>2. CASE ~HasRead(op[u], as)
        <5>1. op'[u] = op[u]
          BY <3>1, <4>2
        <5> QED
          BY <5>1
      <4> QED
        BY <4>1, <4>2
    <3> QED
      BY <3>2, <3>3
  <2> QED
    BY <1>6, <2>1, <2>2, <2>3
<1>7. \E o \in Op : /\ o.pc \notin {"check", "verify", "load", "failed", "issue"}
                    /\ \/ op' = [op EXCEPT ![t] = o]
                       \/ \E as : CommitStep(t, as, o)
  <2>1. ASSUME NEW s \in sessions, NEW cmd \in Commands, NEW a \in Accounts, Resolve(t, s, cmd, a)
        PROVE  \E o \in Op : o.pc \in Commands /\ op' = [op EXCEPT ![t] = o]
    <3> DEFINE o == [pc |-> cmd, by |-> s.of, target |-> a]
    <3>1. o \in Op /\ o.pc \in Commands
      BY DEF Op, Commanding, AuthTypeOK
    <3>2. op' = [op EXCEPT ![t] = o]
      BY <2>1 DEF Resolve, Begin, Step
    <3> HIDE DEF o
    <3> QED
      BY <3>1, <3>2
  <2>2. ASSUME op' = [op EXCEPT ![t] = Idle]
        PROVE  \E o \in Op : o.pc = "idle" /\ op' = [op EXCEPT ![t] = o]
    BY <2>2, OpKinds
  <2>3. ASSUME \E r \in Roles : ChangeRole(t, r)
        PROVE  \E o \in Op : o.pc = "invalidate" /\ \E as : CommitStep(t, as, o)
    <3>1. op[t].target \in Accounts /\ CommitStep(t, {op[t].target}, Invalidating(op[t].target))
      BY <1>1, <2>3 DEF ChangeRole, Commands
    <3>2. Invalidating(op[t].target).pc = "invalidate"
      BY DEF Invalidating
    <3> QED
      BY <1>2, <3>1, <3>2
  <2>4. ASSUME Delete(t)
        PROVE  \E o \in Op : o.pc = "invalidate" /\ \E as : CommitStep(t, as, o)
    <3>1. op[t].target \in Accounts /\ CommitStep(t, {op[t].target}, Invalidating(op[t].target))
      BY <1>1, <2>4 DEF Delete, Commands
    <3>2. Invalidating(op[t].target).pc = "invalidate"
      BY DEF Invalidating
    <3> QED
      BY <1>2, <3>1, <3>2
  <2>5. ASSUME ChangePassword(t) \/ ResetPassword(t)
        PROVE  \E o \in Op : o.pc = "unlock" /\ \E as : CommitStep(t, as, o)
    <3> DEFINE o == Unlocking(op[t].target, UserName[op[t].target])
    <3>1. op[t].target \in Accounts /\ CommitStep(t, {op[t].target}, o)
      BY <1>1, <2>5 DEF ChangePassword, ResetPassword, Commands
    <3>2. o \in Op /\ o.pc = "unlock"
      BY <1>2, <3>1
    <3> HIDE DEF o
    <3> QED
      BY <3>1, <3>2
  <2>6. ASSUME UnlockTarget(t)
        PROVE  \E o \in Op : o.pc = "invalidate" /\ op' = [op EXCEPT ![t] = o]
    <3>1. op[t].target \in Accounts /\ op' = [op EXCEPT ![t] = Invalidating(op[t].target)]
      BY <1>1, <2>6 DEF UnlockTarget, Step, At
    <3>2. Invalidating(op[t].target).pc = "invalidate"
      BY DEF Invalidating
    <3> QED
      BY <1>2, <3>1, <3>2
  <2>7. ASSUME NEW mode \in Policies, SavePolicy(t, mode)
        PROVE  \E o \in Op : o.pc = "switch" /\ op' = [op EXCEPT ![t] = o]
    <3> DEFINE o == [pc |-> "switch", mode |-> mode]
    <3>1. o \in Op /\ o.pc = "switch" /\ op' = [op EXCEPT ![t] = o]
      BY <1>3, <2>7 DEF SavePolicy
    <3> HIDE DEF o
    <3> QED
      BY <3>1
  <2>8. ASSUME Replace(t)
        PROVE  \E o \in Op : o.pc = "clear" /\ \E as : CommitStep(t, as, o)
    <3> DEFINE o == [pc |-> "clear"]
    <3>1. o \in Op /\ o.pc = "clear" /\ CommitStep(t, Accounts, o)
      BY <1>3, <2>8 DEF Replace
    <3> HIDE DEF o
    <3> QED
      BY <3>1
  <2>9. Refuse(t) \/ Create(t) \/ WrongPassword(t) \/ Invalidate(t) \/ SwitchPolicy(t)
          \/ InvalidateAll(t) => op' = [op EXCEPT ![t] = Idle]
    BY DEF Refuse, Create, WrongPassword, Invalidate, SwitchPolicy, InvalidateAll, Step
  <2> QED
    BY <2>1, <2>2, <2>3, <2>4, <2>5, <2>6, <2>7, <2>8, <2>9 DEF Command, Commands
<1>8. \A a \in Names : Tended(a)
  <2>1. CASE UNCHANGED <<lockout, guesses>>
    BY <2>1 DEF Tended
  <2>2. CASE WrongPassword(t)
    <3> DEFINE n == UserName[op[t].by]
    <3>1. n \in Names /\ IsSole(n) \in BOOLEAN
      BY <1>1, <2>2, NextPlaces DEF WrongPassword, Commands, IsSole
    <3>2. RecordFailure(n, IsSole(n))
      BY <2>2 DEF WrongPassword
    <3> HIDE DEF n
    <3> QED
      BY <3>1, <3>2, FailureTends DEF Tended
  <2>3. CASE UnlockTarget(t)
    BY <2>3 DEF UnlockTarget, Unlock, AuthTypeOK, Tended
  <2>4. CASE SwitchPolicy(t)
    BY <2>4 DEF SwitchPolicy, Kept, GuessesKept, Tended
  <2>5. CASE InvalidateAll(t)
    BY <2>5 DEF InvalidateAll, Tended
  <2>6. UNCHANGED <<lockout, guesses>> \/ WrongPassword(t) \/ UnlockTarget(t) \/ SwitchPolicy(t)
          \/ InvalidateAll(t)
    BY DEF Command, Resolve, Refuse, Create, ChangeRole, Delete, ChangePassword, ResetPassword,
           Invalidate, SavePolicy, Replace
  <2> QED
    BY <2>1, <2>2, <2>3, <2>4, <2>5, <2>6
<1> QED
  BY <1>4, <1>6, <1>7, <1>8

\* A recovery is no login and touches none, and it tends the counters.
LEMMA RecoveryShape ==
  ASSUME AuthTypeOK, NEW t \in Threads, Recovery(t)
  PROVE  /\ ~LoggingIn(t) /\ ~LoggingIn(t)' /\ UNCHANGED inFlight
         /\ \A u \in Threads \ {t} :
              /\ op'[u].pc = op[u].pc
              /\ op[u].pc \in {"check", "verify", "failed"} => op'[u] = op[u]
              /\ LoggingIn(u) => op'[u].name = op[u].name
         /\ \A a \in Names : Tended(a)
<1> USE DEF memory, database
<1>1. ~LoggingIn(t) /\ UNCHANGED inFlight
  BY DEF Recovery, BeginRecovery, CheckRecovery, WrongCode, BurnCode, AppendBurn, AppendBurnFails,
         Begin, Step, At, LoggingIn
<1>2. CASE BurnCode(t)
  <2> DEFINE b == AccountOf[op[t].name]
             o == [pc |-> "append", target |-> b, name |-> op[t].name]
  <2>1. op[t].name \in Names /\ b \in Accounts
    BY <1>2, OpKinds, NextPlaces DEF BurnCode, At, AuthTypeOK, Checking
  <2>2. o \in Op /\ o.pc = "append"
    BY <2>1 DEF Op, Ending
  <2>3. CommitStep(t, {b}, o) /\ UNCHANGED <<lockout, guesses>>
    BY <1>2 DEF BurnCode
  <2> HIDE DEF b, o
  <2>4. /\ op'[t] = o
        /\ \A u \in Threads \ {t} :
             IF HasRead(op[u], {b}) THEN OnlyMarked(op[u], op'[u]) ELSE op'[u] = op[u]
    BY <2>2, <2>3, CommitEffect
  <2>5. ASSUME NEW u \in Threads \ {t}
        PROVE  /\ op'[u].pc = op[u].pc
               /\ op[u].pc \in {"check", "verify", "failed"} => op'[u] = op[u]
               /\ LoggingIn(u) => op'[u].name = op[u].name
    <3>1. CASE HasRead(op[u], {b})
      BY <2>4, <3>1 DEF HasRead, OnlyMarked
    <3>2. CASE ~HasRead(op[u], {b})
      <4>1. op'[u] = op[u]
        BY <2>4, <3>2
      <4> QED
        BY <4>1
    <3> QED
      BY <3>1, <3>2
  <2>6. ~LoggingIn(t)' /\ \A a \in Names : Tended(a)
    BY <2>2, <2>3, <2>4 DEF LoggingIn, Tended
  <2> QED
    BY <1>1, <2>5, <2>6
<1>3. CASE ~BurnCode(t)
  <2>1. PICK o : op' = [op EXCEPT ![t] = o]
    BY <1>3 DEF Recovery, BeginRecovery, CheckRecovery, WrongCode, AppendBurn, AppendBurnFails,
                Begin, Step
  <2>2. op'[t] = o /\ \A u \in Threads \ {t} : op'[u] = op[u]
    BY <2>1 DEF AuthTypeOK
  <2>3. ASSUME NEW n \in Names, BeginRecovery(t, n)
        PROVE  op'[t].pc = "gate" /\ \A a \in Names : Tended(a)
    BY <2>3 DEF BeginRecovery, Begin, Step, AuthTypeOK, Tended
  <2>4. CASE CheckRecovery(t)
    <3>1. op[t].name \in Names /\ CheckEntry(op[t].name, op[t].sole)
      BY <2>4, OpKinds DEF CheckRecovery, At, AuthTypeOK, Checking
    <3>2. op'[t].pc \in {"idle", "code"}
      BY <2>4, OpKinds DEF CheckRecovery, Step, AuthTypeOK
    <3>3. \A a \in Names : Tended(a)
      BY <3>1, CheckTends
    <3>4. ~LoggingIn(t)'
      BY <3>2 DEF LoggingIn
    <3> QED
      BY <1>1, <2>2, <3>3, <3>4
  <2>5. CASE WrongCode(t)
    <3>1. op[t].name \in Names /\ op[t].sole \in BOOLEAN /\ RecordFailure(op[t].name, op[t].sole)
      BY <2>5, OpKinds DEF WrongCode, Step, At, AuthTypeOK, Checking
    <3>2. op'[t].pc = "idle"
      BY <2>5, OpKinds DEF WrongCode, Step, AuthTypeOK
    <3>3. \A a \in Names : Tended(a)
      BY <3>1, FailureTends DEF Tended
    <3>4. ~LoggingIn(t)'
      BY <3>2 DEF LoggingIn
    <3> QED
      BY <1>1, <2>2, <3>3, <3>4
  <2>6. CASE AppendBurn(t) \/ AppendBurnFails(t)
    <3>1. op'[t].pc \in {"idle", "unlock"}
      BY <2>6, OpKinds DEF AppendBurn, AppendBurnFails, Unlocking, Step, AuthTypeOK
    <3>2. \A a \in Names : Tended(a)
      BY <2>6 DEF AppendBurn, AppendBurnFails, Tended
    <3>3. ~LoggingIn(t)'
      BY <3>1 DEF LoggingIn
    <3> QED
      BY <1>1, <2>2, <3>2, <3>3
  <2>7. ASSUME NEW n \in Names, BeginRecovery(t, n)
        PROVE  ~LoggingIn(t)' /\ \A a \in Names : Tended(a)
    BY <2>3, <2>7 DEF LoggingIn
  <2> QED
    BY <1>1, <1>3, <2>2, <2>4, <2>5, <2>6, <2>7 DEF Recovery
<1> QED
  BY <1>2, <1>3

\* A command or a recovery keeps the bound.
LEMMA CommandsKeepGuesses ==
  ASSUME GuessInv, AuthTypeOK', NEW t \in Threads, Command(t) \/ Recovery(t)
  PROVE  GuessInv'
<1>1. AuthTypeOK
  BY DEF GuessInv
<1>2. /\ ~LoggingIn(t) /\ ~LoggingIn(t)' /\ UNCHANGED inFlight
      /\ \A u \in Threads \ {t} :
           /\ op'[u].pc = op[u].pc
           /\ op[u].pc \in {"check", "verify", "failed"} => op'[u] = op[u]
           /\ LoggingIn(u) => op'[u].name = op[u].name
      /\ \A a \in Names : Tended(a)
  BY <1>1, CommandShape, RecoveryShape
<1>3. /\ \A u \in Threads : op[u].pc \in {"verify", "failed"} => op'[u] = op[u]
      /\ \A u \in Threads : op'[u].pc \in {"verify", "failed"} => op'[u] = op[u]
  BY <1>2 DEF LoggingIn
<1>4. \A a \in Names : GuessOK(a)
  BY <1>1, GuessByName DEF GuessInv
<1>5. \A a \in Names : GuessOK(a)'
  BY <1>1, <1>2, <1>3, <1>4, TendedStep
<1>6. GuessesAreCounted' /\ RoomToGuess' /\ GuessesAreBounded'
  <2>1. (AuthTypeOK => (GuessesAreCounted /\ RoomToGuess /\ GuessesAreBounded
                         <=> \A a \in Names : GuessOK(a)))'
    BY GuessByName, PTL
  <2> QED
    BY <1>5, <2>1
<1>7. \A u \in Threads : LoggingIn(u)' => u # t /\ LoggingIn(u) /\ op'[u].name = op[u].name
  BY <1>2 DEF LoggingIn
<1>8. OneLogin'
  BY <1>2, <1>7 DEF GuessInv, OneLogin
<1> QED
  BY <1>6, <1>8 DEF GuessInv

\* At most one login of a name is in flight.
LEMMA AloneInFlight ==
  ASSUME GuessInv, NEW t \in Threads, LoggingIn(t), NEW u \in Threads, u # t, LoggingIn(u)
  PROVE  op[u].name # op[t].name
  BY DEF GuessInv, OneLogin

\* What a login does to the places, the logins in flight and the name typed.
LEMMA LoginShape ==
  ASSUME AuthTypeOK, NEW t \in Threads, Login(t)
  PROVE  /\ \A u \in Threads \ {t} : op'[u] = op[u]
         /\ \/ \E a \in Names : /\ ~LoggingIn(t) /\ op'[t].pc = "check" /\ op'[t].name = a
                                   /\ a \notin inFlight /\ inFlight' = inFlight \cup {a}
            \/ /\ LoggingIn(t) /\ op[t].name \in Names
               /\ op'[t].name = op[t].name /\ UNCHANGED inFlight
            \/ /\ LoggingIn(t) /\ op[t].name \in Names
               /\ op'[t].pc = "idle" /\ inFlight' = inFlight \ {op[t].name}
<1>1. PICK o : op' = [op EXCEPT ![t] = o]
  BY DEF Login, BeginLogin, CheckLockout, Verify, Fail, Load, IssueSession, Begin, Step
<1>2. op'[t] = o /\ \A u \in Threads \ {t} : op'[u] = op[u]
  BY <1>1 DEF AuthTypeOK
<1>3. LoggingIn(t) => op[t].name \in Names
  BY OpKinds DEF AuthTypeOK, LoggingIn, Checking, Verified, Issuing
<1>4. ASSUME NEW a \in Names, BeginLogin(t, a)
      PROVE  /\ ~LoggingIn(t) /\ op'[t].pc = "check" /\ op'[t].name = a
             /\ a \notin inFlight /\ inFlight' = inFlight \cup {a}
  BY <1>4 DEF BeginLogin, FreeToLogin, Begin, Step, At, LoggingIn, AuthTypeOK
<1>5. CASE CheckLockout(t)
  BY <1>2, <1>3, <1>5, OpKinds DEF CheckLockout, Step, At, EndLogin, LoggingIn, AuthTypeOK
<1>6. CASE \E right \in BOOLEAN : Verify(t, right)
  BY <1>2, <1>3, <1>6 DEF Verify, Step, At, LoggingIn, AuthTypeOK
<1>7. CASE Fail(t) \/ IssueSession(t)
  BY <1>2, <1>3, <1>7, OpKinds DEF Fail, IssueSession, Step, At, EndLogin, LoggingIn, AuthTypeOK
<1>8. CASE Load(t)
  BY <1>2, <1>3, <1>8, OpKinds DEF Load, Step, At, EndLogin, LoggingIn, AuthTypeOK
<1> QED
  BY <1>2, <1>4, <1>5, <1>6, <1>7, <1>8 DEF Login

\* Logins of a name stay one at a time.
LEMMA LoginsKeepOne ==
  ASSUME GuessInv, NEW t \in Threads, Login(t)
  PROVE  OneLogin'
<1>1. /\ \A u \in Threads \ {t} : op'[u] = op[u]
      /\ \/ \E a \in Names : /\ ~LoggingIn(t) /\ op'[t].pc = "check" /\ op'[t].name = a
                                /\ a \notin inFlight /\ inFlight' = inFlight \cup {a}
         \/ /\ LoggingIn(t) /\ op[t].name \in Names
            /\ op'[t].name = op[t].name /\ UNCHANGED inFlight
         \/ /\ LoggingIn(t) /\ op[t].name \in Names
            /\ op'[t].pc = "idle" /\ inFlight' = inFlight \ {op[t].name}
  BY LoginShape DEF GuessInv
<1>2. \A u \in Threads \ {t} : LoggingIn(u)' <=> LoggingIn(u)
  BY <1>1 DEF LoggingIn
<1>3. \A u \in Threads : LoggingIn(u) => op[u].name \in inFlight
  BY DEF GuessInv, OneLogin
<1>4. ASSUME NEW a \in Names, ~LoggingIn(t), op'[t].name = a, a \notin inFlight,
             inFlight' = inFlight \cup {a}
      PROVE  OneLogin'
  BY <1>1, <1>2, <1>3, <1>4 DEF GuessInv, OneLogin
<1>5. CASE LoggingIn(t) /\ op'[t].name = op[t].name /\ UNCHANGED inFlight
  BY <1>1, <1>2, <1>5 DEF GuessInv, OneLogin
<1>6. CASE LoggingIn(t) /\ op'[t].pc = "idle" /\ inFlight' = inFlight \ {op[t].name}
  <2>1. ~LoggingIn(t)'
    BY <1>6 DEF LoggingIn
  <2> QED
    BY <1>1, <1>2, <1>6, <2>1 DEF GuessInv, OneLogin
<1> QED
  BY <1>1, <1>4, <1>5, <1>6

\* A login in flight has no other login of its name at the verification or failed.
LEMMA NoRival ==
  ASSUME GuessInv, NEW t \in Threads, LoggingIn(t)
  PROVE  /\ \A u \in Threads \ {t} : ~Unrecorded(u, op[t].name)
         /\ \A u \in Threads \ {t} : ~(op[u].pc = "verify" /\ op[u].name = op[t].name)
  BY AloneInFlight DEF LoggingIn, Unrecorded

\* What concerns a name depends on the other tasks only through its logins.
LEMMA OtherNames ==
  ASSUME AuthTypeOK, NEW t \in Threads, NEW a \in Names, GuessOK(a),
         \A u \in Threads \ {t} : op'[u] = op[u],
         op'[t].pc \in {"verify", "failed"} => op'[t].name # a,
         op[t].pc = "failed" => op[t].name # a,
         guesses'[a] = guesses[a], lockout'[a] = lockout[a]
  PROVE  GuessOK(a)'
<1>1. Pending(a)' <=> Pending(a)
  BY DEF Pending, Unrecorded
<1>2. \A u \in Threads : op'[u].pc = "verify" /\ ~op'[u].sole /\ op'[u].name = a =>
        op[u].pc = "verify" /\ ~op[u].sole /\ op[u].name = a
  OBVIOUS
<1> QED
  BY <1>1, <1>2 DEF GuessOK, Count, Locked

\* The check lets a login through when its name is not locked, or clears the
\* counter for the sole super administrator.
LEMMA CheckKeepsGuesses ==
  ASSUME GuessInv, AuthTypeOK', NEW t \in Threads, CheckLockout(t), NEW a \in Names
  PROVE  GuessOK(a)'
<1> DEFINE M == MaxFailed["standard"]
           b == op[t].name
<1>1. /\ AuthTypeOK /\ GuessOK(a) /\ M \in Nat \ {0} /\ guesses[a] \in Nat
      /\ op[t].pc = "check" /\ op[t] \in Checking /\ b \in Names
  BY GuessByName, Thresholds, OpKinds DEF GuessInv, AuthTypeOK, CheckLockout, At, Checking
<1>2. LoggingIn(t)
  BY <1>1 DEF LoggingIn
<1>3. \A u \in Threads \ {t} : op'[u] = op[u]
  BY <1>1, LoginShape DEF Login
<1>4. /\ op'[t].pc \in {"idle", "verify"}
      /\ op'[t].pc = "verify" => /\ op'[t].name = b /\ op'[t].sole = op[t].sole
                                 /\ Locked(b) => op[t].sole
  BY <1>1 DEF CheckLockout, LockedOut, Step, AuthTypeOK, Idle
<1>5. CheckEntry(b, op[t].sole)
  BY DEF CheckLockout
<1>6. CASE a # b
  <2>1. guesses'[a] = guesses[a] /\ lockout'[a] = lockout[a]
    BY <1>1, <1>5, <1>6, CheckTends
  <2> QED
    BY <1>1, <1>3, <1>4, <1>6, <2>1, OtherNames
<1>7. CASE a = b
  <2>1. ~Pending(a) /\ ~Pending(a)'
    BY <1>1, <1>2, <1>3, <1>4, <1>7, NoRival DEF Pending, Unrecorded
  <2>2. \A u \in Threads : op'[u].pc = "verify" /\ ~op'[u].sole /\ op'[u].name = a =>
          u = t /\ ~op[t].sole /\ ~Locked(a)
    BY <1>2, <1>3, <1>4, <1>7, NoRival
  <2>3. CASE Locked(a) /\ op[t].sole
    <3>1. guesses'[a] = 0
      BY <1>1, <1>5, <1>7, <2>3 DEF CheckEntry, AuthTypeOK
    <3> QED
      BY <3>1, ClearedGuesses
  <2>4. CASE ~(Locked(a) /\ op[t].sole)
    <3>1. /\ guesses' = guesses
          /\ lockout'[a] = IF lockout[a].lock = "elapsed" THEN Clear ELSE lockout[a]
      BY <1>1, <1>5, <1>7, <2>4 DEF CheckEntry, Locked, AuthTypeOK
    <3>2. Count(a)' = Count(a) /\ (Locked(a)' <=> Locked(a))
      BY <3>1 DEF Count, Locked, Clear
    <3> QED
      BY <1>1, <2>1, <2>2, <3>1, <3>2 DEF GuessOK
  <2> QED
    BY <2>3, <2>4
<1> QED
  BY <1>6, <1>7

\* A guess counts against the name until its failure is recorded.
LEMMA VerifyKeepsGuesses ==
  ASSUME GuessInv, NEW t \in Threads, NEW right \in BOOLEAN, Verify(t, right), NEW a \in Names
  PROVE  GuessOK(a)'
<1> DEFINE M == MaxFailed["standard"]
           b == op[t].name
<1>1. /\ AuthTypeOK /\ GuessOK(a) /\ M \in Nat \ {0} /\ guesses[a] \in Nat /\ Count(a) \in Nat
      /\ op[t].pc = "verify" /\ op[t] \in Checking /\ b \in Names
  BY GuessByName, Thresholds, OpKinds DEF GuessInv, AuthTypeOK, Verify, At, Checking, Count
<1>2. LoggingIn(t)
  BY <1>1 DEF LoggingIn
<1>3. /\ \A u \in Threads \ {t} : op'[u] = op[u]
      /\ UNCHANGED lockout
      /\ op'[t].pc = IF right THEN "load" ELSE "failed"
      /\ op'[t].name = b /\ (~right => op'[t].sole = op[t].sole)
      /\ guesses' = IF right \/ op[t].sole THEN guesses ELSE [guesses EXCEPT ![b] = @ + 1]
  BY <1>1 DEF Verify, Step, AuthTypeOK
<1>4. CASE a # b
  <2>1. guesses'[a] = guesses[a] /\ lockout'[a] = lockout[a]
    BY <1>1, <1>3, <1>4 DEF AuthTypeOK
  <2> QED
    BY <1>1, <1>3, <1>4, <2>1, OtherNames
<1>5. CASE a = b
  <2>1. ~Pending(a)
    BY <1>1, <1>2, <1>5, NoRival DEF Pending, Unrecorded
  <2>2. \A u \in Threads : ~(op'[u].pc = "verify" /\ ~op'[u].sole /\ op'[u].name = a)
    BY <1>2, <1>3, <1>5, NoRival
  <2>3. Count(a)' = Count(a) /\ (Locked(a)' <=> Locked(a))
    BY <1>3 DEF Count, Locked
  <2>4. CASE right \/ op[t].sole
    <3>1. ~Pending(a)' /\ guesses' = guesses
      BY <1>2, <1>3, <1>5, <2>4, NoRival DEF Pending, Unrecorded
    <3> QED
      BY <1>1, <2>1, <2>2, <2>3, <3>1 DEF GuessOK
  <2>5. CASE ~right /\ ~op[t].sole
    <3>1. guesses'[a] = guesses[a] + 1
      BY <1>1, <1>3, <1>5, <2>5 DEF AuthTypeOK
    <3>2. Unrecorded(t, a)'
      BY <1>3, <1>5, <2>5 DEF Unrecorded
    <3>3. Pending(a)'
      BY <3>2 DEF Pending
    <3>4. guesses[a] <= Count(a) /\ guesses[a] < M
      BY <1>1, <1>5, <2>1, <2>5 DEF GuessOK
    <3> QED
      BY <1>1, <2>2, <2>3, <3>1, <3>3, <3>4 DEF GuessOK
  <2> QED
    BY <2>4, <2>5
<1> QED
  BY <1>4, <1>5

\* A failure is recorded: the guess it stands for is counted, or the name locks.
LEMMA FailKeepsGuesses ==
  ASSUME GuessInv, AuthTypeOK', NEW t \in Threads, Fail(t), NEW a \in Names
  PROVE  GuessOK(a)'
<1> DEFINE M == MaxFailed["standard"]
           b == op[t].name
           r == Recorded(lockout[a], op[t].sole)
<1>1. /\ AuthTypeOK /\ GuessOK(a) /\ M \in Nat \ {0} /\ guesses[a] \in Nat /\ Count(a) \in Nat
      /\ op[t].pc = "failed" /\ op[t] \in Checking /\ b \in Names /\ op[t].sole \in BOOLEAN
  BY GuessByName, Thresholds, OpKinds DEF GuessInv, AuthTypeOK, Fail, Step, At, Checking, Count
<1>2. LoggingIn(t)
  BY <1>1 DEF LoggingIn
<1>3. (\A u \in Threads \ {t} : op'[u] = op[u]) /\ op'[t].pc = "idle"
  BY <1>1, OpKinds DEF Fail, Step, AuthTypeOK
<1>4. \/ guesses'[a] = 0
      \/ guesses'[a] = guesses[a] /\ lockout'[a] = IF a = b THEN r ELSE lockout[a]
  BY <1>1, FailureTends DEF Fail
<1>5. CASE guesses'[a] = 0
  BY <1>5, ClearedGuesses
<1>6. CASE a # b /\ guesses'[a] = guesses[a] /\ lockout'[a] = lockout[a]
  BY <1>1, <1>3, <1>6, OtherNames
<1>7. CASE a = b /\ guesses'[a] = guesses[a] /\ lockout'[a] = r
  <2>1. /\ Count(a) \in 0..M /\ r.failed \in 0..M /\ r.lock # "elapsed"
        /\ r.failed = IF Count(a) < M THEN Count(a) + 1 ELSE Count(a)
        /\ r.lock # "running" => ~Locked(a) /\ (op[t].sole \/ r.failed < M)
    BY <1>1, RecordedFacts
  <2> HIDE DEF r
  <2>2. Count(a)' = r.failed /\ (Locked(a)' <=> r.lock = "running")
    BY <1>7, <2>1 DEF Count, Locked
  <2>3. ~Pending(a)' /\ \A u \in Threads : ~(op'[u].pc = "verify" /\ op'[u].name = a)
    BY <1>2, <1>3, <1>7, NoRival DEF Pending, Unrecorded
  <2>4. guesses[a] <= r.failed
    BY <1>1, <2>1 DEF GuessOK
  <2>5. op[t].sole => ~Pending(a)
    BY <1>2, <1>7, NoRival DEF Pending, Unrecorded
  <2>6. r.lock # "running" => guesses[a] < M
    BY <1>1, <2>1, <2>4, <2>5 DEF GuessOK
  <2> QED
    BY <1>1, <1>7, <2>2, <2>3, <2>4, <2>6 DEF GuessOK
<1> QED
  BY <1>4, <1>5, <1>6, <1>7

\* A login keeps the bound.
LEMMA LoginsKeepGuesses ==
  ASSUME GuessInv, AuthTypeOK', NEW t \in Threads, Login(t)
  PROVE  GuessInv'
<1>1. AuthTypeOK /\ \A a \in Names : GuessOK(a)
  BY GuessByName DEF GuessInv
<1>2. \A u \in Threads \ {t} : op'[u] = op[u]
  BY <1>1, LoginShape
<1>3. ASSUME NEW a \in Names
      PROVE  GuessOK(a)'
  <2>1. CASE op[t].pc \notin {"verify", "failed"} /\ op'[t].pc \notin {"verify", "failed"} /\ Tended(a)
    BY <1>1, <1>2, <2>1, TendedStep
  <2>2. ASSUME NEW c \in Names, BeginLogin(t, c)
        PROVE  op[t].pc \notin {"verify", "failed"} /\ op'[t].pc \notin {"verify", "failed"} /\ Tended(a)
    BY <1>1, <2>2 DEF BeginLogin, Begin, Step, At, memory, Tended, AuthTypeOK
  <2>3. ASSUME Load(t)
        PROVE  op[t].pc \notin {"verify", "failed"} /\ op'[t].pc \notin {"verify", "failed"} /\ Tended(a)
    <3>1. op[t].pc = "load" /\ op'[t].pc \in {"idle", "issue"}
      BY <1>1, <2>3, OpKinds DEF Load, Step, At, AuthTypeOK
    <3>2. Tended(a)
      BY <1>1, <2>3 DEF Load, Unlock, Tended, AuthTypeOK
    <3> QED
      BY <3>1, <3>2
  <2>4. ASSUME IssueSession(t)
        PROVE  op[t].pc \notin {"verify", "failed"} /\ op'[t].pc \notin {"verify", "failed"} /\ Tended(a)
    BY <1>1, <2>4, OpKinds DEF IssueSession, Step, At, Tended, AuthTypeOK
  <2> QED
    BY <2>1, <2>2, <2>3, <2>4, CheckKeepsGuesses, VerifyKeepsGuesses, FailKeepsGuesses DEF Login
<1>4. GuessesAreCounted' /\ RoomToGuess' /\ GuessesAreBounded'
  <2>1. (AuthTypeOK => (GuessesAreCounted /\ RoomToGuess /\ GuessesAreBounded
                         <=> \A a \in Names : GuessOK(a)))'
    BY GuessByName, PTL
  <2> QED
    BY <1>3, <2>1
<1> QED
  BY <1>4, LoginsKeepOne DEF GuessInv

\* The clock and restarts only clear guesses.
LEMMA OthersKeepGuesses ==
  ASSUME GuessInv, AuthTypeOK',
         \/ \E n \in Names : LockElapses(n)
         \/ \E s \in sessions : EndSession(s)
         \/ Restart \/ UNCHANGED authVars
  PROVE  GuessInv'
<1> DEFINE M == MaxFailed["standard"]
<1>1. AuthTypeOK /\ M \in Nat \ {0} /\ \A a \in Names : GuessOK(a)
  BY GuessByName, Thresholds DEF GuessInv
<1>2. CASE Restart
  <2>1. /\ lockout' = [a \in Names |-> Clear] /\ guesses' = [a \in Names |-> 0]
        /\ \A u \in Threads : op'[u].pc = "idle"
    BY <1>2, OpKinds DEF Restart
  <2>2. OneLogin' /\ GuessesAreCounted' /\ RoomToGuess' /\ GuessesAreBounded'
    BY <1>1, <2>1
       DEF OneLogin, LoggingIn, GuessesAreCounted, RoomToGuess, GuessesAreBounded, Count, Clear
  <2> QED
    BY <2>2 DEF GuessInv
<1>3. CASE UNCHANGED op /\ UNCHANGED inFlight /\ \A a \in Names : Tended(a)
  <2>1. \A a \in Names : GuessOK(a)'
    BY <1>1, <1>3, TendedStep
  <2>2. GuessesAreCounted' /\ RoomToGuess' /\ GuessesAreBounded'
    <3>1. (AuthTypeOK => (GuessesAreCounted /\ RoomToGuess /\ GuessesAreBounded
                           <=> \A a \in Names : GuessOK(a)))'
      BY GuessByName, PTL
    <3> QED
      BY <2>1, <3>1
  <2>3. OneLogin'
    BY <1>3 DEF GuessInv, OneLogin, LoggingIn
  <2> QED
    BY <2>2, <2>3 DEF GuessInv
<1>4. ASSUME NEW b \in Names, LockElapses(b)
      PROVE  UNCHANGED op /\ UNCHANGED inFlight /\ \A a \in Names : Tended(a)
  BY <1>1, <1>4 DEF LockElapses, Tended, AuthTypeOK
<1>5. (\E s \in sessions : EndSession(s)) \/ UNCHANGED authVars =>
        UNCHANGED op /\ UNCHANGED inFlight /\ \A a \in Names : Tended(a)
  BY DEF EndSession, authVars, Tended
<1> QED
  BY <1>2, <1>3, <1>4, <1>5

\* However logins, commands, recoveries, policies and restarts interleave, no more
\* passwords are tried under a name as typed, before it is locked or its counter
\* cleared, than the laxer policy allows.
THEOREM BoundedGuesses == AuthSpec => []GuessesAreBounded
<1>1. AuthInit => GuessInv
  <2> SUFFICES ASSUME AuthInit PROVE GuessInv
    OBVIOUS
  <2>1. /\ MaxFailed["standard"] \in Nat \ {0} /\ AuthTypeOK
        /\ \A u \in Threads : op[u].pc = "idle"
    BY InitTypes, Thresholds, OpKinds DEF AuthInit
  <2> QED
    BY <2>1 DEF AuthInit, GuessInv, OneLogin, LoggingIn, GuessesAreCounted, RoomToGuess,
                GuessesAreBounded, Count, Clear
<1>2. GuessInv /\ [AuthNext]_authVars => GuessInv'
  <2> SUFFICES ASSUME GuessInv, [AuthNext]_authVars PROVE GuessInv'
    OBVIOUS
  <2>1. AuthTypeOK'
    BY NextTypes DEF GuessInv
  <2> QED
    BY <2>1, LoginsKeepGuesses, CommandsKeepGuesses, OthersKeepGuesses DEF AuthNext
<1>3. GuessInv => GuessesAreBounded
  BY DEF GuessInv
<1> QED
  BY <1>1, <1>2, <1>3, PTL DEF AuthSpec
=============================================================================
