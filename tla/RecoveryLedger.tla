---------------------------- MODULE RecoveryLedger ----------------------------
(***************************************************************************)
(* Recovery codes of the desktop back end: the commands that activate,     *)
(* revoke and use them, the revocation ledger and its USB mirror, the      *)
(* recovery journal, a crash at any point and the startup reconciler.      *)
(*                                                                         *)
(* Tauri runs every command on a thread of its own and no lock spans a     *)
(* command, so cmd[t] walks through the file operations and the SQLite     *)
(* transaction one step at a time and other threads interleave.  The       *)
(* transaction is one step (BEGIN IMMEDIATE .. COMMIT).                    *)
(***************************************************************************)
EXTENDS Integers, FiniteSets, LedgerChain

CONSTANTS
  Accounts,     \* super-admin accounts
  Codes,        \* positions in a batch (CODES_PER_BATCH = 8 in the code)
  Threads,      \* command threads running at the same time
  Commands,     \* which of the three kinds of command the run lets start
  Faults,       \* which failures the run lets happen
  MaxBatches,   \* bound: batches generated
  MaxCommands,  \* bound: commands started
  MaxCrashes,   \* bound: crashes
  NoAccount, NoCode

CommandKinds == {"activate", "revoke", "forgot"}
\* "db": the transaction fails.  "append": append_event fails and writes nothing.
\* "tear": a failed or interrupted append leaves part of a block, or a failed one
\* all of it (write_all succeeded, sync_all did not).  "stage" and
\* "finalize": the journal cannot be written / removed.  "usb": the USB drive or
\* its setting changes while the program runs.
FaultKinds == {"db", "append", "tear", "stage", "finalize", "usb"}

ASSUME ConstantsOK ==
  /\ Commands \subseteq CommandKinds
  /\ Faults \subseteq FaultKinds
  /\ MaxBatches \in Nat /\ MaxCommands \in Nat /\ MaxCrashes \in Nat
  /\ NoAccount \notin Accounts /\ NoCode \notin Codes

VARIABLES
  ledger,     \* ledger.rev beside the database
  mirror,     \* ledger.rev on the registered USB volume
  mirrorTmp,  \* ledger.rev.tmp on that volume
  usb,        \* "off": backup disabled, "in"/"out": enabled and mounted or not
  rows,       \* app_recovery_codes, per account
  nextGen,    \* AUTOINCREMENT of app_recovery_codes, one per inserted batch
  legacy,     \* accounts with a usable legacy recovery_code_hash
  pending,    \* RecoveryCodeManager.pending_batches (RAM)
  issued,     \* number of batches generated so far
  journal,    \* recovery.journal
  journalTmp, \* recovery.journal.tmp
  cmd,        \* what each command thread is doing
  boot,       \* [pc, handle] of the process: "down", reconciling, or "up"
  committed,  \* history: the events whose database effect has been committed
  begun, crashes

diskVars == <<ledger, mirror, mirrorTmp>>
dbVars   == <<rows, nextGen, legacy, committed>>
ramVars  == <<pending, issued>>
jVars    == <<journal, journalTmp>>
bounds   == <<begun, crashes>>
vars == <<diskVars, usb, dbVars, ramVars, jVars, cmd, boot, bounds>>

Batches == 1..MaxBatches
NoBatch == 0
\* A row id is the batch insertion it came from and its position; ids are never
\* reused (AUTOINCREMENT), not even when the same batch is inserted again.
Rows  == [gen : Nat \ {0}, code : Codes]
NoRow == [gen |-> 0, code |-> NoCode]

-----------------------------------------------------------------------------
(* Ledger events, journal entries and command states. *)

Event == [type  : {"BatchActivated", "CodeBurned", "BatchRevoked"},
          acct  : Accounts,
          batch : Batches \cup {NoBatch},
          row   : Rows \cup {NoRow}]

EventType == [activate |-> "BatchActivated", burn |-> "CodeBurned",
              legacy |-> "CodeBurned", revoke |-> "BatchRevoked"]

\* What a command (or the journal entry of one) records in the ledger.
EventOf(c) == [type |-> EventType[c.op], acct |-> c.acct,
               batch |-> c.batch, row |-> c.row]

Ops == {"activate", "burn", "legacy", "revoke"}

Entry == [op : {"activate", "burn"}, acct : Accounts, batch : Batches,
          row : Rows \cup {NoRow}, target : Nat,
          state : {"Prepared", "DbCommitted"}]
NoEntry == [state |-> "Absent"]

EntryOf(c, st) == [op |-> c.op, acct |-> c.acct, batch |-> c.batch, row |-> c.row,
                   target |-> Len(c.handle) + 1, state |-> st]

PCs == {"idle", "gate", "match", "open", "stage", "stageRename", "tx", "mark",
        "markRename", "append", "copy", "copyRename", "finalize", "drop"}

Idle == [pc |-> "idle", op |-> "none", acct |-> NoAccount,
         batch |-> NoBatch, row |-> NoRow, handle |-> <<>>]

\* Thread t moves on to the step named next, or is done.
Goto(t, next) == cmd' = [cmd EXCEPT ![t].pc = next]
Done(t)       == cmd' = [cmd EXCEPT ![t] = Idle]
At(t, p)      == boot.pc = "up" /\ cmd[t].pc = p

NoRows == [batch |-> NoBatch, gen |-> 0, used |-> {}]
HasRow(a, b, r) == rows[a].batch = b /\ rows[a].gen = r.gen
NoPending == [batch |-> NoBatch, fresh |-> FALSE]

\* VerificationGate::evaluate: Permitted(LocalOnly) or Permitted(DualCopy).
GatePermits ==
  /\ Verifies(ledger)
  /\ \/ usb = "off"
     \/ /\ usb = "in"
        /\ Verifies(mirror)
        /\ Chain(mirror.blocks) = Chain(ledger.blocks)

Init ==
  /\ ledger = NoFile /\ mirror = NoFile /\ mirrorTmp = NoFile
  /\ usb \in {"off", "in", "out"}
  /\ rows = [a \in Accounts |-> NoRows]
  /\ nextGen = 1
  /\ legacy \in SUBSET Accounts
  /\ pending = [a \in Accounts |-> NoPending]
  /\ issued = 0
  /\ journal = NoEntry /\ journalTmp = NoEntry
  /\ cmd = [t \in Threads |-> Idle]
  /\ boot = [pc |-> "up", handle |-> <<>>]
  /\ committed = {}
  /\ begun = 0 /\ crashes = 0

-----------------------------------------------------------------------------
(* Commands that only touch the pending batches, and the start of the others. *)

\* generate_codes: a fresh batch replaces whatever was pending.
Generate(a) ==
  /\ boot.pc = "up" /\ "activate" \in Commands
  /\ issued < MaxBatches
  /\ issued' = issued + 1
  /\ pending' = [pending EXCEPT ![a] = [batch |-> issued + 1, fresh |-> TRUE]]
  /\ UNCHANGED <<diskVars, usb, dbVars, jVars, cmd, boot, bounds>>

\* cancel_generation.
Cancel(a) ==
  /\ boot.pc = "up" /\ pending[a] # NoPending
  /\ pending' = [pending EXCEPT ![a] = NoPending]
  /\ UNCHANGED <<diskVars, usb, dbVars, issued, jVars, cmd, boot, bounds>>

\* PENDING_BATCH_TTL runs out; the entry stays until somebody looks at it.
Expire(a) ==
  /\ pending[a].fresh
  /\ pending' = [pending EXCEPT ![a].fresh = FALSE]
  /\ UNCHANGED <<diskVars, usb, dbVars, issued, jVars, cmd, boot, bounds>>

CanBegin(t, kind) ==
  /\ At(t, "idle") /\ kind \in Commands
  /\ begun < MaxCommands
  /\ begun' = begun + 1

\* activate_codes step 1: the entry is cloned and stays pending.
BeginActivate(t, a) ==
  /\ CanBegin(t, "activate")
  /\ pending[a].fresh
  /\ cmd' = [cmd EXCEPT ![t] = [Idle EXCEPT !.pc = "open", !.op = "activate",
                                            !.acct = a, !.batch = pending[a].batch]]
  /\ UNCHANGED <<diskVars, usb, dbVars, ramVars, jVars, boot, crashes>>

\* activate_codes step 1 on an expired entry: it is removed, the command fails.
RejectExpired(t, a) ==
  /\ CanBegin(t, "activate")
  /\ pending[a] # NoPending /\ ~pending[a].fresh
  /\ pending' = [pending EXCEPT ![a] = NoPending]
  /\ UNCHANGED <<diskVars, usb, dbVars, issued, jVars, cmd, boot, crashes>>

\* revoke_codes cancels a pending generation before anything else.
BeginRevoke(t, a) ==
  /\ CanBegin(t, "revoke")
  /\ pending' = [pending EXCEPT ![a] = NoPending]
  /\ cmd' = [cmd EXCEPT ![t] = [Idle EXCEPT !.pc = "open", !.op = "revoke", !.acct = a]]
  /\ UNCHANGED <<diskVars, usb, dbVars, issued, jVars, boot, crashes>>

\* forgot_local_account_password, up to the verification gate.
BeginForgot(t, a) ==
  /\ CanBegin(t, "forgot")
  /\ cmd' = [cmd EXCEPT ![t] = [Idle EXCEPT !.pc = "gate", !.acct = a]]
  /\ UNCHANGED <<diskVars, usb, dbVars, ramVars, jVars, boot, crashes>>

-----------------------------------------------------------------------------
(* Forgotten password: the gate, then the code that was typed is looked up. *)

Gate(t) ==
  /\ At(t, "gate")
  /\ IF GatePermits THEN Goto(t, "match") ELSE Done(t)
  /\ UNCHANGED <<diskVars, usb, dbVars, ramVars, jVars, boot, bounds>>

\* The typed code is an unconsumed code of the account's batch.
MatchBatchCode(t) ==
  LET a == cmd[t].acct IN
  /\ At(t, "match")
  /\ rows[a].batch # NoBatch
  /\ \E c \in Codes \ rows[a].used :
       cmd' = [cmd EXCEPT ![t].pc = "open", ![t].op = "burn",
                          ![t].batch = rows[a].batch,
                          ![t].row = [gen |-> rows[a].gen, code |-> c]]
  /\ UNCHANGED <<diskVars, usb, dbVars, ramVars, jVars, boot, bounds>>

\* The legacy code counts only for an account that has no batch rows at all.
MatchLegacy(t) ==
  LET a == cmd[t].acct IN
  /\ At(t, "match")
  /\ rows[a].batch = NoBatch /\ a \in legacy
  /\ cmd' = [cmd EXCEPT ![t].pc = "tx", ![t].op = "legacy"]
  /\ UNCHANGED <<diskVars, usb, dbVars, ramVars, jVars, boot, bounds>>

\* Anything else that was typed is rejected.
MatchNothing(t) ==
  /\ At(t, "match")
  /\ Done(t)
  /\ UNCHANGED <<diskVars, usb, dbVars, ramVars, jVars, boot, bounds>>

-----------------------------------------------------------------------------
(* Steps shared by the commands, in the order each command takes them. *)

\* The step that follows the opening of the ledger.
AfterOpen(op) == CASE op \in {"activate", "burn"} -> "stage"
                   [] op = "revoke" -> "tx"
                   [] op = "legacy" -> "append"

\* Mutant: the ledger is created without looking for an existing one.
CreateAnyway(t) ==
  /\ At(t, "open") /\ cmd[t].op \in {"activate", "revoke"}
  /\ ledger' = NewFile
  /\ Goto(t, AfterOpen(cmd[t].op))
  /\ UNCHANGED <<mirror, mirrorTmp, usb, dbVars, ramVars, jVars, boot, bounds>>

\* activate and revoke create the ledger if there is none (open_or_create).
CreateLedger(t) ==
  /\ At(t, "open") /\ cmd[t].op \in {"activate", "revoke"}
  /\ ~ledger.made
  /\ ledger' = NewFile
  /\ Goto(t, AfterOpen(cmd[t].op))
  /\ UNCHANGED <<mirror, mirrorTmp, usb, dbVars, ramVars, jVars, boot, bounds>>

\* open_and_verify: the handle remembers the chain it has verified.
OpenLedger(t) ==
  /\ At(t, "open") /\ Verifies(ledger)
  /\ cmd' = [cmd EXCEPT ![t].handle = Chain(ledger.blocks),
                        ![t].pc = AfterOpen(cmd[t].op)]
  /\ UNCHANGED <<diskVars, usb, dbVars, ramVars, jVars, boot, bounds>>

\* The command fails, or (legacy) skips the ledger and succeeds.  While another
\* thread creates the ledger, this one may find the file there at its own create_new,
\* or a header that is not all written.
OpenLedgerFails(t) ==
  /\ At(t, "open")
  /\ \/ ~Verifies(ledger) /\ (ledger.made \/ cmd[t].op \in {"burn", "legacy"})
     \/ ledger.made /\ ledger.blocks = <<>> /\ Threads # {t}
  /\ Done(t)
  /\ UNCHANGED <<diskVars, usb, dbVars, ramVars, jVars, boot, bounds>>

\* stage_prepared / mark_db_committed, first half: the entry goes to the .tmp.
WriteJournalTmp(t) ==
  /\ \/ /\ At(t, "stage")
        /\ journalTmp' = EntryOf(cmd[t], "Prepared")
        /\ Goto(t, "stageRename")
     \/ /\ At(t, "mark")
        /\ journalTmp' = EntryOf(cmd[t], "DbCommitted")
        /\ Goto(t, "markRename")
  /\ UNCHANGED <<diskVars, usb, dbVars, ramVars, journal, boot, bounds>>

\* Second half: rename over recovery.journal.  It moves whatever the .tmp holds.
RenameJournalTmp(t) ==
  /\ \/ At(t, "stageRename") /\ Goto(t, "tx")
     \/ At(t, "markRename") /\ Goto(t, "append")
  /\ journalTmp # NoEntry
  /\ journal' = journalTmp
  /\ journalTmp' = NoEntry
  /\ UNCHANGED <<diskVars, usb, dbVars, ramVars, boot, bounds>>

\* Writing or renaming fails (another thread may have taken the .tmp): staging
\* ends the command, the result of marking is ignored.
Renameless == journalTmp = NoEntry \/ "stage" \in Faults

JournalWriteFails(t) ==
  /\ \/ "stage" \in Faults /\ At(t, "stage") /\ Done(t)
     \/ "stage" \in Faults /\ At(t, "mark") /\ Goto(t, "append")
     \/ Renameless /\ At(t, "stageRename") /\ Done(t)
     \/ Renameless /\ At(t, "markRename") /\ Goto(t, "append")
  /\ UNCHANGED <<diskVars, usb, dbVars, ramVars, jVars, boot, bounds>>

\* RecoveryJournal::finalize; a failed removal is ignored by the commands.
FinalizeJournal ==
  \/ journal' = NoEntry /\ journalTmp' = NoEntry
  \/ "finalize" \in Faults /\ UNCHANGED jVars

Commit(e) == committed' = committed \cup {e}

-----------------------------------------------------------------------------
(* The SQLite transactions. *)

\* Old codes out, legacy hash out, the eight new codes in.
TxActivate(t) ==
  LET c == cmd[t] IN
  /\ At(t, "tx") /\ c.op = "activate"
  /\ rows' = [rows EXCEPT ![c.acct] = [batch |-> c.batch, gen |-> nextGen, used |-> {}]]
  /\ nextGen' = nextGen + 1
  /\ legacy' = legacy \ {c.acct}
  /\ Commit(EventOf(c))
  /\ Goto(t, "mark")
  /\ UNCHANGED <<diskVars, usb, ramVars, jVars, boot, bounds>>

TxRevoke(t) ==
  LET c == cmd[t] IN
  /\ At(t, "tx") /\ c.op = "revoke"
  /\ rows' = [rows EXCEPT ![c.acct] = NoRows]
  /\ legacy' = legacy \ {c.acct}
  /\ Commit(EventOf(c))
  /\ Goto(t, "append")
  /\ UNCHANGED <<diskVars, usb, nextGen, ramVars, jVars, boot, bounds>>

\* Mutant: the UPDATE does not test used_at.
RowExists(c) == HasRow(c.acct, c.batch, c.row)

\* The row is there and unconsumed: it is consumed with the password change.
Unconsumed(c) == HasRow(c.acct, c.batch, c.row) /\ c.row.code \notin rows[c.acct].used

TxBurn(t) ==
  LET c == cmd[t] IN
  /\ At(t, "tx") /\ c.op = "burn" /\ Unconsumed(c)
  /\ rows' = [rows EXCEPT ![c.acct].used = @ \cup {c.row.code}]
  /\ Commit(EventOf(c))
  /\ Goto(t, "mark")
  /\ UNCHANGED <<diskVars, usb, nextGen, legacy, ramVars, jVars, boot, bounds>>

\* affected != 1: roll back, remove the journal, fail.
TxBurnRejected(t) ==
  /\ At(t, "tx") /\ cmd[t].op = "burn" /\ ~Unconsumed(cmd[t])
  /\ FinalizeJournal
  /\ Done(t)
  /\ UNCHANGED <<diskVars, usb, dbVars, ramVars, boot, bounds>>

\* The password is replaced and the legacy hash cleared, whatever it is by now.
TxLegacy(t) ==
  LET c == cmd[t] IN
  /\ At(t, "tx") /\ c.op = "legacy"
  /\ legacy' = legacy \ {c.acct}
  /\ Commit(EventOf(c))
  /\ Goto(t, "open")
  /\ UNCHANGED <<diskVars, usb, rows, nextGen, ramVars, jVars, boot, bounds>>

\* The transaction fails.  Activation removes its journal; a burn returns
\* through `?` and leaves the Prepared entry behind.
TxFails(t) ==
  /\ At(t, "tx") /\ "db" \in Faults
  /\ IF cmd[t].op = "activate" THEN FinalizeJournal ELSE UNCHANGED jVars
  /\ Done(t)
  /\ UNCHANGED <<diskVars, usb, dbVars, ramVars, boot, bounds>>

-----------------------------------------------------------------------------
(* After the transaction: ledger, mirror, journal, RAM. *)

\* The mirror step follows a legacy burn even when its append failed.
AppendBlock(t) ==
  /\ At(t, "append")
  /\ ledger' = Extend(ledger, cmd[t].handle, EventOf(cmd[t]))
  /\ Goto(t, "copy")
  /\ UNCHANGED <<mirror, mirrorTmp, usb, dbVars, ramVars, jVars, boot, bounds>>

AppendFails(t) ==
  /\ At(t, "append")
  /\ \/ "append" \in Faults /\ UNCHANGED ledger
     \/ "tear" \in Faults /\ ledger' \in {[ledger EXCEPT !.torn = TRUE],
                                        Extend(ledger, cmd[t].handle, EventOf(cmd[t]))}
  /\ IF cmd[t].op = "legacy" THEN Goto(t, "copy") ELSE Done(t)
  /\ UNCHANGED <<mirror, mirrorTmp, usb, dbVars, ramVars, jVars, boot, bounds>>

AfterMirror(t) ==
  IF cmd[t].op \in {"activate", "burn"} THEN Goto(t, "finalize") ELSE Done(t)

\* sync_to_usb_mirror: copy to the .tmp on the drive, then rename; every error
\* is ignored by the caller.
CopyToMirror(t) ==
  /\ At(t, "copy")
  /\ \/ usb = "in" /\ mirrorTmp' = ledger /\ Goto(t, "copyRename")
     \/ usb # "in" /\ UNCHANGED mirrorTmp /\ AfterMirror(t)
  /\ UNCHANGED <<ledger, mirror, usb, dbVars, ramVars, jVars, boot, bounds>>

RenameMirror(t) ==
  /\ At(t, "copyRename")
  /\ IF usb = "in" /\ mirrorTmp.made
     THEN mirror' = mirrorTmp /\ mirrorTmp' = NoFile
     ELSE UNCHANGED <<mirror, mirrorTmp>>
  /\ AfterMirror(t)
  /\ UNCHANGED <<ledger, usb, dbVars, ramVars, jVars, boot, bounds>>

Finalize(t) ==
  /\ At(t, "finalize")
  /\ FinalizeJournal
  /\ IF cmd[t].op = "activate" THEN Goto(t, "drop") ELSE Done(t)
  /\ UNCHANGED <<diskVars, usb, dbVars, ramVars, boot, bounds>>

\* activate_codes step 6 removes the account's entry, whichever batch it is.
DropPending(t) ==
  /\ At(t, "drop")
  /\ pending' = [pending EXCEPT ![cmd[t].acct] = NoPending]
  /\ Done(t)
  /\ UNCHANGED <<diskVars, usb, dbVars, issued, jVars, boot, bounds>>

-----------------------------------------------------------------------------
(* The process stops anywhere; at the next start setup() reconciles first.  *)

\* A power cut may leave part of a block when an append was under way.
Appending == boot.pc = "append" \/ \E t \in Threads : At(t, "append")

Crash ==
  /\ boot.pc # "down" /\ crashes < MaxCrashes
  /\ crashes' = crashes + 1
  /\ boot' = [pc |-> "down", handle |-> <<>>]
  /\ cmd' = [t \in Threads |-> Idle]
  /\ pending' = [a \in Accounts |-> NoPending]
  /\ \/ UNCHANGED ledger
     \/ "tear" \in Faults /\ Appending /\ ledger' = [ledger EXCEPT !.torn = TRUE]
  /\ UNCHANGED <<mirror, mirrorTmp, usb, dbVars, issued, jVars, begun>>

BootTo(next, h) == boot' = [pc |-> next, handle |-> h]

Start ==
  /\ boot.pc = "down"
  /\ BootTo("read", <<>>)
  /\ UNCHANGED <<diskVars, usb, dbVars, ramVars, jVars, cmd, bounds>>

\* Mutant: the state written in the journal is believed.
CommittedByState(j) == j.state = "DbCommitted"

\* Mutant: a row that is gone counts as consumed.
CommittedIfGone(j) ==
  IF j.op = "activate"
  THEN rows[j.acct].batch = j.batch
  ELSE HasRow(j.acct, j.batch, j.row) => j.row.code \in rows[j.acct].used

\* Is the journalled transaction in the database?  Eight rows of the batch, or
\* the row consumed; a missing row counts as not committed.
IsDbCommitted(j) ==
  IF j.op = "activate"
  THEN rows[j.acct].batch = j.batch
  ELSE HasRow(j.acct, j.batch, j.row) /\ j.row.code \in rows[j.acct].used

\* No journal (a dangling .tmp is removed), or one whose transaction is not in
\* the database, which is discarded.
ReconcileNothing ==
  /\ boot.pc = "read"
  /\ \/ journal = NoEntry /\ journal' = NoEntry /\ journalTmp' = NoEntry
     \/ journal # NoEntry /\ ~IsDbCommitted(journal) /\ FinalizeJournal
  /\ BootTo("up", <<>>)
  /\ UNCHANGED <<diskVars, usb, dbVars, ramVars, cmd, bounds>>

\* Mutant: every committed journal is appended again.
RecordedNever(j) == FALSE

\* An activation is looked up in the ledger; a burn is taken as recorded once
\* the ledger has reached its target sequence number.
Recorded(j) ==
  IF j.op = "activate"
  THEN \E i \in 1..Len(ledger.blocks) :
         LET e == ledger.blocks[i].event IN
         e.type = "BatchActivated" /\ e.acct = j.acct /\ e.batch = j.batch
  ELSE Len(ledger.blocks) >= j.target

\* The ledger cannot be opened: setup() ignores the error, the journal stays.
ReconcileGivesUp ==
  /\ boot.pc = "read" /\ journal # NoEntry /\ IsDbCommitted(journal)
  /\ ~Verifies(ledger)
  /\ BootTo("up", <<>>)
  /\ UNCHANGED <<diskVars, usb, dbVars, ramVars, jVars, cmd, bounds>>

ReconcileOpen ==
  /\ boot.pc = "read" /\ journal # NoEntry /\ IsDbCommitted(journal)
  /\ Verifies(ledger)
  /\ BootTo(IF Recorded(journal) THEN "finalize" ELSE "append", Chain(ledger.blocks))
  /\ UNCHANGED <<diskVars, usb, dbVars, ramVars, jVars, cmd, bounds>>

ReconcileAppend ==
  /\ boot.pc = "append"
  /\ ledger' = Extend(ledger, boot.handle, EventOf(journal))
  /\ BootTo("copy", <<>>)
  /\ UNCHANGED <<mirror, mirrorTmp, usb, dbVars, ramVars, jVars, cmd, bounds>>

\* append_event fails: reconcile returns Err, setup() carries on.
ReconcileAppendFails ==
  /\ boot.pc = "append"
  /\ \/ "append" \in Faults /\ UNCHANGED ledger
     \/ "tear" \in Faults /\ ledger' \in {[ledger EXCEPT !.torn = TRUE],
                                        Extend(ledger, boot.handle, EventOf(journal))}
  /\ BootTo("up", <<>>)
  /\ UNCHANGED <<mirror, mirrorTmp, usb, dbVars, ramVars, jVars, cmd, bounds>>

ReconcileCopy ==
  /\ boot.pc = "copy"
  /\ \/ usb = "in" /\ mirrorTmp' = ledger /\ BootTo("copyRename", <<>>)
     \/ usb # "in" /\ UNCHANGED mirrorTmp /\ BootTo("finalize", <<>>)
  /\ UNCHANGED <<ledger, mirror, usb, dbVars, ramVars, jVars, cmd, bounds>>

ReconcileRename ==
  /\ boot.pc = "copyRename"
  /\ IF usb = "in" /\ mirrorTmp.made
     THEN mirror' = mirrorTmp /\ mirrorTmp' = NoFile
     ELSE UNCHANGED <<mirror, mirrorTmp>>
  /\ BootTo("finalize", <<>>)
  /\ UNCHANGED <<ledger, usb, dbVars, ramVars, jVars, cmd, bounds>>

ReconcileFinalize ==
  /\ boot.pc = "finalize"
  /\ FinalizeJournal
  /\ BootTo("up", <<>>)
  /\ UNCHANGED <<diskVars, usb, dbVars, ramVars, cmd, bounds>>

UsbChanges ==
  /\ "usb" \in Faults
  /\ usb' \in {"off", "in", "out"} \ {usb}
  /\ UNCHANGED <<diskVars, dbVars, ramVars, jVars, cmd, boot, bounds>>

-----------------------------------------------------------------------------
Begin(t) == \E a \in Accounts : \/ BeginActivate(t, a) \/ RejectExpired(t, a)
                                \/ BeginRevoke(t, a) \/ BeginForgot(t, a)

\* What a command does once it has begun.
Step(t) ==
  \/ Gate(t) \/ MatchBatchCode(t) \/ MatchLegacy(t) \/ MatchNothing(t)
  \/ CreateLedger(t) \/ OpenLedger(t) \/ OpenLedgerFails(t)
  \/ WriteJournalTmp(t) \/ RenameJournalTmp(t) \/ JournalWriteFails(t)
  \/ TxActivate(t) \/ TxRevoke(t) \/ TxBurn(t) \/ TxBurnRejected(t)
  \/ TxLegacy(t) \/ TxFails(t)
  \/ AppendBlock(t) \/ AppendFails(t)
  \/ CopyToMirror(t) \/ RenameMirror(t) \/ Finalize(t) \/ DropPending(t)

Reconcile ==
  \/ ReconcileNothing \/ ReconcileGivesUp \/ ReconcileOpen
  \/ ReconcileAppend \/ ReconcileAppendFails
  \/ ReconcileCopy \/ ReconcileRename \/ ReconcileFinalize

Next ==
  \/ \E a \in Accounts : Generate(a) \/ Cancel(a) \/ Expire(a)
  \/ \E t \in Threads : Begin(t) \/ Step(t)
  \/ Crash \/ Start \/ Reconcile
  \/ UsbChanges

Spec == Init /\ [][Next]_vars

\* A command thread keeps running, and a program that went down is started
\* again and gets through its setup.  Users need not start commands.
Fairness == /\ \A t \in Threads : WF_vars(Step(t))
            /\ WF_vars(Start) /\ WF_vars(Reconcile)

FairSpec == Spec /\ Fairness

-----------------------------------------------------------------------------
(* Types. *)

Command == [pc : PCs, op : Ops \cup {"none"}, acct : Accounts \cup {NoAccount},
            batch : Batches \cup {NoBatch}, row : Rows \cup {NoRow},
            handle : Seq(Event)]

BootPCs == {"down", "read", "append", "copy", "copyRename", "finalize", "up"}

\* Every variable has its type; a command past its lookup has an account and an
\* operation.
TypeOK ==
  /\ ledger \in File(Event) /\ mirror \in File(Event) /\ mirrorTmp \in File(Event)
  /\ usb \in {"off", "in", "out"}
  /\ rows \in [Accounts -> [batch : Batches \cup {NoBatch}, gen : Nat, used : SUBSET Codes]]
  /\ nextGen \in Nat \ {0}
  /\ legacy \in SUBSET Accounts
  /\ pending \in [Accounts -> [batch : Batches \cup {NoBatch}, fresh : BOOLEAN]]
  /\ issued \in 0..MaxBatches
  /\ journal \in Entry \cup {NoEntry} /\ journalTmp \in Entry \cup {NoEntry}
  /\ cmd \in [Threads -> Command]
  /\ boot \in [pc : BootPCs, handle : Seq(Event)]
  /\ committed \in SUBSET Event
  /\ begun \in Nat /\ crashes \in Nat

-----------------------------------------------------------------------------
(* What holds however many threads run and whatever fails. *)

\* The ledger never runs ahead of the database: each block, written by a command
\* or by the reconciler after a crash, records a transaction that committed.
NoPhantomRecords == EventsIn(ledger) \subseteq committed

\* Two threads that matched the same row do not both consume it, and nothing
\* makes a consumed row usable again: the UPDATE is conditional on the row.
RowBurnedOnce ==
  [][\A t \in Threads : TxBurn(t) => EventOf(cmd[t]) \notin committed]_vars

\* A ledger that once failed verification is never accepted again by the gate
\* or by an open: later appends cannot mend the chain.
BrokenStaysBroken ==
  [][ledger.made /\ ~Verifies(ledger) => ~Verifies(ledger)']_vars

\* The mirror on the USB drive holds an initial part of the ledger's blocks,
\* whatever syncs were cut short, interleaved or lost with the drive.
MirrorIsPrefix ==
  /\ Len(mirror.blocks) <= Len(ledger.blocks)
  /\ \A i \in 1..Len(mirror.blocks) : mirror.blocks[i] = ledger.blocks[i]

-----------------------------------------------------------------------------
(* What holds when commands run one after another and appends do not fail. *)

\* "Append-only integrity with strict sequence checks": the file verifies
\* whenever it exists.
LedgerVerifies == ledger.made => Verifies(ledger)

ActivatedEvent(a) == [type |-> "BatchActivated", acct |-> a,
                      batch |-> rows[a].batch, row |-> NoRow]
BurnedEvent(a, c) == [type |-> "CodeBurned", acct |-> a, batch |-> rows[a].batch,
                      row |-> [gen |-> rows[a].gen, code |-> c]]

\* The journal will make the reconciler append e if the program stops now.
WillBeRecorded(e) ==
  /\ journal # NoEntry
  /\ EventOf(journal) = e
  /\ IsDbCommitted(journal) /\ ~Recorded(journal)

\* The reconciler does not repeat a block whose command appended it before the
\* crash.  (Revoking twice is two events.)
RecordedOnce ==
  \A i, j \in 1..Len(ledger.blocks) :
    /\ ledger.blocks[i].event = ledger.blocks[j].event
    /\ ledger.blocks[i].event.type # "BatchRevoked"
    => i = j

\* A consumed code reaches the ledger, or its row is replaced or revoked, even
\* if the program goes down in between and is started again.
BurnsGetRecorded ==
  \A a \in Accounts, c \in Codes :
    c \in rows[a].used ~> \/ c \notin rows[a].used
                         \/ BurnedEvent(a, c) \in EventsIn(ledger)
=============================================================================
