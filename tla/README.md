# Staff Kit: TLA+ models and proofs

Staff Kit is a Tauri desktop program that keeps a company's employees, assets
and lending requests in one SQLite database. This directory holds TLA+ models
of the parts of its Rust back end (`src/src-tauri/src`, written below without
that prefix) in which the order of steps, a crash or a second thread decides
whether the result is right; TLC configurations that check them on small
instances; and theorems proved with TLAPS for every instance. `PROJECT.json`
lists components, runs, mutants, theorems, hazards, findings and, for every
definition, the source lines it stands for.

    tlc -config ledger_serial.cfg MCRecoveryLedger.tla      # one run
    tlapm RecoveryLedgerProofs.tla                          # one proof module

## 1. The system

### How the parts meet

* Every `#[tauri::command(async)]` of `lib.rs` runs on a thread of its own, in
  parallel with the others. No lock spans a command. The LAN server adds its
  own tasks, the auto-backup scheduler another, and `setup()` runs before any
  command is served.
* The common state is the SQLite database: WAL mode, `busy_timeout` of 5 s,
  writers in `BEGIN IMMEDIATE`, connections kept in a small pool by
  generation (`db/mod.rs:71-138`). A transaction is atomic and survives a stop.
* Some state is in files outside the database (recovery ledger and journal,
  audit journal, backups, a restore's temporary files, the settings file that
  names the database's folder, the USB mirror). No transaction covers both, and
  that is where most hazards are.
* Some state is in RAM only (sessions, lockouts, pending code batches, import
  previews, LAN token and replay cache, the restore flag, the cached path).

### Inventory

| Component | State | Operations | What is hard | Correct when |
|---|---|---|---|---|
| Recovery ledger and journal (`recovery_ledger/`) | `ledger.rev`, `ledger.rev.tmp` and `ledger.rev` on USB, `recovery.journal` and its `.tmp` | open and verify, create, append, sync mirror, gate, stage / mark / finalize, reconcile at startup | file and database commit apart; a crash in between; two threads and one `.tmp`; torn blocks | the chain verifies, no block without a commit, no commit without a block, none twice |
| Recovery code manager (`activation.rs`) | pending batches (RAM), rows of `app_recovery_codes` | generate, cancel, activate, revoke | a failure after COMMIT; expiry; two activations | a code works once |
| Forgotten password (`db/auth.rs`) | code rows, legacy hash, password | gate, match, burn, legacy burn | the match is outside the transaction | a row is consumed once |
| Restore (`db/backup.rs`, `db/mod.rs`) | database, `orig_bak`, `.restoring`, snapshots, flag and lock | restore, revert, roll back, recover at startup and from the status command | every crash point between renames; writers during a restore; pruning | a restore happens wholly or not at all, no blank database, no write lost |
| Schema and migrations (`db/mod.rs`, `db/schema.rs`) | columns, constraints, dynamic fields, search index, `user_version` | open, encrypt, a dozen upgrade steps, stamp | each step commits apart; a crash and a retry; the stamp ends repairs | an upgrade is whole and keeps the old data |
| Database move and reset (`db/backup.rs`, `db/mod.rs`) | databases in two folders, `db_settings.json`, cached path, pool, audit journals | move (link or copy), reset, look up, reuse a connection | path read before the lock; caches filled late; shared folder gone | no write lost; commands follow the setting |
| Automatic backups (`db/backup.rs`) | backups in two places, settings, the run's lock, retry stage | check, back up, copy, catch up, stamp, prune, register | a device swapped in the middle; retries; clocks | "Protected" is true, the schedule goes on |
| Pool (`db/mod.rs`) | idle connections, generation | take, return, invalidate | return races invalidation | no command works on an old database |
| Borrow requests (`db/borrow.rs`) | requests, items, claims, loans, asset status | submit, approve, reject, cancel | requests that wait while loans, assets and people change | status, loans, claims and requests agree |
| LAN server (`lan_server.rs`, `lan_auth.rs`) | setting, managed server, listeners, token | start, stop, update, issue, revoke, status | awaits under and between locks; stop against issue | disabled means stopped; a token dies with its server |
| LAN submission (`lan_server.rs`, `db/borrow.rs`) | replay cache, policy, evidence | validate, record the request id, submit | duplicates in flight; a changed policy | a request is made once, on the policy of its commit |
| Asset registry and stock (`db/asset.rs`) | assets, categories, stock | register, edit and deactivate categories, delete | a category changes kind | stock and lists do not mix |
| Asset import wizard (`db/asset_import.rs`, `import_detector.rs`) | batches and their rows | route, stage, edit, skip, import, direct import, delete, metadata | a batch is validated long before it is imported, and more than once | a row is imported once, to the right owner |
| Historical assignment import (`db/historical_assignment_import.rs`) | preview, loans | preview, classify, apply | the preview is stale when applied | no loan is taken over unasked |
| Employees (`db/employee.rs`, `db/import.rs`) | employee rows, staff group, machines | create, edit, move, delete, import | rows of one file matched against each other; references from loans | one row per person, nothing dangles |
| MSSQL sync (`db/mssql_import.rs`) | previews, settings | fetch, preview, apply, seed assets | network between preview and apply | what is applied is what was shown |
| Local accounts, sessions, lockouts (`db/auth.rs`, `auth_session.rs`) | accounts, sessions, lockouts (RAM) | login, resume, logout, change, invalidate, lock out | a slow password check between read and issue; role changes | a revoked role has no session; counters at their limits |
| Audit journal (`db/audit_journal.rs`) | hash-chained file | record critical event | no lock; errors ignored; one journal per folder | what happened is on record |
| Audit log table, key derivation, disk space, interface, web track, tooling | none that orders anything here | | | |

Each hazard, at its line and with the properties that would catch it, is listed
under `hazards` in `PROJECT.json`.

## 2. Modules

| Module | Contents |
|---|---|
| `LedgerChain` | the chained file: blocks, `Verifies`, `Extend` (= `append_event` through a handle) |
| `RecoveryLedger` | commands, journal, ledger, mirror, crash, reconciler; its properties |
| `RecoveryPromise` | what recovery codes promise, as three atomic steps |
| `RecoveryRefinement` | the mapping from `RecoveryLedger` to `RecoveryPromise` |
| `RecoveryInvariant` | the inductive invariants of the proofs |
| `RecoveryLedgerProofs` | lemmas about the chain, and the theorems |
| `RestoreDb` | restore, revert, recovery, writers, status command, crash; their properties |
| `DatabasePromise` | what a restore promises, as three atomic steps |
| `RestoreProofs` | the theorems about `RestoreDb`, and the mapping to `DatabasePromise` |
| `SchemaUpgrade` | what each step of `apply_migrations` does to a database |
| `DatabaseHome`, `DatabaseHomeProofs` | EXTENDS it: starts, moves, resets, path cache, pool, audit journals; the theorems |
| `AutoBackup`, `AutoBackupProofs` | the scheduler, its local and USB copies, the protection status, and the theorems |
| `BorrowRequests` | lending |
| `LanSubmission` | EXTENDS `BorrowRequests`: the handler, the replay cache, the policy |
| `LanServer` | the life of the server and of its token |
| `LendingProofs` | theorems about `BorrowRequests` and, resting on them, about `LanSubmission`; those about `LanServer` |
| `SessionStore`, `SessionProofs` | accounts, logins, sessions, lockouts, and the theorems |
| `AssetSheet` | how an asset workbook is read (operators only) |
| `AssetImport`, `AssetImportProofs` | EXTENDS it: batches, the registry, categories, stock; the theorems |
| `StaffDirectory`, `StaffDirectoryProofs` | employees: forms, groups, Excel import, MSSQL sync, seeds, and the theorems |
| `MC...` | instances for TLC: symmetry sets, workbooks, directories |

In all of them a step is what the code does without letting anybody in between:
one transaction, one file operation, or the code between two awaits. Variables
called *history* in their comments are no state of the program; they remember what
properties speak about.

### RecoveryLedger

`cmd[t]` is the command of thread `t`: its program counter, operation, account,
batch, the code row it matched and the `handle`, the chain it verified when it
opened the ledger. An action is one file operation or one SQLite transaction,
so other threads and a crash come between any two of them:

    activate   open|create  stage  rename  tx  mark  rename  append  copy  rename  finalize  drop
    burn       gate  match  open   stage  rename  tx  mark  rename  append  copy  rename  finalize
    legacy     gate  match  tx  open  append  copy  rename
    revoke     open|create  tx  append  copy  rename

`boot` is the process: down, in the reconciler (`reconciler.rs`, called by
`setup()` which ignores its error), or up. A block hash is modelled by the
sequence of events it covers: equal hashes are equal histories. `append_event`
writes at the end of the file as it is *now*, with the number and hash of the
handle it opened *then*; this is the line between a chain and a fork, so it is
one operator, `Extend(f, h, e)`.

A row id is the insertion that made it and its position (`AUTOINCREMENT`, never
reused). `committed` is a history variable: events whose database effect has
been committed. The journal's `state` field is written as in the code, and
ignored by the reconciler as in the code.

A fault "tear" is an append that returns an error having written part of a block, or all of
it (`sync_all` fails after `write_all`, `ledger.rs:182`). Two commands may both find no
ledger; the one that comes second fails (`create_new`, in `OpenLedgerFails`).

Left out: keys and HMACs (every writer holds the key), timestamps, the bytes of
blocks, the header's creation in parts, password rules, audit rows, account
deletion.

### RestoreDb

`disk` holds the database, `orig_bak` and `.restoring`. A database is where it
came from (installed, backup, blank without tables, fresh after migration) and
the set of writes it holds; `-wal` and `-shm` follow it. A thread takes one
file-system call, or one test of a file, per step. `conn[t]` is the file a
connection points to, which a rename carries with it. `OpenFilesMove` is the
platform: on Windows an open file cannot be renamed or removed. A `write`
stands for any command that opens the database and commits; a `status` is
`database_status`, which runs the startup recovery too; a `revert` restores one of
the safety snapshots `snaps`, which the snapshot it takes first may prune.

Left out: WAL checkpoints as such, the pool (a connection is opened for its
command; `DatabaseHome` has it), the audit journal (likewise).

### SchemaUpgrade and DatabaseHome

A database is the set of the schema's parts that releases differ in (`has`), the
account of each employee under the old and the new field key, the state of
the search index, the version, and the writes it holds, split between main file
and log. `SchemaUpgrade!After` gives what one step of `apply_migrations` makes of it;
`todo` in `DatabaseHome` is the list of steps the running start has left, and a
crash, or a step that fails, may come between any two.

`DatabaseHome` has two folders, local and shared. `setting` is `db_settings.json`,
`cache` is `CACHED_DB_PATH` with its generation, `pool` is `IDLE_CONNECTIONS`,
`gen` is `POOL_GENERATION`. A command looks the path up, takes or opens a
connection, commits, and gives the connection back, each in a step of its own
(`Lookup`, `Use`); `Move` is `move_database_to` with its two ways (take over a
database that is there, or copy) and `Reset` is `reset_all_data`. An audit journal in
`trail` is the set of events it holds and whether its chain is broken; recording
is verify, then append.

Left out: the normalisation of staff groups and of security tool values, the row that a
move writes to the audit table, disk-space checks (their failure is that of the copy).

### AutoBackup

Ages instead of dates: `Tick` makes everything a wake older. `job` is one run of
`run_auto_backup_if_due` (lock, backup, record, copy, finalize, catchUp, stamp, prune),
`set` the settings row, `lock` is `BACKUP_IN_PROGRESS`. The user plugs, swaps,
registers and disables the device and changes settings between any two steps; a
step may fail, the process restart, the clock be set back, a manual backup or a
restore take the lock.

Assumed: a run takes less than the fifteen minutes between wakes. Left out: file
contents (a restore validates them, see `RestoreDb`), the device's name (its serial
number is what counts).

### BorrowRequests, LanSubmission and LanServer

Each operation of `BorrowRequests` is one `BEGIN IMMEDIATE` transaction and
therefore one step, except the historical import: its preview is answered by a
user, classified outside the transaction, then applied. `claims` is
`asset_pending_claims`, `loan` the active row of `asset_loans` per asset, `history`
the employees that closed loans keep from being deleted. `Register` and
`ImportOwned`, the wizard's import of an asset with its owner, are there since they write
assets and loans.

`LanSubmission` extends it with the handler of a submission (`Arrive`,
`CheckAndRecord`, `Accept`, `Refuse`): validation in one transaction, the replay cache,
submission in a second one. `Click` gives a request id to what a page showed at some
earlier time; a page or the network may deliver it any number of times until
`Forget`, five minutes after the cache recorded it.

`LanServer` is `LanServerManager`: `lifecycle` and `slot` are its two mutexes'
contents, `listener[k]` the task of the `k`-th listener, which may end by itself
(`ServeReturns`, `ServeRevokes`) or be aborted at any await. `Begin` actions are the
commands' entries, `Locking` the awaited lock, `Continue` the rest.

Left out: locations; asset kinds other than serialized ones; statuses `retired`,
`disposed`, `lost`, which no code sets; the approved requests an import writes for its own
loans (its loans name request 0); two rows for one asset in one workbook; rate limits
and the catalogue that the server lists; typed names and signatures beyond valid or not.

### SessionStore

`op[t]` is a login, a command or a recovery of thread `t`. A login takes the in-flight
slot of the name as typed, checks its lockout, verifies, records or clears failures, loads
the role, issues. A command resolves its session, commits, and then invalidates sessions:
the three are steps, as in `lib.rs`. A recovery (`forgot_local_account_password_conn`) needs no
session and no slot: it checks the lockout, matches a code or records a failure, commits the new
password (`BurnCode`), appends to the ledger, and only then unlocks and invalidates;
`AppendBurnFails` is its return with the ledger's error. `Replace` puts another database in
place (restore, move, reset).

Counters, lockouts and slots go by the trimmed, lower-case name as it was typed
(`auth_session.rs:484`), the account by what `normalize_local_account_username` leaves of that
name (`auth.rs:1407`): `AccountOf` is this mapping and `UserName` the stored name, under which
commands unlock and the sole super administrator is exempt. A full map may be pruned at any
failure (`RecordFailure`). Time is a lockout that elapses.

History: `guesses` counts the wrong passwords of logins under a name since it was locked or
cleared; a session is `raced` if its account was changed while its login was under way, and
`spared` if a recovery set another password and failed before it ended the session. Left out:
the change of a username, an account deleted while its legacy code is burnt, password rules,
hints, hashing, the interface's remembered login.

### AssetSheet, AssetImport

A sheet is a sequence of rows of cells, a header cell its normalised key; of aliases that
act alike one is kept. `Parsed` is what staging makes of a workbook, `Route` what
the detector makes of it. `AssetImport` stages, edits, skips, imports and deletes batches
while the registry, the categories, the stock and the employees change. A preview
and a direct import stage a batch in one transaction and delete it in another. `EditRow` edits
the cells that validation or an import reads.

Left out: generation of codes, descriptions, dashboards, most metadata columns (one stands
for them).

### StaffDirectory

An employee has a group, a life-cycle state, an email, an account, a first and a second
machine. `ImportExcel` reads the sheets of a workbook row by row, matching each against
what the rows before it wrote. `Fetch`, `StorePreview`, `ApplySync` are the synchronisation:
the fetch is the network part, the preview is kept in memory, and apply fetches
again, copies the preview under its lock (`TakePreview`), and writes later. `Stem` is a
machine's name without its prefix "ASW" (`same_computer_name`). `SourcesOK` says that the query returns a staff code once. The loops over rows and
sheets (`ImportSheet`, `ImportSheets`, `SyncRows`) are recursive functions of their position.

Left out: teams, dynamic columns, searches, the connection to the SQL server except that
a new login drops previews.

## 3. Runs

| Run | Question | Instance | Distinct states |
|---|---|---|---|
| `ledger_serial` | One command at a time with crashes anywhere: do ledger and database stay together, does it look like atomic steps, does a burn reach the ledger in the end? | 1 account, 2 codes, 2 batches, 5 commands, 2 crashes | 605 534 |
| `ledger_threads` | What survives any interleaving, torn appends and a USB drive that comes and goes? | 1 account, 2 threads, 3 commands, 1 batch, 1 crash | 1 267 398 |
| `restores` | Is a restore or a revert all or nothing at every crash point, which writes survive it, does the program come up? | 2 threads, 3 commands, 2 crashes, every fault, Windows | 428 080 |
| `database_home` | Are upgrades, moves and resets whole, and do commands work on the right database? | 2 threads, 3 starting pairs of databases, 3 events of which 2 mishaps | 1 647 426 |
| `upgrade_columns` | Does an upgraded database have every column? (no) | 1 start | stops |
| `backups` | Is the protection status true, and does the schedule go on? | interval 2, fresh 2, retention 3 wakes, retries after 1, 1, 2 | 1 208 432 |
| `borrow_requests` | Do statuses, loans, claims, requests and employees agree whatever the order? | 2 assets, 2 employees, 2 requests, 1 row per workbook | 1 806 693 |
| `lan_submission` | Is a request made once, and on the current policy? | 2 handlers, 2 request ids, 3 requests, 2 policies | 848 778 |
| `lan_server` | Is a disabled server stopped, and does a token die with its server? | 3 tasks, 2 listeners per process | 51 570 |
| `sessions` | Do sessions and lockouts follow the accounts? | 2 accounts, 3 names as typed, 2 threads, 5 logins, commands or recoveries | 6 008 739 |
| `assets` | Are rows imported once, to the right people? | 6 workbooks, 1 batch, 1 edit, 2 people | 381 780 |
| `employees` | Do imports and synchronisations find the right person and overwrite nothing unseen? | 2 staff codes, 6 workbooks, 3 sources, 2 fetches, 2 edits | 1 356 612 |

**Bounds.** Each is a constant named in a guard (`MaxCommands`, `MaxCrashes`,
`MaxBatches`, `MaxRequests`, `MaxSheet`, `MaxEvents`, `MaxMishaps`, `MaxStarts`,
`MaxPolicy`, `MaxBegun`, `MaxEdits`, `MaxMade`, `MaxPreviews`, `MaxSnapshots`,
`MaxSetBacks`). Why they are enough:

* *Ledger.* Five commands are an activation, burns, a second batch and its burns; two
  crashes put one into the reconciler of the other. Three commands of two threads give
  the fork, the stolen journal entry and the double match.
* *Restores.* A restore, a second one that meets its leftovers, and a writer; two
  crashes put one into the recovery of the other. The quota of snapshots (4)
  is above what three commands make: at the quota the code fails, see section 4.
* *Home.* The starting pairs are a new installation beside a recent shared database, a
  recent one beside an old one, and an unencrypted old one. An event is a command or a
  mishap: move and write and crash, two moves and a loss of the folder, and so on.
  The steps of one start are not bounded by it.
* *Backups.* Intervals are the smallest that keep the code's order interval <= fresh,
  fresh and an interval more within retention, and each retry delay <= interval (6 h, 7 h,
  30 days; 15 min, 1 h, 3 h); ages beyond all of them are one age.
* *Lending.* Two requests, two assets and two employees make every pair of conflicting
  operations. `lan_submission` needs three requests: an original, the competitor
  and the copy.
* *Server.* Three tasks: two commands that overlap and one that reads what they left.
* *Sessions.* Five operations: two logins whose sessions act, two changes of which one meets
  a login or a recovery, and one that meets what they left; or the logins that bring a counter to
  its threshold, overlap at it, and are tried again. Two of the three names lead to one account.
  The failure counter saturates where it makes no difference.
* *Assets.* One batch of two rows is staged, edited or skipped, imported, and imported
  again. *Employees.* The code keeps four previews; one shows the same race between
  a preview, what happens after it, and its eviction.

Deadlock is checked except where a run that has used up its commands may stop.

**Symmetry** is used where only invariants and step properties are checked: accounts,
codes, threads, assets, employees, handlers and request ids are interchangeable
where the cfg says so.

**Fairness.**

* `RecoveryLedger!FairSpec`: weak fairness of each thread's `Step` (a thread the
  operating system keeps scheduling), of `Start` and of `Reconcile` (`setup()` runs
  through). `RestoreDb!FairSpec`: the same for its threads and `Start`. Beginning a
  command, a USB drive and a crash are not fair. Nobody forces a user to open the
  program again; the liveness properties say what happens if he does.
* `LanServer!LanFairSpec`: weak fairness of `Continue` and `ServeRevokes` (tokio polls a
  ready task), strong fairness of `Locking`: its mutex serves in the order of asking.
* `AutoBackup!Spec`: time passes (`Tick`), the scheduler's task runs (`Run`), and
  another job gives the lock back (`OtherLeaves`, its guard is dropped on every path).

**The properties** stand at the end of their modules, each with what it says in words.
In short:

* Ledger: `LedgerVerifies` and `RecordedOnce` (one command at a time) say that the file
  verifies and the reconciler repeats nothing. `NoPhantomRecords`, `RowBurnedOnce`,
  `MirrorIsPrefix` hold for any interleaving: the ledger never runs ahead of the
  database, one transaction consumes a row, the mirror never diverges.
  `KeepsPromise` is the refinement: the record of the promise is the ledger
  *and* the block that the journal on disk makes the next start append, which turns a
  transaction and a later append into one atomic step. `BurnsGetRecorded` (liveness): a
  consumed code reaches the ledger, or its row is replaced or revoked.
* Restores: `NeverBlank`, `WritesKept`, `AllOrNothing`, `ComesUp` for commands one after
  another with crashes anywhere, `QuietWritesKept` for overlapping ones.
* Home: `UpgradesAreWhole`, `UpgradesKeepTheOld` (a repeated, interrupted upgrade),
  `FreshCommandsFollow` (caches and the pool against moves), `NothingDestroyed` (commands one
  after another), `TrailIsComplete` (while both folders can be reached). A stamped database is
  whole except for two things, which `UpgradesAreWhole` names: the columns of `Signing`, and a
  search index that is empty because a start ended between making and filling one.
* Backups: `ProtectedIsTrue` and `NothingMissing` (what the status claims is on the
  disks), `BackupsGoOn` (liveness).
* Lending: `LoansMatchStatus`, `ClaimsArePending`, `ReferencesResolve`,
  `NoSilentTakeover`; `OncePerWindow`, `EvidenceIsCurrent` for the LAN.
* Server: `NoOrphanListener`, `TokensDieWithTheirServer`, `NoStrayRevocation`,
  `StopsFinish` (liveness).
* Accounts: `SuperAdminRemains`; `SessionsAreCurrent`, whose two exceptions are the sessions
  called `raced` and `spared` above; `GuessesAreBounded`, for each name as typed.
* Assets: `StockedOnce`, `RoutedFilesParse`, `ImportsIdentify`, `OwnersAreCurrent`.
* Employees: `SyncOverwritesNothingUnseen`, `SyncSettles`, `ImportsFindThePerson`.

`LoansTraceable`, `ClaimsReserve`, `BrokenStaysBroken` and some of the type invariants
(`BorrowRequests!TypeOK`, `AuthTypeOK`, ...) are in no run's cfg: they are theorems
(section 5), or hold on the runs' instances and state the types a proof starts from.

Every property of a passing run has a mutant in `PROJECT.json`: a plausible bug
in a definition (a forgotten test, an off-by-one, a missing reset) under which
TLC finds that property violated. A mutant's operator stands before the
definition it replaces and is marked as such.

## 4. What the models show about the code

### A disagreement with a comment

`upgrade_columns`: `ensure_phase_c_borrow_schema_inner` adds `signature_status`,
`imported_at` and `handover_date` to `borrow_requests` and then rebuilds the table
without them (`db/mod.rs:1255`). The version is stamped, and later starts take
the path that `db/mod.rs:549` calls up to date. The historical import writes these
columns (`db/historical_assignment_import.rs:1171`), so it fails there for good.

### Where a stronger property fails

These are the reasons why properties above have the conditions they have. Each was
found, or confirmed, with TLC by leaving out the condition.

*Recovery ledger.*
* Two overlapping commands open at the same length and both append the same number
  (`ledger.rs:163`, against `ledger.rs:4`): `LedgerVerifies` fails under
  `ledger_threads.cfg`. The damage is for good (theorem `DamageIsPermanent`), and the
  gate denies recovery from then on.
* An append that fails after the COMMIT leaves the batch active and pending
  (`activation.rs:257`); confirming it again makes used codes fresh, against
  `daily_log.md:63`.
* The reconciler accepts any block at a burn's target number as the burn's own
  (`reconciler.rs:86`, against `:67`): with two threads a burn is lost in a crash.
* A revocation has no journal entry (`activation.rs:305`): a crash after its COMMIT
  loses its block. Two threads can use one legacy code twice. A crash between append and
  sync leaves the mirror behind, and the gate denies until the next sync.

*Restore.*
* `database_status` runs the startup recovery without the restore's lock
  (`db/mod.rs:156`) and may take `orig_bak` away from a restore that is not yet
  verified (`db/backup.rs:663` promises the original). Together with a failing
  verification quiet writes are lost too. Nor does it have to take a step during the
  restore: one that found the database damaged, and pauses until that restore has been
  undone and another one has succeeded, removes what the other one installed. This
  needs five commands, more than the run has; the proof of `QuietWrites` did not go
  through until `QuietWritesKept` excluded it.
* The restore flag is tested before the file is opened (`db/mod.rs:256`): a late open
  creates a blank file where the database was, and after a stop the recovery finds it
  healthy and deletes the original (against `daily_log.md:4191`).
* `restore_history_snapshot` validates its source, then takes a safety snapshot whose
  pruning may delete that source at the quota (`db/backup.rs:957`, `:529`, `:1985`). The
  restore then installs an empty database and reports success (against `:928`).

*Upgrade, move and reset.*
* A crash between the creation of the search table and its backfill leaves the index
  empty: the next start finds its columns right and does not fill it (`db/mod.rs:1614`,
  `:1647`), and the employee search uses it (`db/employee.rs:922`). `"unfilled" \in strain`
  marks that such a start happened; TLC finds the empty index without it. A leftover `.sqlite3.encrypting` makes every later
  encryption fail (`:485`), so the program does not open. Every failing start takes one
  more snapshot; ten of them push out the one from before the upgrade. The upgrade drops
  `assets.computer_name` and overwrites names and prefixes of the seeded categories.
* `move_database_to` resolves the path before it takes the lock, and a checkpoint that
  a busy log refuses is no error: with overlapping commands writes stay behind
  (against `daily_log.md:4194`). A crash between rename and setting leaves a copy that a retry
  takes over as it is; so does moving back to the old folder. A database
  taken over is not upgraded before the next start.
* A folder that cannot be reached means the default folder, silently (`db/mod.rs:396`),
  and stays cached until something invalidates it; the same for a torn
  `db_settings.json`, which also makes later moves fail. Recovery ledger, journal
  and migration sidecar do not move.
* `reset_all_data` fails while loans or requests refer to employees, and takes its
  snapshot without the maintenance check.
* The audit journal has no lock: two events at once fork it, two creations lose one
  event, a torn append makes it unverifiable for ever, and its errors are ignored.

*Backups.*
* A newly registered device keeps the date and the SUCCESS of the old one
  (`db/backup.rs:128`): "Protected" without a copy on it, against `daily_log.md:463`. After
  a pause a retry copies an old file and dates it now. `strayed` excludes both.
* A clock set back by an interval or more (`~ClockNearlyRight`) can make "Protected" false:
  a retry dates the device now, the clock goes back, the next backup reaches the device but
  the program stops before it is dated; the old date then passes as fresh for too long.
* A clock that was set back stops backups until it has caught up. The catch-up ignores its
  errors and leaves its temporary file; the local copy is pruned though
  no device received it. Snapshots whose label has a word like "import" are pruned
  with the automatic ones.

*Lending and the server.*
* Of two return requests for one loan, the second, approved after the asset was lent
  again, ends the new loan (`db/borrow.rs:1310`, against `:737` and
  `sec002-lan-borrow-security-plan.md:31`). A confirmed transfer closes whoever holds the asset
  when it is applied. An approval does not test the Offboarding group again. An import
  ignores claims, so that a pending request can become impossible to approve.
* A request id is recorded before the submission is committed (`lan_server.rs:815`): if
  it fails, sending it again is refused as a copy.
* An update that fails between writing the setting and stopping leaves a disabled server
  running (`unstopped`).

*Accounts.*
* A login that overlaps a role change keeps the old role in its session (`raced`).
* A recovery commits the new password, then appends to the ledger; if that fails it returns
  the error (`db/auth.rs:1058`) before it unlocks and invalidates, and the sessions of the old
  password stay (`spared`). A legacy recovery ignores the ledger's errors (`:1144`).
* Spellings of one name that differ in characters no username has lead to one account
  (`db/auth.rs:1407`) and have a counter, a lockout and a slot each (`auth_session.rs:484`), also
  against the sole super administrator's exemption: `GuessesAreBounded` holds for a spelling, not
  for an account. Recoveries count in the same counter, but take no slot. The wrong current
  password of a password change is recorded in the audit table only (`db/auth.rs:607`):
  it is the `Refuse` of that command, and no guess of the property.

*Assets and employees.*
* The metadata re-import applies what was read at its preview. A direct import of
  quantities that is repeated doubles the stock, and one that fails leaves its batch. A
  StaffID of digits alone may stand for several people.
* Importing the same file with two machines of one employee twice loses the first; the
  laptop shown for a borrower is stored as his own (against
  `docs/superpowers/plans/2026-04-06-owner-aware-asset-import.md:348`). The preview of the import
  differs from the import; `create_employee` overwrites an existing employee; an exchange of
  two emails is never applied (UNIQUE); a forced group leaves life cycle and floating
  state as they were. A workbook with two rows of one new code, the first without an email,
  makes a second employee for a known person: the second row is found by its code and then
  refused for its email (`db/import.rs:358`). `ImportsFindThePerson` therefore asks that
  the rows of a new code name one email: the proof did not go through without, and the run's
  instance has such a workbook, with which TLC then finds it violated.

## 5. Proofs

All theorems hold for all values of the constants, under the modules' named
assumptions (`ConstantsOK`, `BorrowConstantsOK`, `HomeConstantsOK`, `LanConstantsOK`,
`SubmissionConstantsOK`, `SessionConstantsOK`, `TimesOK`, `AssetConstantsOK`, `CellsOK`,
`SourcesOK`, `StemsOK`, `FormsOK`, `WorkbooksOK`, `DirectoriesOK`, `WorkbooksAreSheets`: the
null values are outside the sets, bounds are naturals, kinds and faults are among those
named, periods are in the code's order, the cells of the workbooks are among those named, a source
has a staff code once, a first directory has no email twice, a workbook is a sequence of sheets,
any of which may be asked for). Beyond these only four groups of theorems have a hypothesis. `[]BelowQuota`:
`NothingPruned` says when it holds; the refinement needs `[]Orderly` too, which
`AlwaysServable` and its like have in the property itself. `OneAtATime`: there is one command thread and
appends neither fail nor tear; with two threads, or after a failed append, the theorems
are false (section 4), every other fault and a crash between any two steps are allowed.
`ClockNearlyRight`: the computer's clock is set back by less than an interval in all
(section 4, *Backups*). `RowsToStage`: below the header of the sheet that a workbook is routed
to there is a row that is not empty; a sheet of headers alone is routed as well and has
nothing to stage. All workbooks of the run satisfy it.

| Theorem | States | Inductive invariant |
|---|---|---|
| `TypeCorrect` | `Spec => []TypeOK` | `TypeInv` |
| `NoPhantoms` | `Spec => []NoPhantomRecords` | `RecordInv` |
| `RowsBurnedOnce` | `Spec => RowBurnedOnce` | `BurnInv` |
| `DamageIsPermanent` | `Spec => BrokenStaysBroken` | `TypeInv` |
| `MirrorNeverDiverges` | `Spec => []MirrorIsPrefix` | `MirrorInv` |
| `LedgerAlwaysVerifies`, `BlocksRecordedOnce` | `OneAtATime /\ Spec => []LedgerVerifies`, `[]RecordedOnce` | `RecoveryInvariant!SerialInv` (`SerialOnes`) |
| `PromiseKept` | `OneAtATime /\ Spec => KeepsPromise`, that is `RecoveryPromise!Spec` | `RecoveryInvariant!SerialInv` |
| `BorrowTypes` | `BorrowSpec => []TypeOK` | `BorrowInv` |
| `StatusAgrees`, `ClaimsExact`, `ClaimsHold`, `NothingDangles`, `LoansFollowRequests` | the five invariants | `BorrowInv` |
| `TakeoversConfirmed` | `BorrowSpec => NoSilentTakeover` | `BorrowInv` |
| `LanImplementsBorrow` | `SubmissionSpec => BorrowSpec` | `SubmissionInv` |
| `CommittedOnce`, `CurrentEvidence` | `OncePerWindow`, `EvidenceIsCurrent` | `SubmissionInv` |
| `LanTypes`, `NoOrphans`, `TokensDie`, `NoStrayRevocations` | the types and three properties of `LanServer` | `LanInv` |
| `AuthTypes`, `SuperRemains` | `AuthSpec => []AuthTypeOK`, `[]SuperAdminRemains` | they are inductive themselves |
| `CurrentSessions` | `AuthSpec => []SessionsAreCurrent` | `CurrentInv` |
| `BoundedGuesses` | `AuthSpec => []GuessesAreBounded` | `GuessInv` |
| `RestoreTypes` | `RestoreDb!Spec => []TypeOK` | `TypeInv` |
| `QuietWrites` | `Spec /\ []BelowQuota => []QuietWritesKept` | `QuietInv` |
| `AlwaysServable`, `WritesAreKept`, `RestoreIsAtomic` | `Spec /\ []BelowQuota => []NeverBlank`, `[]WritesKept`, `AllOrNothing` | `OrderInv` |
| `RestorePromiseKept` | `Spec /\ []Orderly /\ []BelowQuota => Promise!Spec`, of `DatabasePromise` | `OrderInv`, `FoundIsSaved` |
| `NothingPruned` | `MaxCommands < Quota => (Spec => []BelowQuota)` | `Numbered` |
| `HomeTypes` | types and places of `DatabaseHome` | `TypeInv` |
| `StampsAreTrue` | `Spec => []UpgradesAreWhole` | `UpgradeInv` (`UpgradesHold`), `IndexInv` (`IndexHolds`) |
| `OldAccountsSurvive` | `Spec => []UpgradesKeepTheOld` | `UpgradeInv` |
| `TrailHolds` | `Spec => []TrailIsComplete` | `TrailInv` |
| `FreshOnesFollow` | `Spec => FreshCommandsFollow` | `PathInv` (`PathsHold`) |
| `NothingIsDestroyed` | `Spec => []NothingDestroyed` | `SerialInv` (`SerialHolds`) |
| `BackupTypes` | `AutoBackup!Spec => []AutoTypeOK` | `TypeInv` |
| `ProtectedMeansProtected` | `ClockNearlyRight /\ Spec => []ProtectedIsTrue` | `ProtectInv` |
| `StatusTellsMissing` | `Spec => []NothingMissing` | `MissingInv` |
| `AssetTypes`, `RowsStockedOnce` | `AssetsSpec => []AssetTypeOK`, `[]StockedOnce` | `Inv` |
| `ImportedAreIdentified`, `ImportsGoToCurrentOwners` | `AssetsSpec => ImportsIdentify`, `OwnersAreCurrent` | `Inv` |
| `RoutesAreReadable` | `RowsToStage => (AssetsSpec => []RoutedFilesParse)` | none: a statement about workbooks |
| `DirectoryTypes` | `DirectorySpec => []DirectoryTypeOK` | `TypeInv` |
| `SyncOverwritesOnlyTheSeen`, `SyncSettlesTheList`, `ImportsKeepPersonsApart` | `DirectorySpec => SyncOverwritesNothingUnseen`, `SyncSettles`, `ImportsFindThePerson` | `TypeInv` |

Why the strengthenings are needed:

* `TypeInv` adds to `TypeOK` what a command's fields hold at each step
  (`CommandShape`) and what a journal entry of each kind names (`EntryShape`);
  without them an append could be of an event with no type.
* `RecordInv`: a block is harmless if its event is committed, and the event is
  taken from a command or from the journal. So whoever is about to append has
  its transaction behind it (`ThreadsExplained`, `BootExplained`). For the
  reconciler this needs that what it *finds* in the database has a committed
  event (`RowsExplained`), whichever thread's entry the journal holds.
* `BurnInv`: a burn that committed left its row consumed, for as long as the row
  exists, and row ids are not reused (`BurnsMarked`, with `gen < nextGen`).
* `MirrorInv`: copying takes a ledger that only grows. It grows only if nobody
  creates it anew over its blocks or appends where there is no file, so a
  command that holds an open ledger implies that the file exists.
* `SerialInv` of the ledger: what a command has opened is the ledger as it is, what it is about
  to commit is not committed and what it is about to append is not there (`Informed`), which
  for an activation needs that a batch still pending was never activated (`PendingNew`).
  The committed events name batches once generated, rows of the batch's own insertion
  and legacy codes that are gone (`CommittedSound`). A block is owed, that is committed
  and journalled but not in the ledger, only from a command's transaction to its
  append or until the next start (`Debts`), and nothing replaces the rows in between
  (`TookEffect`). `TargetReached` is what lets the reconciler take a burn as recorded once
  the ledger is long enough.
* `BorrowInv`: the five invariants are preserved only together. A claim reserves
  an asset because it belongs to a pending request, and a deletion spares the
  request of a loan because the loan and the request name the same employee
  (`BorrowersBorrow`); `TransfersConfirmed` says that a row classified as a
  transfer was confirmed.

* `SubmissionInv`: an id that was committed within its window is in the cache
  (`RecentAreSeen`), and a handler that has recorded an id is the first to do so since
  the entry was made (`RecordedAreFirst`): it will be the only one to commit it.
* `LanInv`: who holds the lifecycle lock holds it alone (`OneHolder`); between taking the
  server out of the slot and aborting it the slot is empty (`StopsEmptyTheSlot`); a live
  listener is in the slot or in the hand of that stop (`LiveOnesAreHeld`). A disabled
  server is stopped, has its stop before it, or the update failed (`DisabledIsStopped`); the
  token belongs to the server in the slot unless a stop is about to revoke it
  (`TokenOfTheSlot`).
* `CurrentInv`: an outdated session is one whose account a command or a recovery is about to
  reach, or one that a recovery spared (`SessionsHeld`), and a login that is about to issue read its account as it is or
  knows that it overlapped a change (`LoginsHeld`).
* `GuessInv`: a name as typed has one login at a time (`OneLogin`), its counter counts the
  passwords tried but for the one in hand (`GuessesAreCounted`), and one that passed
  the check has room for one more (`RoomToGuess`). This needs the exempt sole super
  administrator to be told apart, and a policy that may change in between; a recovery's failure
  only brings the counter further.

* `TypeInv` of `RestoreDb` adds who may run beside whom (`SetupAlone`) and that a
  connection is to a sound file that is not the staged one (`Connections`): this is why a
  damaged database can always be removed, on every platform.
* `QuietInv`: each place of a restore (`RestoreKnows`) and of the recovery
  (`RecoveryKnows`) knows something of the files. A damaged database has its original beside
  it for as long as it is there (`OriginalBeside`), and only setup() removes one. From the
  safety snapshot on a restore has every quiet write in a snapshot, and none is added
  during it (`CalmConnections`). The recovery brings `orig_bak` back only over a
  database that holds nothing and that nobody is about to write to (`Barren`): a late open may
  have created a blank one there, whose writers fail because it has no tables.
* `OrderInv`: with one command at a time the same is said exactly: which file holds
  the database that the restore found, and which the chosen one (`Placed`), and where
  no second database exists (`BackupGone`). Source and choice are the same because the
  snapshots' ids differ (`SnapshotsSound`).
* `BelowQuota`, fewer safety snapshots than are kept, is a hypothesis since without it
  these properties are false (section 4). `NothingPruned` derives it from the bounds, as the
  run's constants have it: no two snapshots have one command's number (`Numbered`), so there
  are no more of them than commands.

* `UpgradeInv`: a start may stop after any step, so what a database lacks is always among
  the steps to come (`WholeInTheEnd`), and these are in an order that works (`Ordered`):
  the stamp is the last step but for one, relations are enforced again after they were
  relaxed. Dropping old values is safe since they are copied or still to be
  (`Copied`), and the old database is in a snapshot before the first step (`KeepsOld`,
  `SavedOld`). A list of steps is reasoned about by what it has, what comes after
  what and what never does (`Occurs`, `Before`, `NoneAfter`); `Joined` says how these pass to
  a concatenation.
* `IndexInv`: what the index of the database under upgrade lacks is among the steps to come,
  its making before its filling (`IndexUnderway`); an empty one is about to be filled or was
  left by a start that ended just then (`FilledOnes`); no stamped one is missing, old or without
  triggers (`IndexedOnes`). It is inductive only beside `UpgradeInv`.
* `TrailInv`: each journal that a command concerns has its event, or the command has still
  to write to it, as long as the shared folder was never lost.
* `PathInv`: nothing is dated ahead of the pool's generation (`LinksDated`, `Dated`), one
  move runs at a time (`Locked`), and everything cached, looked up or opened in the
  generation of a command that began with no move running is what the setting names
  (`Following`). What an interrupted move leaves behind is of an older generation.
* `SerialInv`: with one command at a time, each place of a reset and of a move knows where
  else the writes are that it is about to remove (`ResetKnows`, `MoveKnows`), and that it
  works on the database of the cached path (`Steady`). A missing file holds nothing
  (`NoFileIsEmpty`), so a connection that creates one hides nothing.

* `ProtectInv`: the fresh date in the settings has a backup in the directory that is no
  older (`DateIsTrue`), that of the device one that was not yet due when it was copied or is
  the last that a paused schedule made (`DeviceDateIsTrue`). Between the copy and its date a
  run has such a file in hand (`RunCopies`): a new one, or, for a retry, the newest, which is
  recent since a backup would have been due otherwise (`RunKnows`). Pruning spares all
  of these because fresh and an interval more is within retention.
* `MissingInv`: when a catch-up has run to its end nothing is unsent until the run dates the
  device; a backup made later is younger than that date as long as dates do not lie in the
  future, which `TypeInv` says of a clock never set back (`Floor`).

* `Inv` of `AssetImport`: the row that stock was made from stays marked as imported until its
  batch is deleted (`MarkedInv`), since no edit, skip, validation or import touches a marked row
  (`KeepsRow`, proved of every step); so an import, which takes rows that are not marked,
  never meets one that is stock. Categories keep the kind of what is in them (`KindInv`)
  because only an unused one may change it. What an import makes is derived from its own
  validation: a row it takes is "new" (`TakenRows`), hence differs in code and serial
  number from every asset and from every other row it takes (`TakenDiffer`).

* `TypeInv` of `StaffDirectory`: no two employees share an email (`Dirs`), and a preview's
  rows are a source that was fetched.

The theorems of `StaffDirectory` are about loops: what a row keeps, the whole workbook keeps
(`SheetKeeps`, `SheetsKeep`, `ImportKeeps`), and what a synchronisation wrote after n rows
(`AfterRows`, `SyncEffect`). `UpTo` is the induction, from the fact that the natural numbers are
well-founded, and `Results` says that the recursive functions exist. An import keeps apart whom
it knows (`ImportFinds`) because the new employee has the email of his rows from the first one
on, which the index then denies to everybody else, or, when emails are not imported, because
the known one keeps his and is found by it.

`RoutesAreReadable` has two pieces of code agree that were written apart. The detector asks
whether a header row has the aliases of an import, the import assigns headers to fields,
one after another. That assignment is a recursive function: what has been assigned keeps its
field (`AssignKeeps`, `HeadersAssigned`), and each field gets the first header that has one of
its aliases (`DetectsHeaders`), so evidence for a kind is a column for each field it requires
(`EvidenceMaps`). Then the header row has a score, the import's search for one finds it,
and finds it first on the sheet that it was sent to (`EvidentSheets`, `RoutesHaveEvidence`).

`RestorePromiseKept` is a refinement. `DatabasePromise` has one database: it is written to, saved,
and exchanged as a whole for the backup or for one saved before, provided that it is itself saved
or the backup. It is mapped to the database that a start would choose (`Recoverable`), wherever it
lies, and the saved ones to the safety snapshots. A commit is then a write (`UsePromise`), the
safety snapshot a save (`SnapshotSavesIt`), and each later step of a restore an
exchange or nothing, since before and after it the user's database is the one found or the one
chosen (`FoundOrChosen`) and both are saved or the backup (`FoundIsSaved`, `ChoiceSound`). The
recovery is nothing at all (`RecoverFits`), nor is a crash. That the steps come in an order that
loses nothing is `OrderInv`, which both ends of a step need.

`PromiseKept` is a refinement too: the promise's log is the ledger and the block that is owed, so a
transaction is the promise's step (`ActivatesOnce`, `UsesOnce`, `RevokesOnly`), the append that
follows it, by the command or by the reconciler, is none (`RecordPaid`), and all else
leaves the log alone (`LogSteps`). `LanImplementsBorrow` is one too: of the handler's steps `Accept` is a submission
of `BorrowRequests` and the others leave its variables alone, so what is proved
of `BorrowSpec` holds of requests that come over the network; the window and the
evidence are proved from `BorrowInv` and it. `DamageIsPermanent` rests on `ExtendKeepsBroken`: no append, through whichever
handle, makes a broken chain verify. The five invariants of lending have
one lemma per operation. The mirror's proof has one lemma per file: what may happen
to the ledger (`LedgerSteps`), to the mirror (`MirrorSteps`) and who comes to hold
an open ledger (`HolderSteps`, `BootHolds`).

Only model-checked:

* Liveness (`BurnsGetRecorded`, `ComesUp`, `StopsFinish`, `BackupsGoOn`): with
  fairness and ENABLED it is beyond the prover.
## 6. Plan and what is not modelled

Every property a run checks is proved but for those listed above. Next would be an abstract
specification of the protection by backups for `AutoBackup` to implement, an abstract lending
desk for `BorrowRequests`, and more of the historical import.

Not modelled:

* Key derivation and hashing: pure computation. The audit log table: inserts inside the
  transactions of others, and queries.
* The normalisation of staff groups and of security-tool values during an upgrade; teams,
  dynamic columns, search, listings and dashboards: single transactions that
  nothing else here depends on.
* The settings of the SQL server connection and its saved passwords, except that a new
  login drops previews. (Saving commits the new login before the old password is
  deleted.)
* The signing of an imported loan, locations, rate limits.
* The interface, whose state does not outlive its window; the separate web application,
  which the desktop program does not use; build tooling and documents.
