------------------------------- MODULE RestoreDb -------------------------------
(***************************************************************************)
(* Replacing the live database by a backup: the restore command, the       *)
(* startup recovery of an interrupted restore (which the status command    *)
(* runs too), commands that open the database and write to it, and a crash *)
(* at any point.                                                           *)
(*                                                                         *)
(* A thread th[t] performs one file-system call or one test of a file per  *)
(* step.  A database is abstracted to where it came from and which         *)
(* commands' writes it holds; its -wal and -shm files follow it.           *)
(***************************************************************************)
EXTENDS Integers, Sequences

CONSTANTS
  Threads,        \* command threads running at the same time
  Commands,       \* which kinds of command the run lets start
  Faults,         \* which failures the run lets happen
  OpenFilesMove,  \* the platform renames and removes files that are open
  Quota,          \* HISTORY_RETENTION_RESTORE, safety snapshots of restores kept
  MaxCommands,    \* bound: commands started
  MaxCrashes      \* bound: crashes

CommandKinds == {"status", "write", "restore", "revert"}
\* "snapshot": the safety snapshot fails.  "stage": copying the backup fails.
\* "rename": the database or the staged file cannot be renamed.  "damage": the
\* swapped file is unreadable.  "verify": its verification fails though it is
\* sound (busy, I/O).  "rollback": the rename that undoes a restore fails.
FaultKinds == {"snapshot", "stage", "rename", "damage", "verify", "rollback"}

ASSUME ConstantsOK ==
  /\ Commands \subseteq CommandKinds
  /\ Faults \subseteq FaultKinds
  /\ OpenFilesMove \in BOOLEAN
  /\ Quota \in Nat \ {0}
  /\ MaxCommands \in Nat /\ MaxCrashes \in Nat

VARIABLES
  disk,       \* the database, orig_bak, .restoring, by Place
  snaps,      \* safety snapshots of restores, oldest first
  restoring,  \* RESTORE_IN_PROGRESS (always set together with the backup lock)
  app,        \* the process: "down", "booting" (inside setup) or "up"
  ready,      \* DB_READY holds Ok
  th,         \* what each thread is doing
  conn,       \* the place of the file a thread holds a connection to
  atStart,    \* history: the database when the restore lock was last taken
  acked,      \* history: writes whose COMMIT returned
  quiet,      \* history: those that saw no restore while connected
  calm,       \* history: connected threads that have seen no restore
  strain,     \* history: what has happened beyond one command after another
  begun, crashes

files == <<disk, snaps, conn>>
ghosts == <<atStart, acked, quiet, calm>>
history == <<ghosts, strain>>
process == <<restoring, app, ready>>
vars == <<files, process, th, history, begun, crashes>>

Places == {"db", "bak", "stage"}
Writes == 1..MaxCommands
Content == [state : {"missing", "damaged", "good"},
            base : {"none", "blank", "fresh", "installed", "backup"}, writes : SUBSET Writes]

Missing   == [state |-> "missing", base |-> "none", writes |-> {}]
Damaged   == [state |-> "damaged", base |-> "none", writes |-> {}]
Blank     == [state |-> "good", base |-> "blank", writes |-> {}]
Installed == [state |-> "good", base |-> "installed", writes |-> {}]
Backup    == [state |-> "good", base |-> "backup", writes |-> {}]

Snapshots == {snaps[i] : i \in DOMAIN snaps}

Exists(p)  == disk[p].state # "missing"
Healthy(p) == disk[p].state = "good"

RecoveryPCs == {"look", "judge", "health", "judgeBoth", "judgeBak", "removeDb",
                "bringBack", "dropBak", "dropStage"}
RestorePCs  == {"snapshot", "restage", "fill", "clear", "preserve", "swap", "undo",
                "unstage", "verify", "discard", "rollback", "reopen", "cleanup", "return"}
PCs == {"idle", "lock", "check", "connect", "commit"} \cup RecoveryPCs \cup RestorePCs

Idle == [pc |-> "idle", task |-> "none", id |-> 0, existed |-> FALSE, ok |-> FALSE,
         from |-> 0, chosen |-> Missing]

At(t, pc)   == th[t].pc = pc
Goto(t, pc) == th' = [th EXCEPT ![t].pc = pc]
Done(t)     == th' = [th EXCEPT ![t] = Idle]
\* The restore is about to return; the guard drops the flag as it does.
Return(t, ok) == th' = [th EXCEPT ![t].pc = "return", ![t].ok = ok]

-----------------------------------------------------------------------------
(* Files. *)

\* An open file can be renamed or removed, and keeps its connections, only where
\* the platform allows it.  The staged copy is open while it is filled.
Movable(p) == \/ OpenFilesMove
              \/ /\ \A t \in Threads : conn[t] # p
                 /\ p = "stage" => \A t \in Threads : ~At(t, "fill")

CanRename(p, q) == Exists(p) /\ Movable(p) /\ Movable(q)

Rename(p, q) ==
  /\ disk' = [disk EXCEPT ![q] = disk[p], ![p] = Missing]
  /\ conn' = [t \in Threads |-> CASE conn[t] = p -> q
                                  [] conn[t] = q -> "gone"
                                  [] OTHER       -> conn[t]]

\* fs::remove_file with the error ignored.
Remove(p) ==
  IF Exists(p) /\ Movable(p)
  THEN /\ disk' = [disk EXCEPT ![p] = Missing]
       /\ conn' = [t \in Threads |-> IF conn[t] = p THEN "gone" ELSE conn[t]]
  ELSE UNCHANGED <<disk, conn>>

\* Opening a missing database creates a blank one, without tables.
Opened == IF Exists("db") THEN disk ELSE [disk EXCEPT !["db"] = Blank]

\* The migrations of setup() give a blank database its tables.
Migrated(d) == IF d["db"].base = "blank" THEN [d EXCEPT !["db"].base = "fresh"] ELSE d

-----------------------------------------------------------------------------
(* The process: start, crash, and the commands that begin. *)

Init ==
  /\ disk = [p \in Places |-> IF p = "db" THEN Installed ELSE Missing]
  /\ snaps = <<>>
  /\ restoring = FALSE /\ app = "down" /\ ready = FALSE
  /\ th = [t \in Threads |-> Idle]
  /\ conn = [t \in Threads |-> "none"]
  /\ atStart = Installed /\ acked = {} /\ quiet = {} /\ calm = {} /\ strain = {}
  /\ begun = 0 /\ crashes = 0

\* setup() runs on one thread, before any command is served.
Start ==
  /\ app = "down"
  /\ app' = "booting"
  /\ \E t \in Threads : th' = [th EXCEPT ![t].task = "boot", ![t].pc = "look"]
  /\ UNCHANGED <<files, restoring, ready, history, begun, crashes>>

Crash ==
  /\ app # "down" /\ crashes < MaxCrashes
  /\ app' = "down" /\ ready' = FALSE /\ restoring' = FALSE
  /\ th' = [t \in Threads |-> Idle]
  /\ conn' = [t \in Threads |-> "none"]
  /\ calm' = {}
  /\ crashes' = crashes + 1
  /\ UNCHANGED <<disk, snaps, atStart, acked, quiet, strain, begun>>

FirstPC == [status |-> "look", write |-> "check", restore |-> "lock", revert |-> "lock"]

\* A restore takes a file the user names, a revert one of the history snapshots.
\* Both need a signed-in super admin and so a database that opened.
Begin(t) ==
  /\ app = "up" /\ At(t, "idle") /\ begun < MaxCommands
  /\ \E c \in Commands :
       LET new == [Idle EXCEPT !.pc = FirstPC[c], !.task = c, !.id = begun + 1]
       IN \/ c \in {"status", "write"} /\ th' = [th EXCEPT ![t] = new]
          \/ /\ c = "restore" /\ ready
             /\ th' = [th EXCEPT ![t] = [new EXCEPT !.chosen = Backup]]
          \/ /\ c = "revert" /\ ready
             /\ \E s \in Snapshots :
                  th' = [th EXCEPT ![t] = [new EXCEPT !.from = s.id, !.chosen = s.is]]
  /\ begun' = begun + 1
  /\ strain' = strain \cup {s \in {"overlap"} : \E u \in Threads : ~At(u, "idle")}
  /\ UNCHANGED <<files, process, ghosts, crashes>>

\* The thread gives up with an error; setup() goes on without a database.
GiveUp(t) ==
  /\ Done(t)
  /\ app' = "up"
  /\ UNCHANGED <<files, restoring, ready>>

-----------------------------------------------------------------------------
(* recover_interrupted_restore_if_needed, by setup() or the status command.
   It takes no lock. *)

\* Mutant: without a database the recovery gives up.
LookNeedsDb(t) ==
  /\ At(t, "look")
  /\ \/ Exists("bak") /\ Exists("db") /\ Goto(t, "judge") /\ UNCHANGED <<files, process>>
     \/ /\ ~Exists("bak") /\ Exists("stage") /\ Exists("db")
        /\ Goto(t, "dropStage") /\ UNCHANGED <<files, process>>
     \/ (Exists("bak") \/ Exists("stage")) /\ ~Exists("db") /\ GiveUp(t)
     \/ /\ ~Exists("bak") /\ ~Exists("stage")
        /\ Goto(t, "check") /\ UNCHANGED <<files, process>>

\* Is there anything to recover, and what is it?
Look(t) ==
  /\ At(t, "look")
  /\ \/ Exists("bak") /\ Goto(t, "judge") /\ UNCHANGED <<files, process>>
     \/ /\ ~Exists("bak") /\ Exists("stage") /\ Exists("db")
        /\ Goto(t, "dropStage") /\ UNCHANGED <<files, process>>
     \/ ~Exists("bak") /\ Exists("stage") /\ ~Exists("db") /\ GiveUp(t)
     \/ /\ ~Exists("bak") /\ ~Exists("stage")
        /\ Goto(t, "check") /\ UNCHANGED <<files, process>>

\* Mutant: the preserved original is dropped without looking into the database.
JudgeByExistence(t) ==
  /\ \/ At(t, "judge") /\ Goto(t, IF Exists("db") THEN "dropBak" ELSE "judgeBak")
     \/ At(t, "judgeBak") /\ Healthy("bak") /\ Goto(t, "bringBack")
  /\ UNCHANGED <<files, process>>

\* Which of the two files is sound.
Judge(t) ==
  /\ \/ At(t, "judge") /\ Goto(t, IF Exists("db") THEN "health" ELSE "judgeBak")
     \/ At(t, "health") /\ Goto(t, IF Healthy("db") THEN "dropBak" ELSE "judgeBoth")
     \/ At(t, "judgeBoth") /\ Healthy("bak") /\ Goto(t, "removeDb")
     \/ At(t, "judgeBak") /\ Healthy("bak") /\ Goto(t, "bringBack")
  /\ UNCHANGED <<files, process>>

JudgeFails(t) ==
  /\ At(t, "judgeBoth") \/ At(t, "judgeBak")
  /\ ~Healthy("bak")
  /\ GiveUp(t)

RemoveDb(t) ==
  /\ At(t, "removeDb")
  /\ Remove("db") /\ Goto(t, "bringBack")
  /\ UNCHANGED <<snaps, process>>

BringBack(t) ==
  /\ At(t, "bringBack")
  /\ \/ /\ CanRename("bak", "db")
        /\ Rename("bak", "db") /\ Goto(t, "dropStage") /\ UNCHANGED <<snaps, process>>
     \/ ~CanRename("bak", "db") /\ GiveUp(t)

DropBak(t) ==
  /\ At(t, "dropBak")
  /\ Remove("bak") /\ Goto(t, "dropStage")
  /\ UNCHANGED <<snaps, process>>

DropStage(t) ==
  /\ At(t, "dropStage")
  /\ Remove("stage") /\ Goto(t, "check")
  /\ UNCHANGED <<snaps, process>>

Recover(t) == /\ Look(t) \/ Judge(t) \/ JudgeFails(t) \/ RemoveDb(t)
                 \/ BringBack(t) \/ DropBak(t) \/ DropStage(t)
              /\ strain' = strain \cup {s \in {"meddling"} : restoring}
              /\ UNCHANGED <<ghosts, begun, crashes>>

-----------------------------------------------------------------------------
(* Opening the database: open_runtime_connection, and its users. *)

\* The flag and DB_READY are read here and the file is opened a step later.  The
\* status command reports "not initialised" when there is no database.
Check(t) ==
  /\ At(t, "check")
  /\ \/ /\ th[t].task = "boot" /\ Goto(t, "connect")
     \/ /\ th[t].task # "boot" /\ ready /\ ~restoring
        /\ th[t].task = "status" => Exists("db")
        /\ Goto(t, "connect")
     \/ /\ th[t].task # "boot"
        /\ ~ready \/ restoring \/ (th[t].task = "status" /\ ~Exists("db"))
        /\ Done(t)
  /\ UNCHANGED <<files, process, ghosts>>

Closing(t) == conn' = [conn EXCEPT ![t] = "none"]

\* setup()'s open initialises DB_READY; the status command only asks the version;
\* a write goes on to its transaction, which fails if there are no tables.
Connect(t) ==
  /\ At(t, "connect")
  /\ \/ Opened["db"].state = "damaged" /\ GiveUp(t) /\ UNCHANGED ghosts
     \/ /\ Opened["db"].state = "good" /\ th[t].task = "boot"
        /\ disk' = Migrated(Opened)
        /\ Done(t) /\ app' = "up" /\ ready' = TRUE
        /\ UNCHANGED <<snaps, conn, restoring, ghosts>>
     \/ /\ Opened["db"].state = "good" /\ th[t].task = "status"
        /\ disk' = Opened /\ Done(t)
        /\ UNCHANGED <<snaps, conn, process, ghosts>>
     \/ /\ Opened["db"].state = "good" /\ th[t].task = "write"
        /\ disk' = Opened
        /\ conn' = [conn EXCEPT ![t] = "db"]
        /\ calm' = IF restoring THEN calm ELSE calm \cup {t}
        /\ th' = [th EXCEPT ![t].pc = "commit", ![t].ok = Opened["db"].base # "blank"]
        /\ UNCHANGED <<snaps, process, atStart, acked, quiet>>

\* The transaction commits into the file the connection still points to.
Commit(t) ==
  /\ At(t, "commit") /\ th[t].ok
  /\ disk' = IF conn[t] = "gone" THEN disk
             ELSE [disk EXCEPT ![conn[t]].writes = @ \cup {th[t].id}]
  /\ acked' = acked \cup {th[t].id}
  /\ quiet' = IF t \in calm THEN quiet \cup {th[t].id} ELSE quiet
  /\ calm' = calm \ {t}
  /\ Closing(t) /\ Done(t)
  /\ UNCHANGED <<snaps, process, atStart>>

CommitFails(t) ==
  /\ At(t, "commit") /\ ~th[t].ok
  /\ calm' = calm \ {t}
  /\ Closing(t) /\ Done(t)
  /\ UNCHANGED <<disk, snaps, process, atStart, acked, quiet>>

Use(t) == /\ Check(t) \/ Connect(t) \/ Commit(t) \/ CommitFails(t)
          /\ UNCHANGED <<strain, begun, crashes>>

-----------------------------------------------------------------------------
(* restore_history_snapshot / restore_database_from_file. *)

\* The source file of a revert, by name, as it is now.
Gone(t)   == th[t].from # 0 /\ \A s \in Snapshots : s.id # th[t].from
File(t)   == (CHOOSE s \in Snapshots : s.id = th[t].from).is
Valid(t)  == th[t].from # 0 => ~Gone(t) /\ File(t).base # "blank"
Source(t) == IF th[t].from = 0 THEN Backup
             ELSE IF Gone(t) THEN [Blank EXCEPT !.base = "fresh"] ELSE File(t)

\* try_acquire_restore_lock fails at once when another restore holds it.
Lock(t) ==
  /\ At(t, "lock")
  /\ IF restoring THEN Done(t) /\ UNCHANGED <<restoring, atStart, calm>>
     ELSE /\ restoring' = TRUE /\ atStart' = disk["db"] /\ calm' = {}
          /\ Goto(t, "snapshot")
  /\ UNCHANGED <<files, app, ready, acked, quiet>>

\* prune_history_snapshots: of each kind the newest stay.
Pruned(list) == IF Len(list) > Quota THEN SubSeq(list, Len(list) - Quota + 1, Len(list))
                 ELSE list

SnapshotTaken(t) ==
  /\ Opened["db"].state = "good"
  /\ disk' = Opened
  /\ snaps' = Pruned(Append(snaps, [id |-> th[t].id, is |-> Opened["db"]]))

\* Mutant: the restore goes on when its safety snapshot fails.
SnapshotOptional(t) ==
  /\ At(t, "snapshot")
  /\ SnapshotTaken(t) \/ UNCHANGED <<disk, snaps>>
  /\ Goto(t, "restage")
  /\ UNCHANGED conn

\* validate_source_backup, then create_mandatory_safety_snapshot: without a sound
\* source and a verified snapshot nothing happens.
Snapshot(t) ==
  /\ At(t, "snapshot")
  /\ \/ Valid(t) /\ SnapshotTaken(t) /\ Goto(t, "restage")
     \/ /\ ~Valid(t) \/ "snapshot" \in Faults \/ Opened["db"].state = "damaged"
        /\ Return(t, FALSE) /\ UNCHANGED <<disk, snaps>>
  /\ UNCHANGED conn

\* A leftover staging file goes and the backup API starts to fill a new one.
Restage(t) ==
  /\ At(t, "restage")
  /\ disk' = [disk EXCEPT !["stage"] = Damaged] /\ Goto(t, "fill")
  /\ UNCHANGED <<snaps, conn>>

\* The copy, its migration and its integrity check; a failure to open a file
\* leaves the staging file behind, any other removes it.  Opening the source
\* creates it, blank, if it is gone by now.
Fill(t) ==
  /\ At(t, "fill")
  /\ \/ /\ disk' = IF Exists("stage") THEN [disk EXCEPT !["stage"] = Source(t)] ELSE disk
        /\ snaps' = IF Gone(t) THEN Append(snaps, [id |-> th[t].from, is |-> Blank]) ELSE snaps
        /\ Goto(t, "clear")
     \/ /\ "stage" \in Faults
        /\ disk' \in {disk, [disk EXCEPT !["stage"] = Missing]} /\ Return(t, FALSE)
        /\ UNCHANGED snaps
  /\ UNCHANGED conn

\* Checkpoint, pool invalidation and removal of a leftover orig_bak.
Clear(t) ==
  /\ At(t, "clear")
  /\ Remove("bak") /\ Goto(t, "preserve")
  /\ UNCHANGED snaps

\* The live database becomes orig_bak; a failure leaves the staging file behind.
Preserve(t) ==
  /\ At(t, "preserve")
  /\ \/ /\ CanRename("db", "bak") /\ Rename("db", "bak")
        /\ th' = [th EXCEPT ![t].pc = "swap", ![t].existed = TRUE]
     \/ /\ Exists("db") /\ ("rename" \in Faults \/ ~CanRename("db", "bak"))
        /\ Return(t, FALSE) /\ UNCHANGED <<disk, conn>>
     \/ ~Exists("db") /\ Goto(t, "swap") /\ UNCHANGED <<disk, conn>>
  /\ UNCHANGED snaps

Swap(t) ==
  /\ At(t, "swap")
  /\ \/ CanRename("stage", "db") /\ Rename("stage", "db") /\ Goto(t, "verify")
     \/ /\ "damage" \in Faults /\ CanRename("stage", "db")
        /\ disk' = [disk EXCEPT !["db"] = Damaged, !["stage"] = Missing]
        /\ conn' = [u \in Threads |-> IF conn[u] = "db" THEN "gone" ELSE conn[u]]
        /\ Goto(t, "verify")
     \/ /\ "rename" \in Faults \/ ~CanRename("stage", "db")
        /\ Goto(t, "undo") /\ UNCHANGED <<disk, conn>>
  /\ UNCHANGED snaps

\* orig_bak is renamed back, the error of that rename ignored.
RenameBack(t, next) ==
  /\ \/ /\ th[t].existed /\ CanRename("bak", "db") /\ Rename("bak", "db")
     \/ /\ ~th[t].existed \/ ~CanRename("bak", "db") \/ "rollback" \in Faults
        /\ UNCHANGED <<disk, conn>>
  /\ Goto(t, next)
  /\ UNCHANGED snaps

Undo(t)     == At(t, "undo") /\ RenameBack(t, "unstage")
Rollback(t) == At(t, "rollback") /\ RenameBack(t, "reopen")

Unstage(t) ==
  /\ At(t, "unstage")
  /\ Remove("stage") /\ Return(t, FALSE)
  /\ UNCHANGED snaps

\* Mutant: the verdict on the restored file is ignored.
VerifyIgnored(t) ==
  /\ At(t, "verify")
  /\ disk' = Opened /\ Goto(t, "cleanup")
  /\ UNCHANGED <<snaps, conn>>

\* Opening the restored file and its integrity check.
Verify(t) ==
  /\ At(t, "verify")
  /\ disk' = Opened
  /\ \/ Healthy("db")' /\ Goto(t, "cleanup")
     \/ ("verify" \in Faults \/ ~Healthy("db")') /\ Goto(t, "discard")
  /\ UNCHANGED <<snaps, conn>>

Discard(t) ==
  /\ At(t, "discard")
  /\ Remove("db") /\ Goto(t, "rollback")
  /\ UNCHANGED snaps

\* The failure is written to the audit table of whatever database is there now.
Reopen(t) ==
  /\ At(t, "reopen")
  /\ disk' = Opened /\ Return(t, FALSE)
  /\ UNCHANGED <<snaps, conn>>

Cleanup(t) ==
  /\ At(t, "cleanup")
  /\ Remove("bak") /\ Return(t, TRUE)
  /\ UNCHANGED snaps

\* The original could come back and does not.
RollbackFails(t) == /\ At(t, "undo") \/ At(t, "rollback")
                    /\ th[t].existed /\ CanRename("bak", "db") /\ Exists("bak")'

Replace(t) ==
  /\ Snapshot(t) \/ Restage(t) \/ Fill(t) \/ Clear(t) \/ Preserve(t) \/ Swap(t)
     \/ Undo(t) \/ Rollback(t) \/ Unstage(t) \/ Verify(t) \/ Discard(t)
     \/ Reopen(t) \/ Cleanup(t)
  /\ strain' = strain \cup {s \in {"rollback"} : RollbackFails(t)}
  /\ UNCHANGED <<process, ghosts, begun, crashes>>

\* RestoreInProgressGuard is dropped.
Unlock(t) ==
  /\ At(t, "return")
  /\ restoring' = FALSE /\ Done(t)
  /\ UNCHANGED <<files, app, ready, ghosts>>

\* A restore that begins while a recovery is under way meddles as well.
Restore(t) ==
  \/ Replace(t)
  \/ /\ Lock(t) /\ UNCHANGED <<begun, crashes>>
     /\ strain' = strain \cup {s \in {"meddling"} :
                     \E u \in Threads : th[u].pc \in RecoveryPCs \ {"look"}}
  \/ Unlock(t) /\ UNCHANGED <<strain, begun, crashes>>

-----------------------------------------------------------------------------
Step(t) == Recover(t) \/ Use(t) \/ Restore(t)

Next == Start \/ Crash \/ \E t \in Threads : Begin(t) \/ Step(t)

Spec == Init /\ [][Next]_vars

\* A thread keeps running, and a program that went down is started again.
FairSpec == Spec /\ WF_vars(Start) /\ \A t \in Threads : WF_vars(Step(t))

-----------------------------------------------------------------------------
Thread == [pc : PCs, task : CommandKinds \cup {"none", "boot"},
           id : Writes \cup {0}, existed : BOOLEAN, ok : BOOLEAN,
           from : Writes \cup {0}, chosen : Content]
SafetySnapshot == [id : Writes, is : {c \in Content : c.state = "good"}]

\* Every variable has its type; a thread is connected exactly when it is about to
\* commit; and RESTORE_IN_PROGRESS is set exactly while one thread, and only one,
\* is inside a restore.
TypeOK ==
  /\ disk \in [Places -> Content] /\ snaps \in Seq(SafetySnapshot)
  /\ restoring \in BOOLEAN /\ app \in {"down", "booting", "up"} /\ ready \in BOOLEAN
  /\ th \in [Threads -> Thread]
  /\ conn \in [Threads -> Places \cup {"none", "gone"}]
  /\ atStart \in Content
  /\ acked \subseteq Writes /\ quiet \subseteq acked /\ calm \subseteq Threads
  /\ strain \subseteq {"overlap", "meddling", "rollback"}
  /\ begun \in 0..MaxCommands /\ crashes \in 0..MaxCrashes
  /\ \A t \in Threads : conn[t] # "none" <=> At(t, "commit")
  /\ restoring <=> \E t \in Threads : th[t].pc \in RestorePCs
  /\ \A t, u \in Threads : th[t].pc \in RestorePCs /\ th[u].pc \in RestorePCs => t = u

-----------------------------------------------------------------------------
(* While commands run one after another and no rollback fails. *)

Orderly == strain = {}

\* The database that the startup recovery would choose.
Recoverable == IF Exists("bak") /\ ~Healthy("db") THEN disk["bak"] ELSE disk["db"]

\* Whatever step the program stops at, the next start serves a whole database
\* that holds the user's data: never a blank, damaged or missing one.
NeverBlank == Orderly => /\ Recoverable.state = "good"
                         /\ Recoverable.base \in {"installed", "backup"}

\* Every acknowledged write is in the database that the next start would serve,
\* or in the safety snapshot of the restore that replaced it.
WritesKept == Orderly => \A w \in acked : \/ w \in Recoverable.writes
                                         \/ \E s \in Snapshots : w \in s.is.writes

\* A restore that reports success has put the chosen backup or snapshot in place,
\* and one that reports failure leaves the database as it found it.
AllOrNothing ==
  [][\A t \in Threads : Orderly /\ Unlock(t) =>
       disk["db"] = IF th[t].ok THEN th[t].chosen ELSE atStart]_vars

\* A program that is down comes up with its database open, however often it
\* stopped in the middle of a restore or of the recovery.
ComesUp == app = "down" ~> ready \/ ~Orderly

-----------------------------------------------------------------------------
(* However commands overlap. *)

\* A write by a connection that met no restore is never lost: not by restores
\* before or after it, their failures, or a crash - unless the recovery that a
\* status command runs and a restore overlapped.
QuietWritesKept == \A w \in quiet : \/ \E p \in Places : w \in disk[p].writes
                                    \/ \E s \in Snapshots : w \in s.is.writes
                                    \/ "meddling" \in strain
=============================================================================
