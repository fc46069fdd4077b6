----------------------------- MODULE RestoreProofs -----------------------------
(***************************************************************************)
(* What a restore keeps, for any number of threads, commands and crashes.  *)
(* Pruning may delete the snapshot a write is in, or the one a revert is   *)
(* about to install; so what is promised is promised while fewer safety    *)
(* snapshots exist than are kept.                                          *)
(***************************************************************************)
EXTENDS RestoreDb, SequenceTheorems, FiniteSetTheorems, TLAPS

BelowQuota == Len(snaps) < Quota

Busy(t)  == ~At(t, "idle")
Saved(w) == \E s \in Snapshots : w \in s.is.writes

-----------------------------------------------------------------------------
(* Types, and who runs. *)

\* The places each kind of command can be at.
OpeningPCs == RecoveryPCs \cup {"check", "connect"}
TaskPCs == [none |-> {"idle"}, boot |-> OpeningPCs, status |-> OpeningPCs,
            write |-> {"check", "connect", "commit"},
            restore |-> {"lock"} \cup RestorePCs, revert |-> {"lock"} \cup RestorePCs]

ThreadsMatch ==
  \A t \in Threads : /\ th[t].pc \in TaskPCs[th[t].task]
                     /\ th[t].task \in CommandKinds => th[t].id \in Writes

\* Nothing runs in a program that is down, and setup() runs alone.
SetupAlone ==
  /\ app = "down" => \A t \in Threads : ~Busy(t)
  /\ app = "booting" => \A t, u \in Threads : Busy(t) /\ Busy(u) => t = u
  /\ \A t \in Threads : Busy(t) => (th[t].task = "boot" <=> app = "booting")

\* A connection is to a sound file that is not the staged one, and what is no
\* sound database holds no writes.
Connections ==
  /\ \A t \in Threads : conn[t] \in Places => conn[t] # "stage" /\ Healthy(conn[t])
  /\ \A p \in Places : ~Healthy(p) => disk[p].writes = {}

TypeInv == TypeOK /\ ThreadsMatch /\ SetupAlone /\ Connections

-----------------------------------------------------------------------------
(* What holds however commands overlap, but for a recovery and a restore. *)

Apart == "meddling" \notin strain

\* No connection has seen a restore, or it is not calm; a calm connection that is
\* going to commit is one to the database.
CalmConnections ==
  /\ restoring => calm = {}
  /\ \A t \in calm : At(t, "commit") /\ (th[t].ok => conn[t] = "db")

\* The database holds nothing, and nobody is going to commit into it.
Barren ==
  /\ disk["db"].writes = {}
  /\ \A t \in Threads : conn[t] = "db" => ~th[t].ok
  /\ Healthy("db") => disk["db"].base = "blank"

\* Each place of the recovery, in setup() and in the status command.
RecoveryKnows(t) ==
  /\ At(t, "health") => Exists("db")
  /\ th[t].pc \in {"judgeBoth", "removeDb"} => app = "booting" /\ ~Healthy("db")
  /\ th[t].pc \in {"judgeBak", "bringBack"} /\ Exists("bak") => Barren
  /\ app = "booting" =>
       /\ th[t].pc \in {"judge", "health", "judgeBoth", "judgeBak", "removeDb", "bringBack"}
            => Exists("bak")
       /\ th[t].pc \in {"dropBak", "dropStage", "check", "connect"}
            => disk["db"].state # "damaged"

\* A damaged database is one that a restore has just put there, and has its
\* original beside it.
OriginalBeside ==
  /\ Exists("bak") => Healthy("bak")
  /\ disk["db"].state = "damaged" =>
       /\ Exists("bak")
       /\ app # "up" \/ \E t \in Threads : th[t].pc \in {"verify", "discard"}

\* Each place of the restore.
RestoreKnows(t) ==
  /\ th[t].pc \in {"restage", "fill", "clear", "preserve"} => Healthy("db")
  /\ th[t].pc \in {"swap", "undo", "verify", "discard"} => Exists("bak")
  /\ th[t].pc \in RestorePCs \ {"snapshot", "return"} => \A w \in quiet : Saved(w)

NobodyMeddles == restoring => \A t \in Threads : th[t].pc \notin RecoveryPCs \ {"look"}
QuietSafe     == \A w \in quiet : Saved(w) \/ w \in disk["db"].writes

QuietInv ==
  Apart => /\ NobodyMeddles /\ CalmConnections /\ OriginalBeside /\ QuietSafe
           /\ \A t \in Threads : RecoveryKnows(t) /\ RestoreKnows(t)

-----------------------------------------------------------------------------
(* What holds while commands run one after another. *)

Sound(c) == c.state = "good" /\ c.base \in {"installed", "backup"}

SnapshotsSound ==
  /\ \A s \in Snapshots : Sound(s.is) /\ s.id <= begun
  /\ \A r, s \in Snapshots : r.id = s.id => r = s

\* A snapshot that is still to be taken will be the newest.
NextSnapshot(t) ==
  th[t].pc \in {"lock", "snapshot"} =>
    th[t].id <= begun /\ \A s \in Snapshots : s.id < th[t].id

\* What a restore is to install.
ChoiceSound(t) ==
  th[t].pc \in {"lock"} \cup RestorePCs =>
    /\ Sound(th[t].chosen)
    /\ IF th[t].from = 0 THEN th[t].chosen = Backup
       ELSE \E s \in Snapshots : s.id = th[t].from /\ s.is = th[t].chosen

\* The files at each place.
RecoveryFiles(t) ==
  /\ th[t].pc \in {"judge", "health", "judgeBoth", "judgeBak", "removeDb", "bringBack"}
       => Exists("bak")
  /\ At(t, "health") => Exists("db")
  /\ th[t].pc \in {"judgeBoth", "judgeBak", "removeDb", "bringBack"} => ~Healthy("db")
  /\ At(t, "dropBak") => Healthy("db")

Placed(t) ==
  /\ th[t].pc \in {"snapshot", "restage", "fill", "clear", "preserve", "unstage", "reopen"}
       => disk["db"] = atStart
  /\ th[t].pc \in {"swap", "undo", "verify", "discard", "rollback", "cleanup"}
       => disk["bak"] = atStart /\ th[t].existed
  /\ th[t].pc \in {"swap", "undo", "rollback"} => ~Exists("db")
  /\ th[t].pc \in {"verify", "discard", "cleanup"} =>
       disk["db"] \in {th[t].chosen} \cup {d \in {Damaged} : ~At(t, "cleanup")}
  /\ At(t, "fill") => Exists("stage")
  /\ th[t].pc \in {"clear", "preserve", "swap"} => disk["stage"] = th[t].chosen
  /\ At(t, "return") => disk["db"] = IF th[t].ok THEN th[t].chosen ELSE atStart

RestoreFiles(t) ==
  /\ Placed(t)
  /\ th[t].pc \in RestorePCs => Sound(atStart)
  /\ th[t].pc \in RestorePCs \ {"snapshot", "return"} => \A w \in acked : Saved(w)

\* Outside the swap and the recovery there is no second database.
BackupGone(t) ==
  th[t].pc \in {"dropStage", "check", "connect", "commit", "lock", "snapshot", "restage",
                "fill", "clear", "preserve", "unstage", "reopen", "return"}
    => ~Exists("bak")

InOrder(t) == /\ RecoveryFiles(t) /\ RestoreFiles(t) /\ NextSnapshot(t) /\ ChoiceSound(t)
              /\ BackupGone(t)
              /\ At(t, "commit") => conn[t] = "db"

Serial == \A t, u \in Threads : Busy(t) /\ Busy(u) => t = u
AtRest == app = "up" /\ (\A t \in Threads : ~Busy(t)) => ~Exists("bak")

OrderInv ==
  Orderly => /\ Serial /\ AtRest /\ SnapshotsSound
             /\ \A t \in Threads : InOrder(t)
             /\ NeverBlank /\ WritesKept

-----------------------------------------------------------------------------
(* Files: what each operation makes of them. *)

FilesOK == /\ disk \in [Places -> Content]
           /\ conn \in [Threads -> Places \cup {"none", "gone"}]
           /\ Connections

\* What no step of a restore or a recovery does: open or close a connection.
SameConnected == \A u \in Threads : conn'[u] = "none" <=> conn[u] = "none"

\* The contents that the module names.
LEMMA Contents ==
  /\ {Missing, Damaged, Blank, Installed, Backup} \subseteq Content
  /\ Missing.state = "missing" /\ Missing.base = "none" /\ Missing.writes = {}
  /\ Damaged.state = "damaged" /\ Damaged.base = "none" /\ Damaged.writes = {}
  /\ Blank.state = "good" /\ Blank.base = "blank" /\ Blank.writes = {}
  /\ Installed.state = "good" /\ Installed.base = "installed" /\ Installed.writes = {}
  /\ Backup.state = "good" /\ Backup.base = "backup" /\ Backup.writes = {}
  /\ [Blank EXCEPT !.base = "fresh"] \in Content
  /\ [Blank EXCEPT !.base = "fresh"].state = "good"
  BY DEF Missing, Damaged, Blank, Installed, Backup, Content

\* A rename over another file takes the connections with it.
LEMMA RenameFiles ==
  ASSUME FilesOK, NEW p \in Places, NEW q \in {"db", "bak"}, p # q, Rename(p, q)
  PROVE  /\ FilesOK' /\ SameConnected
         /\ disk'[q] = disk[p] /\ disk'[p] = Missing
         /\ \A r \in Places \ {p, q} : disk'[r] = disk[r]
         /\ \A u \in Threads : conn'[u] = IF conn[u] = p THEN q
                                          ELSE IF conn[u] = q THEN "gone" ELSE conn[u]
<1>1. q \in Places
  BY DEF Places
<1>2. /\ disk' \in [Places -> Content]
      /\ disk'[q] = disk[p] /\ disk'[p] = Missing
      /\ \A r \in Places \ {p, q} : disk'[r] = disk[r]
  BY <1>1, Contents DEF FilesOK, Rename
<1>3. \A u \in Threads : conn'[u] = IF conn[u] = p THEN q
                                    ELSE IF conn[u] = q THEN "gone" ELSE conn[u]
  BY DEF Rename
<1>4. conn' \in [Threads -> Places \cup {"none", "gone"}]
  BY <1>1 DEF FilesOK, Rename
<1>5. SameConnected
  BY <1>3 DEF SameConnected, Places
<1>6. Connections'
  <2>1. ASSUME NEW u \in Threads, conn'[u] \in Places
        PROVE  conn'[u] # "stage" /\ disk'[conn'[u]].state = "good"
    BY <1>2, <1>3, <2>1 DEF FilesOK, Connections, Healthy, Places
  <2>2. ASSUME NEW r \in Places, disk'[r].state # "good" PROVE disk'[r].writes = {}
    BY <1>1, <1>2, <2>2, Contents DEF FilesOK, Connections, Healthy
  <2> QED
    BY <2>1, <2>2 DEF Connections, Healthy
<1> QED
  BY <1>2, <1>3, <1>4, <1>5, <1>6 DEF FilesOK

\* A removal empties the place or, if it may not, does nothing.
LEMMA RemoveFiles ==
  ASSUME FilesOK, NEW p \in Places, Remove(p)
  PROVE  /\ FilesOK' /\ SameConnected
         /\ disk'[p] \in {disk[p], Missing}
         /\ \A r \in Places \ {p} : disk'[r] = disk[r]
         /\ Movable(p) => disk'[p].state = "missing"
         /\ \A u \in Threads : conn'[u] = conn[u] \/ (conn[u] = p /\ conn'[u] = "gone")
<1>1. CASE Exists(p) /\ Movable(p)
  <2>1. /\ disk' \in [Places -> Content] /\ disk'[p] = Missing
        /\ \A r \in Places \ {p} : disk'[r] = disk[r]
    BY <1>1, Contents DEF FilesOK, Remove
  <2>2. \A u \in Threads : conn'[u] = IF conn[u] = p THEN "gone" ELSE conn[u]
    BY <1>1 DEF Remove
  <2>3. conn' \in [Threads -> Places \cup {"none", "gone"}]
    BY <1>1 DEF FilesOK, Remove
  <2>4. ASSUME NEW u \in Threads, conn'[u] \in Places
        PROVE  conn'[u] # "stage" /\ disk'[conn'[u]].state = "good"
    BY <2>1, <2>2, <2>4 DEF FilesOK, Connections, Healthy, Places
  <2>5. ASSUME NEW r \in Places, disk'[r].state # "good" PROVE disk'[r].writes = {}
    BY <2>1, <2>5, Contents DEF FilesOK, Connections, Healthy
  <2>6. Connections'
    BY <2>4, <2>5 DEF Connections, Healthy
  <2>7. SameConnected
    BY <2>2 DEF SameConnected, Places
  <2> QED
    BY <2>1, <2>2, <2>3, <2>6, <2>7, Contents DEF FilesOK
<1>2. CASE ~(Exists(p) /\ Movable(p))
  BY <1>2 DEF FilesOK, Remove, Connections, Healthy, Exists, SameConnected
<1> QED
  BY <1>1, <1>2

\* The staged file is nobody's, whatever is written to it.
LEMMA StageFiles ==
  ASSUME FilesOK, NEW c \in Content, c.state # "good" => c.writes = {},
         disk' = [disk EXCEPT !["stage"] = c], conn' = conn
  PROVE  /\ FilesOK' /\ SameConnected /\ disk'["stage"] = c
         /\ disk'["db"] = disk["db"] /\ disk'["bak"] = disk["bak"]
  BY DEF FilesOK, Connections, Healthy, Places, SameConnected

\* Opening the database creates it where it is missing, and nothing else.
LEMMA OpenFiles ==
  ASSUME FilesOK
  PROVE  /\ Opened \in [Places -> Content]
         /\ Opened["db"] = IF Exists("db") THEN disk["db"] ELSE Blank
         /\ Opened["stage"] = disk["stage"] /\ Opened["bak"] = disk["bak"]
         /\ disk' = Opened /\ conn' = conn => FilesOK' /\ SameConnected
<1>1. /\ Opened \in [Places -> Content]
      /\ Opened["db"] = IF Exists("db") THEN disk["db"] ELSE Blank
      /\ Opened["stage"] = disk["stage"] /\ Opened["bak"] = disk["bak"]
  BY Contents DEF FilesOK, Opened, Places
<1>2. ASSUME disk' = Opened, conn' = conn PROVE FilesOK' /\ SameConnected
  BY <1>1, <1>2, Contents DEF FilesOK, Connections, Healthy, Exists, Places, SameConnected
<1> QED
  BY <1>1, <1>2

\* The migrations change no writes.
LEMMA MigrateFiles ==
  ASSUME FilesOK, disk' = Migrated(Opened), conn' = conn
  PROVE  /\ FilesOK' /\ SameConnected
         /\ disk'["db"].state = Opened["db"].state /\ disk'["db"].writes = Opened["db"].writes
         /\ disk'["db"].base = IF Opened["db"].base = "blank" THEN "fresh"
                               ELSE Opened["db"].base
         /\ Opened["db"].base # "blank" => disk'["db"] = Opened["db"]
         /\ disk'["stage"] = disk["stage"] /\ disk'["bak"] = disk["bak"]
<1>1. /\ disk' \in [Places -> Content]
      /\ disk'["db"].state = Opened["db"].state /\ disk'["db"].writes = Opened["db"].writes
      /\ disk'["db"].base = IF Opened["db"].base = "blank" THEN "fresh" ELSE Opened["db"].base
      /\ Opened["db"].base # "blank" => disk'["db"] = Opened["db"]
      /\ disk'["stage"] = disk["stage"] /\ disk'["bak"] = disk["bak"]
  BY OpenFiles DEF Migrated, Content, Places
<1>2. \A p \in Places : Healthy(p) => disk'[p].state = "good"
  BY <1>1, OpenFiles DEF Healthy, Exists, Places
<1>3. \A p \in Places : disk'[p].state # "good" => disk'[p].writes = {}
  BY <1>1, OpenFiles, Contents DEF FilesOK, Connections, Healthy, Exists, Places
<1> QED
  BY <1>1, <1>2, <1>3 DEF FilesOK, Connections, Healthy, SameConnected

\* A swap that installs an unreadable file.
LEMMA DamageFiles ==
  ASSUME FilesOK, disk' = [disk EXCEPT !["db"] = Damaged, !["stage"] = Missing],
         conn' = [u \in Threads |-> IF conn[u] = "db" THEN "gone" ELSE conn[u]]
  PROVE  /\ FilesOK' /\ SameConnected
         /\ disk'["db"] = Damaged /\ disk'["stage"] = Missing /\ disk'["bak"] = disk["bak"]
         /\ \A u \in Threads : conn'[u] = IF conn[u] = "db" THEN "gone" ELSE conn[u]
<1>1. /\ disk' \in [Places -> Content]
      /\ disk'["db"] = Damaged /\ disk'["stage"] = Missing /\ disk'["bak"] = disk["bak"]
  BY Contents DEF FilesOK, Places
<1>2. \A u \in Threads : conn'[u] = IF conn[u] = "db" THEN "gone" ELSE conn[u]
  OBVIOUS
<1>3. conn' \in [Threads -> Places \cup {"none", "gone"}]
  BY DEF FilesOK
<1>4. Connections'
  BY <1>1, <1>2, Contents DEF FilesOK, Connections, Healthy, Places
<1> QED
  BY <1>1, <1>2, <1>3, <1>4 DEF FilesOK, SameConnected, Places

-----------------------------------------------------------------------------
(* Threads: who moves, and where to. *)

ThreadsOK == th \in [Threads -> Thread] /\ ThreadsMatch

OthersStay(t)  == \A u \in Threads \ {t} : th'[u] = th[u]
SameCommand(t) == /\ th'[t].task = th[t].task /\ th'[t].id = th[t].id
                  /\ th'[t].from = th[t].from /\ th'[t].chosen = th[t].chosen

\* The parts of a thread, and the places of each kind of command.
LEMMA ThreadParts ==
  /\ Idle \in Thread /\ Idle.pc = "idle" /\ Idle.task = "none" /\ ~Idle.ok
  /\ \A o \in Thread : /\ o.pc \in PCs /\ o.task \in CommandKinds \cup {"none", "boot"}
                       /\ o.id \in Writes \cup {0} /\ o.from \in Writes \cup {0}
                       /\ o.ok \in BOOLEAN /\ o.chosen \in Content
  BY Contents DEF Idle, Thread, PCs

\* A thread goes to a place of its command.
LEMMA GotoThread ==
  ASSUME ThreadsOK, NEW t \in Threads, NEW pc \in PCs, Goto(t, pc),
         pc \in TaskPCs[th[t].task]
  PROVE  /\ ThreadsOK' /\ OthersStay(t) /\ SameCommand(t) /\ th'[t].pc = pc
         /\ th'[t].existed = th[t].existed /\ th'[t].ok = th[t].ok
<1>1. /\ th' \in [Threads -> Thread] /\ th'[t] = [th[t] EXCEPT !.pc = pc] /\ OthersStay(t)
  BY DEF ThreadsOK, Goto, Thread, OthersStay
<1>2. /\ SameCommand(t) /\ th'[t].pc = pc
      /\ th'[t].existed = th[t].existed /\ th'[t].ok = th[t].ok
  BY <1>1 DEF ThreadsOK, Thread, SameCommand
<1> QED
  BY <1>1, <1>2 DEF ThreadsOK, ThreadsMatch, OthersStay, SameCommand

\* A command ends.
LEMMA DoneThread ==
  ASSUME ThreadsOK, NEW t \in Threads, Done(t)
  PROVE  ThreadsOK' /\ OthersStay(t) /\ th'[t] = Idle
<1>1. th' \in [Threads -> Thread] /\ th'[t] = Idle /\ OthersStay(t)
  BY ThreadParts DEF ThreadsOK, Done, OthersStay
<1>2. Idle.pc \in TaskPCs[Idle.task] /\ Idle.task \notin CommandKinds
  BY ThreadParts DEF TaskPCs, CommandKinds
<1> QED
  BY <1>1, <1>2 DEF ThreadsOK, ThreadsMatch, OthersStay

\* A restore is about to return.
LEMMA ReturnThread ==
  ASSUME ThreadsOK, NEW t \in Threads, NEW ok \in BOOLEAN, Return(t, ok),
         "return" \in TaskPCs[th[t].task]
  PROVE  /\ ThreadsOK' /\ OthersStay(t) /\ SameCommand(t)
         /\ th'[t].pc = "return" /\ th'[t].ok = ok
<1>1. /\ th' \in [Threads -> Thread] /\ OthersStay(t)
      /\ th'[t] = [th[t] EXCEPT !.pc = "return", !.ok = ok]
  <2> DEFINE mid == [th EXCEPT ![t].pc = "return"]
             o   == [th[t] EXCEPT !.pc = "return", !.ok = ok]
  <2>1. "return" \in PCs
    BY DEF PCs, RestorePCs
  <2>2. /\ mid \in [Threads -> Thread] /\ mid[t] = [th[t] EXCEPT !.pc = "return"]
        /\ \A u \in Threads \ {t} : mid[u] = th[u]
    BY <2>1 DEF ThreadsOK, Thread
  <2>3. th' = [mid EXCEPT ![t].ok = ok]
    BY DEF Return
  <2>4. o \in Thread /\ [mid[t] EXCEPT !.ok = ok] = o
    BY <2>1, <2>2 DEF ThreadsOK, Thread
  <2> HIDE DEF mid, o
  <2>5. th'[t] = o /\ \A u \in Threads \ {t} : th'[u] = mid[u]
    BY <2>2, <2>3, <2>4
  <2> QED
    BY <2>2, <2>3, <2>4, <2>5 DEF OthersStay, o
<1>2. SameCommand(t) /\ th'[t].pc = "return" /\ th'[t].ok = ok
  BY <1>1 DEF ThreadsOK, Thread, SameCommand
<1> QED
  BY <1>1, <1>2 DEF ThreadsOK, ThreadsMatch, OthersStay, SameCommand

\* The places a command is at tell its kind.
LEMMA Kinds ==
  ASSUME ThreadsOK, NEW t \in Threads
  PROVE  /\ th[t].pc \in RecoveryPCs => TaskPCs[th[t].task] = OpeningPCs
         /\ th[t].pc \in RestorePCs \cup {"lock"} =>
              TaskPCs[th[t].task] = {"lock"} \cup RestorePCs /\ th[t].task \in CommandKinds
         /\ th[t].pc = "commit" => th[t].task = "write"
         /\ th[t].task = "boot" => TaskPCs[th[t].task] = OpeningPCs
         /\ th[t].task = "status" => TaskPCs[th[t].task] = OpeningPCs
         /\ th[t].task = "write" => TaskPCs[th[t].task] = {"check", "connect", "commit"}
         /\ Busy(t) <=> th[t].task # "none"
<1>1. th[t].task \in {"none", "boot", "status", "write", "restore", "revert"}
  BY ThreadParts DEF ThreadsOK, CommandKinds
<1>2. th[t].pc \in TaskPCs[th[t].task]
  BY DEF ThreadsOK, ThreadsMatch
<1> QED
  BY <1>1, <1>2
     DEF TaskPCs, OpeningPCs, RecoveryPCs, RestorePCs, CommandKinds, Busy, At

\* A step of one thread leaves setup() alone where it was.
LEMMA AloneStep ==
  ASSUME SetupAlone, NEW t \in Threads, Busy(t), OthersStay(t),
         \/ app' = app /\ (Busy(t)' => th'[t].task = th[t].task)
         \/ app' = "up" /\ ~Busy(t)'
  PROVE  SetupAlone'
  BY DEF SetupAlone, OthersStay, Busy, At

-----------------------------------------------------------------------------
(* The steps of the recovery. *)

\* What a step of the recovery may change.
RecoverEffect(t) ==
  /\ FilesOK' /\ SameConnected /\ ThreadsOK' /\ OthersStay(t)
  /\ \/ th'[t] = Idle /\ app' = "up"
     \/ SameCommand(t) /\ th'[t].pc \in RecoveryPCs \cup {"check"} /\ app' = app
  /\ UNCHANGED <<snaps, restoring, ready, ghosts, begun, crashes>>

\* A look at the files changes none.
LEMMA LookEffect ==
  ASSUME FilesOK, ThreadsOK, NEW t \in Threads, Recover(t), Look(t)
  PROVE  RecoverEffect(t)
<1>1. TaskPCs[th[t].task] = OpeningPCs
  BY Kinds DEF Look, At, RecoveryPCs
<1>2. FilesOK' /\ SameConnected /\ UNCHANGED <<snaps, restoring, ready>>
  BY DEF Look, GiveUp, files, process, FilesOK, Connections, Healthy, SameConnected
<1>3. CASE \E pc \in {"judge", "dropStage", "check"} : Goto(t, pc) /\ UNCHANGED process
  <2>1. PICK pc \in {"judge", "dropStage", "check"} : Goto(t, pc) /\ UNCHANGED process
    BY <1>3
  <2>2. /\ pc \in PCs /\ pc \in OpeningPCs /\ pc \in RecoveryPCs \cup {"check"}
    BY <2>1 DEF PCs, OpeningPCs, RecoveryPCs
  <2> QED
    BY <1>1, <1>2, <2>1, <2>2, GotoThread DEF RecoverEffect, Recover, process
<1>4. CASE GiveUp(t)
  BY <1>2, <1>4, DoneThread DEF GiveUp, RecoverEffect, Recover
<1> QED
  BY <1>3, <1>4 DEF Look

\* Judging changes no file.
LEMMA JudgeEffect ==
  ASSUME FilesOK, ThreadsOK, NEW t \in Threads, Recover(t), Judge(t) \/ JudgeFails(t)
  PROVE  RecoverEffect(t)
<1>1. TaskPCs[th[t].task] = OpeningPCs
  BY Kinds DEF Judge, JudgeFails, At, RecoveryPCs
<1>2. FilesOK' /\ SameConnected /\ UNCHANGED <<snaps, restoring, ready>>
  BY DEF Judge, JudgeFails, GiveUp, files, process, FilesOK, Connections, Healthy, SameConnected
<1>3. CASE Judge(t)
  <2>1. PICK pc \in {"health", "judgeBak", "dropBak", "judgeBoth", "removeDb", "bringBack"} :
          Goto(t, pc)
    BY <1>3 DEF Judge
  <2>2. /\ pc \in PCs /\ pc \in OpeningPCs /\ pc \in RecoveryPCs \cup {"check"}
    BY <2>1 DEF PCs, OpeningPCs, RecoveryPCs
  <2> QED
    BY <1>1, <1>2, <1>3, <2>1, <2>2, GotoThread DEF Judge, RecoverEffect, Recover, process
<1>4. CASE JudgeFails(t)
  BY <1>2, <1>4, DoneThread DEF JudgeFails, GiveUp, RecoverEffect, Recover
<1> QED
  BY <1>3, <1>4

\* The removals and the rename.
LEMMA MendEffect ==
  ASSUME FilesOK, ThreadsOK, NEW t \in Threads, Recover(t),
         RemoveDb(t) \/ BringBack(t) \/ DropBak(t) \/ DropStage(t)
  PROVE  RecoverEffect(t)
<1>1. TaskPCs[th[t].task] = OpeningPCs
  BY Kinds DEF RemoveDb, BringBack, DropBak, DropStage, At, RecoveryPCs
<1>2. /\ {"db", "bak", "stage"} = Places
      /\ {"bringBack", "dropStage", "check"} \subseteq PCs
      /\ {"bringBack", "dropStage", "check"} \subseteq OpeningPCs
      /\ {"bringBack", "dropStage", "check"} \subseteq RecoveryPCs \cup {"check"}
  BY DEF Places, PCs, OpeningPCs, RecoveryPCs
<1>3. CASE RemoveDb(t)
  BY <1>1, <1>2, <1>3, RemoveFiles, GotoThread DEF RemoveDb, process, RecoverEffect, Recover
<1>4. CASE DropBak(t)
  BY <1>1, <1>2, <1>4, RemoveFiles, GotoThread DEF DropBak, process, RecoverEffect, Recover
<1>5. CASE DropStage(t)
  BY <1>1, <1>2, <1>5, RemoveFiles, GotoThread DEF DropStage, process, RecoverEffect, Recover
<1>6. CASE BringBack(t)
  <2>1. CASE Rename("bak", "db") /\ Goto(t, "dropStage") /\ UNCHANGED <<snaps, process>>
    BY <1>1, <1>2, <2>1, RenameFiles, GotoThread DEF process, RecoverEffect, Recover
  <2>2. CASE GiveUp(t)
    <3>1. FilesOK' /\ SameConnected
      BY <2>2 DEF GiveUp, files, FilesOK, Connections, Healthy, SameConnected
    <3> QED
      BY <2>2, <3>1, DoneThread DEF GiveUp, files, RecoverEffect, Recover
  <2> QED
    BY <1>6, <2>1, <2>2 DEF BringBack
<1> QED
  BY <1>3, <1>4, <1>5, <1>6

\* A step of the recovery, whichever.
LEMMA Recovering ==
  ASSUME FilesOK, ThreadsOK, NEW t \in Threads, Recover(t)
  PROVE  RecoverEffect(t) /\ th[t].pc \in RecoveryPCs
<1>1. RecoverEffect(t)
  BY LookEffect, JudgeEffect, MendEffect DEF Recover
<1>2. th[t].pc \in RecoveryPCs
  BY DEF Recover, Look, Judge, JudgeFails, RemoveDb, BringBack, DropBak, DropStage, At,
         RecoveryPCs
<1> QED
  BY <1>1, <1>2

-----------------------------------------------------------------------------
(* The steps of a command, and the type invariant. *)

ScalarsOK ==
  /\ snaps \in Seq(SafetySnapshot)
  /\ restoring \in BOOLEAN /\ app \in {"down", "booting", "up"} /\ ready \in BOOLEAN
  /\ atStart \in Content
  /\ acked \subseteq Writes /\ quiet \subseteq acked /\ calm \subseteq Threads
  /\ strain \subseteq {"overlap", "meddling", "rollback"}
  /\ begun \in 0..MaxCommands /\ crashes \in 0..MaxCrashes

Linked == \A u \in Threads : conn[u] # "none" <=> At(u, "commit")

OneRestore ==
  /\ restoring <=> \E u \in Threads : th[u].pc \in RestorePCs
  /\ \A u, v \in Threads : th[u].pc \in RestorePCs /\ th[v].pc \in RestorePCs => u = v

\* The invariant is that of the files, the threads and what relates them.
LEMMA TypeParts ==
  TypeInv <=> FilesOK /\ ThreadsOK /\ ScalarsOK /\ Linked /\ OneRestore /\ SetupAlone
  BY DEF TypeInv, TypeOK, FilesOK, ThreadsOK, ScalarsOK, Linked, OneRestore

\* A step that is not the begin or the end of a restore or of a connection.
LEMMA InnerStep ==
  ASSUME TypeInv, NEW t \in Threads, FilesOK', SameConnected, ThreadsOK', ScalarsOK',
         OthersStay(t), Busy(t), restoring' = restoring,
         th'[t].pc \in RestorePCs <=> th[t].pc \in RestorePCs,
         th'[t].pc # "commit", th[t].pc # "commit",
         \/ app' = app /\ (Busy(t)' => th'[t].task = th[t].task)
         \/ app' = "up" /\ ~Busy(t)'
  PROVE  TypeInv'
<1>1. SetupAlone'
  BY AloneStep, TypeParts
<1>2. Linked'
  BY TypeParts DEF Linked, SameConnected, OthersStay, At
<1>3. OneRestore'
  BY TypeParts DEF OneRestore, OthersStay
<1>4. (FilesOK /\ ThreadsOK /\ ScalarsOK /\ Linked /\ OneRestore /\ SetupAlone => TypeInv)'
  BY TypeParts, PTL
<1> QED
  BY <1>1, <1>2, <1>3, <1>4

\* The recovery.
LEMMA RecoverTypes ==
  ASSUME TypeInv, NEW t \in Threads, Recover(t) PROVE TypeInv'
<1>1. RecoverEffect(t) /\ th[t].pc \in RecoveryPCs
  BY Recovering, TypeParts
<1>2. ScalarsOK'
  BY <1>1, TypeParts DEF ScalarsOK, RecoverEffect, Recover, ghosts
<1>3. /\ th[t].pc \notin RestorePCs \cup {"commit", "idle"}
      /\ th'[t].pc \notin RestorePCs \cup {"commit"}
      /\ th'[t] = Idle => th'[t].pc = "idle"
  BY <1>1, ThreadParts DEF RecoverEffect, RecoveryPCs, RestorePCs
<1> QED
  BY <1>1, <1>2, <1>3, InnerStep DEF RecoverEffect, SameCommand, Busy, At

\* The test of the flag and of DB_READY.
LEMMA CheckEffect ==
  ASSUME FilesOK, ThreadsOK, NEW t \in Threads, Use(t), Check(t)
  PROVE  /\ FilesOK' /\ SameConnected /\ ThreadsOK' /\ OthersStay(t) /\ th[t].pc = "check"
         /\ \/ SameCommand(t) /\ th'[t].pc = "connect"
            \/ th'[t] = Idle
         /\ UNCHANGED <<files, process, history, begun, crashes>>
<1>1. FilesOK' /\ SameConnected /\ UNCHANGED <<files, process, history, begun, crashes>>
  BY DEF Check, Use, files, history, FilesOK, Connections, Healthy, SameConnected
<1>2. CASE Goto(t, "connect") /\ th[t].task = "boot"
  <2>1. "connect" \in OpeningPCs /\ "connect" \in PCs
    BY DEF OpeningPCs, PCs
  <2> QED
    BY <1>1, <1>2, <2>1, Kinds, GotoThread DEF Check, At
<1>3. CASE Goto(t, "connect") /\ th[t].task # "boot"
  <2>1. th[t].task \in {"none", "status", "write", "restore", "revert"} /\ th[t].pc = "check"
    BY <1>3, ThreadParts DEF ThreadsOK, CommandKinds, Check, At
  <2>2. "connect" \in TaskPCs[th[t].task] /\ "connect" \in PCs
    BY <2>1 DEF ThreadsOK, ThreadsMatch, TaskPCs, OpeningPCs, RestorePCs, PCs
  <2> QED
    BY <1>1, <1>3, <2>1, <2>2, GotoThread
<1>4. CASE Done(t)
  BY <1>1, <1>4, DoneThread DEF Check, At
<1> QED
  BY <1>2, <1>3, <1>4 DEF Check

\* The test of the flag keeps the types.
LEMMA CheckTypes ==
  ASSUME TypeInv, NEW t \in Threads, Use(t), Check(t) PROVE TypeInv'
<1>1. /\ FilesOK' /\ SameConnected /\ ThreadsOK' /\ OthersStay(t) /\ th[t].pc = "check"
      /\ \/ SameCommand(t) /\ th'[t].pc = "connect"
         \/ th'[t] = Idle
      /\ UNCHANGED <<files, process, history, begun, crashes>>
  BY CheckEffect, TypeParts
<1>2. ScalarsOK'
  BY <1>1, TypeParts DEF ScalarsOK, files, process, history, ghosts
<1>3. {"check", "connect", "idle"} \cap RestorePCs = {} /\ Idle.pc = "idle"
  BY ThreadParts DEF RestorePCs
<1> QED
  BY <1>1, <1>2, <1>3, InnerStep DEF process, SameCommand, Busy, At

\* Opening: setup() gets its tables, a write its connection, and an unreadable
\* database ends the command.
LEMMA ConnectEffect ==
  ASSUME FilesOK, ThreadsOK, NEW t \in Threads, Use(t), Connect(t), conn[t] = "none"
  PROVE  /\ FilesOK' /\ ThreadsOK' /\ OthersStay(t) /\ th[t].pc = "connect"
         /\ \A u \in Threads \ {t} : conn'[u] = conn[u]
         /\ \/ /\ th'[t] = Idle /\ app' = "up" /\ Opened["db"].state = "damaged"
               /\ UNCHANGED <<disk, conn, ready, calm>>
            \/ /\ th'[t] = Idle /\ app' = "up" /\ th[t].task = "boot"
               /\ disk' = Migrated(Opened) /\ ready' = TRUE
               /\ UNCHANGED <<conn, calm>>
            \/ /\ th'[t] = Idle /\ th[t].task = "status" /\ disk' = Opened
               /\ UNCHANGED <<conn, app, ready, calm>>
            \/ /\ th'[t].pc = "commit" /\ th[t].task = "write" /\ SameCommand(t)
               /\ disk' = Opened /\ conn'[t] = "db" /\ Opened["db"].state = "good"
               /\ th'[t].ok = (Opened["db"].base # "blank")
               /\ calm' = IF restoring THEN calm ELSE calm \cup {t}
               /\ UNCHANGED <<app, ready>>
         /\ UNCHANGED <<snaps, restoring, atStart, acked, quiet, strain, begun, crashes>>
<1>1. th[t].pc = "connect"
  BY DEF Connect, At
<1>2. CASE Opened["db"].state = "damaged" /\ GiveUp(t) /\ UNCHANGED ghosts
  <2>1. FilesOK'
    BY <1>2 DEF GiveUp, files, FilesOK, Connections, Healthy
  <2> QED
    BY <1>1, <1>2, <2>1, DoneThread DEF GiveUp, files, ghosts, Use
<1>3. CASE th[t].task = "boot" /\ disk' = Migrated(Opened) /\ Done(t) /\ app' = "up"
           /\ ready' = TRUE /\ UNCHANGED <<snaps, conn, restoring, ghosts>>
  BY <1>1, <1>3, MigrateFiles, DoneThread DEF ghosts, Use
<1>4. CASE th[t].task = "status" /\ disk' = Opened /\ Done(t)
           /\ UNCHANGED <<snaps, conn, process, ghosts>>
  BY <1>1, <1>4, OpenFiles, DoneThread DEF process, ghosts, Use
<1>5. CASE Opened["db"].state = "good" /\ th[t].task = "write" /\ disk' = Opened
           /\ conn' = [conn EXCEPT ![t] = "db"]
           /\ calm' = (IF restoring THEN calm ELSE calm \cup {t})
           /\ th' = [th EXCEPT ![t].pc = "commit", ![t].ok = Opened["db"].base # "blank"]
           /\ UNCHANGED <<snaps, process, atStart, acked, quiet>>
  <2>1. /\ conn' \in [Threads -> Places \cup {"none", "gone"}] /\ conn'[t] = "db"
        /\ \A u \in Threads \ {t} : conn'[u] = conn[u]
    BY <1>5 DEF FilesOK, Places
  <2>2. FilesOK'
    <3>1. disk' \in [Places -> Content] /\ disk'["db"].state = "good"
      BY <1>5, OpenFiles
    <3>2. \A p \in Places : disk[p].state = "good" => disk'[p] = disk[p]
      BY <1>5, OpenFiles DEF Exists, Places
    <3>3. \A p \in Places : disk'[p].state # "good" => disk'[p].writes = {}
      BY <1>5, OpenFiles, Contents DEF FilesOK, Connections, Healthy, Exists, Places
    <3> QED
      BY <2>1, <3>1, <3>2, <3>3 DEF FilesOK, Connections, Healthy
  <2>3. /\ th' \in [Threads -> Thread] /\ OthersStay(t)
        /\ th'[t] = [th[t] EXCEPT !.pc = "commit", !.ok = Opened["db"].base # "blank"]
    <3> DEFINE ok  == Opened["db"].base # "blank"
               mid == [th EXCEPT ![t].pc = "commit"]
               o   == [th[t] EXCEPT !.pc = "commit", !.ok = ok]
    <3>1. "commit" \in PCs /\ ok \in BOOLEAN /\ th' = [mid EXCEPT ![t].ok = ok]
      BY <1>5 DEF PCs
    <3> HIDE DEF ok
    <3>2. /\ mid \in [Threads -> Thread] /\ mid[t] = [th[t] EXCEPT !.pc = "commit"]
          /\ \A u \in Threads \ {t} : mid[u] = th[u]
      BY <3>1 DEF ThreadsOK, Thread
    <3>3. o \in Thread /\ [mid[t] EXCEPT !.ok = ok] = o
      BY <3>1, <3>2 DEF ThreadsOK, Thread
    <3> HIDE DEF mid, o
    <3>4. th'[t] = o /\ \A u \in Threads \ {t} : th'[u] = mid[u]
      BY <3>1, <3>2, <3>3
    <3> QED
      BY <3>1, <3>2, <3>3, <3>4 DEF OthersStay, o, ok
  <2>4. /\ SameCommand(t) /\ th'[t].pc = "commit"
        /\ th'[t].ok = (Opened["db"].base # "blank")
    BY <2>3 DEF ThreadsOK, Thread, SameCommand
  <2>5. ThreadsOK'
    <3>1. "commit" \in TaskPCs[th[t].task]
      BY <1>5, Kinds
    <3>2. ASSUME NEW u \in Threads
          PROVE  th'[u].pc \in TaskPCs[th'[u].task] /\ (th'[u].task \in CommandKinds => th'[u].id \in Writes)
      <4>1. CASE u = t
        BY <2>4, <3>1, <4>1 DEF ThreadsOK, ThreadsMatch, SameCommand
      <4>2. CASE u # t
        BY <2>3, <4>2 DEF ThreadsOK, ThreadsMatch, OthersStay
      <4> QED
        BY <4>1, <4>2
    <3> QED
      BY <2>3, <3>2 DEF ThreadsOK, ThreadsMatch
  <2> QED
    BY <1>1, <1>5, <2>1, <2>2, <2>3, <2>4, <2>5 DEF process, Use
<1> QED
  BY <1>2, <1>3, <1>4, <1>5 DEF Connect

\* A connection is opened by the thread that is about to commit.
LEMMA ConnectTypes ==
  ASSUME TypeInv, NEW t \in Threads, Use(t), Connect(t) PROVE TypeInv'
<1>1. At(t, "connect") /\ conn[t] = "none"
  BY TypeParts DEF Connect, Linked, At
<1>2. /\ FilesOK' /\ ThreadsOK' /\ OthersStay(t)
      /\ \A u \in Threads \ {t} : conn'[u] = conn[u]
      /\ conn'[t] # "none" <=> th'[t].pc = "commit"
      /\ th'[t].pc \in {"idle", "commit"}
      /\ \/ app' = app /\ SameCommand(t)
         \/ th'[t] = Idle /\ app' \in {app, "up"}
      /\ ready' \in BOOLEAN /\ calm' \subseteq Threads
      /\ UNCHANGED <<snaps, restoring, atStart, acked, quiet, strain, begun, crashes>>
  <2>1. /\ Idle.pc = "idle" /\ ready \in BOOLEAN /\ calm \subseteq Threads
        /\ "db" # "none" /\ "idle" # "commit"
    BY TypeParts, ThreadParts DEF ScalarsOK
  <2>2. FilesOK /\ ThreadsOK
    BY TypeParts
  <2>3. FilesOK' /\ ThreadsOK' /\ OthersStay(t) /\ \A u \in Threads \ {t} : conn'[u] = conn[u]
    BY <1>1, <2>2, ConnectEffect
  <2>4. UNCHANGED <<snaps, restoring, atStart, acked, quiet, strain, begun, crashes>>
    BY <1>1, <2>2, ConnectEffect
  <2>5. \/ /\ th'[t] = Idle /\ app' \in {app, "up"} /\ ready' \in {ready, TRUE}
           /\ UNCHANGED <<conn, calm>>
        \/ /\ th'[t].pc = "commit" /\ conn'[t] = "db" /\ SameCommand(t)
           /\ calm' = (IF restoring THEN calm ELSE calm \cup {t})
           /\ UNCHANGED <<app, ready>>
    BY <1>1, <2>2, ConnectEffect
  <2>6. CASE /\ th'[t] = Idle /\ app' \in {app, "up"} /\ ready' \in {ready, TRUE}
             /\ UNCHANGED <<conn, calm>>
    BY <1>1, <2>1, <2>3, <2>4, <2>6
  <2>7. CASE /\ th'[t].pc = "commit" /\ conn'[t] = "db" /\ SameCommand(t)
             /\ calm' = (IF restoring THEN calm ELSE calm \cup {t})
             /\ UNCHANGED <<app, ready>>
    BY <2>1, <2>3, <2>4, <2>7
  <2> QED
    BY <2>5, <2>6, <2>7
<1>3. ScalarsOK'
  BY <1>2, TypeParts DEF ScalarsOK
<1>4. Linked'
  BY <1>2, TypeParts DEF Linked, OthersStay, At
<1>5. OneRestore'
  BY <1>1, <1>2, TypeParts DEF OneRestore, OthersStay, At, RestorePCs
<1>6. SetupAlone'
  BY <1>1, <1>2, AloneStep, TypeParts, ThreadParts DEF Busy, At, SameCommand
<1>7. (FilesOK /\ ThreadsOK /\ ScalarsOK /\ Linked /\ OneRestore /\ SetupAlone => TypeInv)'
  BY TypeParts, PTL
<1> QED
  BY <1>2, <1>3, <1>4, <1>5, <1>6, <1>7

\* The end of a connection: what was written is in the file it points to.
LEMMA CommitEffect ==
  ASSUME TypeInv, NEW t \in Threads, Use(t), Commit(t) \/ CommitFails(t)
  PROVE  /\ FilesOK' /\ ThreadsOK' /\ OthersStay(t) /\ th'[t] = Idle
         /\ th[t].pc = "commit" /\ conn'[t] = "none" /\ th[t].id \in Writes
         /\ \A u \in Threads \ {t} : conn'[u] = conn[u]
         /\ \A p \in Places : /\ disk'[p].state = disk[p].state
                              /\ disk'[p].base = disk[p].base
                              /\ disk'[p].writes = IF th[t].ok /\ conn[t] = p
                                   THEN disk[p].writes \cup {th[t].id} ELSE disk[p].writes
         /\ acked' = IF th[t].ok THEN acked \cup {th[t].id} ELSE acked
         /\ quiet' = IF th[t].ok /\ t \in calm THEN quiet \cup {th[t].id} ELSE quiet
         /\ calm' = calm \ {t}
         /\ UNCHANGED <<snaps, process, atStart, strain, begun, crashes>>
<1>1. th[t].pc = "commit"
  BY DEF Commit, CommitFails, At
<1>2. th[t].id \in Writes
  BY <1>1, TypeParts, Kinds DEF ThreadsOK, ThreadsMatch, CommandKinds
<1>3. conn' \in [Threads -> Places \cup {"none", "gone"}] /\ conn'[t] = "none"
      /\ \A u \in Threads \ {t} : conn'[u] = conn[u]
  BY TypeParts DEF Commit, CommitFails, Closing, FilesOK
<1>4. conn[t] \in Places \cup {"gone"}
  BY <1>1, TypeParts DEF Linked, FilesOK, At
<1>5. /\ disk' \in [Places -> Content]
      /\ \A p \in Places : /\ disk'[p].state = disk[p].state
                           /\ disk'[p].base = disk[p].base
                           /\ disk'[p].writes = IF th[t].ok /\ conn[t] = p
                                THEN disk[p].writes \cup {th[t].id} ELSE disk[p].writes
  <2>1. CASE Commit(t) /\ conn[t] \in Places
    <3> DEFINE c == [disk[conn[t]] EXCEPT !.writes = disk[conn[t]].writes \cup {th[t].id}]
    <3>1. "gone" \notin Places
      BY DEF Places
    <3>2. disk' = [disk EXCEPT ![conn[t]] = c] /\ th[t].ok
      BY <2>1, <3>1 DEF Commit
    <3>3. /\ c \in Content /\ c.state = disk[conn[t]].state /\ c.base = disk[conn[t]].base
          /\ c.writes = disk[conn[t]].writes \cup {th[t].id}
      BY <1>2, <2>1, TypeParts DEF FilesOK, Content
    <3> HIDE DEF c
    <3> QED
      BY <2>1, <3>2, <3>3, TypeParts DEF FilesOK
  <2>2. CASE Commit(t) /\ conn[t] = "gone"
    BY <2>2, TypeParts DEF Commit, FilesOK, Places
  <2>3. CASE CommitFails(t)
    BY <2>3, TypeParts DEF CommitFails, FilesOK
  <2> QED
    BY <1>4, <2>1, <2>2, <2>3
<1>6. Connections'
  <2>1. ASSUME NEW p \in Places, disk'[p].state # "good" PROVE disk'[p].writes = {}
    <3>1. disk[p].state # "good" /\ disk[p].writes = {}
      BY <1>5, <2>1, TypeParts DEF FilesOK, Connections, Healthy
    <3>2. conn[t] # p
      BY <3>1, TypeParts DEF FilesOK, Connections, Healthy
    <3> QED
      BY <1>5, <3>1, <3>2
  <2>2. \A u \in Threads : conn'[u] \in Places =>
          conn'[u] # "stage" /\ disk'[conn'[u]].state = "good"
    BY <1>3, <1>5, TypeParts DEF FilesOK, Connections, Healthy, Places
  <2> QED
    BY <2>1, <2>2 DEF Connections, Healthy
<1>7. ThreadsOK' /\ OthersStay(t) /\ th'[t] = Idle
  BY TypeParts, DoneThread DEF Commit, CommitFails
<1>8. /\ acked' = IF th[t].ok THEN acked \cup {th[t].id} ELSE acked
      /\ quiet' = IF th[t].ok /\ t \in calm THEN quiet \cup {th[t].id} ELSE quiet
      /\ calm' = calm \ {t}
      /\ UNCHANGED <<snaps, process, atStart, strain, begun, crashes>>
  BY DEF Commit, CommitFails, Use
<1> QED
  BY <1>1, <1>2, <1>3, <1>5, <1>6, <1>7, <1>8 DEF FilesOK

\* And closed by its commit.
LEMMA CommitTypes ==
  ASSUME TypeInv, NEW t \in Threads, Use(t), Commit(t) \/ CommitFails(t) PROVE TypeInv'
<1>1. /\ FilesOK' /\ ThreadsOK' /\ OthersStay(t) /\ th'[t] = Idle
      /\ th[t].pc = "commit" /\ conn'[t] = "none" /\ th[t].id \in Writes
      /\ \A u \in Threads \ {t} : conn'[u] = conn[u]
      /\ acked' = IF th[t].ok THEN acked \cup {th[t].id} ELSE acked
      /\ quiet' = IF th[t].ok /\ t \in calm THEN quiet \cup {th[t].id} ELSE quiet
      /\ calm' = calm \ {t}
      /\ UNCHANGED <<snaps, process, atStart, strain, begun, crashes>>
  BY CommitEffect
<1>2. ScalarsOK'
  BY <1>1, TypeParts DEF ScalarsOK, process
<1>3. Linked'
  BY <1>1, TypeParts, ThreadParts DEF Linked, OthersStay, At
<1>4. OneRestore'
  BY <1>1, TypeParts, ThreadParts DEF OneRestore, OthersStay, process, RestorePCs
<1>5. SetupAlone'
  BY <1>1, AloneStep, TypeParts, ThreadParts DEF Busy, At, process
<1>6. (FilesOK /\ ThreadsOK /\ ScalarsOK /\ Linked /\ OneRestore /\ SetupAlone => TypeInv)'
  BY TypeParts, PTL
<1> QED
  BY <1>1, <1>2, <1>3, <1>4, <1>5, <1>6

\* The contents of a restore's source, and what stays of a list of snapshots.
LEMMA Sources ==
  ASSUME ScalarsOK, ThreadsOK, NEW t \in Threads
  PROVE  /\ Source(t) \in Content /\ Source(t).state = "good"
         /\ Snapshots \subseteq SafetySnapshot
         /\ th[t].from # 0 /\ ~Gone(t) =>
              \E s \in Snapshots : s.id = th[t].from /\ File(t) = s.is
<1>1. Snapshots \subseteq SafetySnapshot
  BY DEF Snapshots, ScalarsOK
<1>2. th[t].from # 0 /\ ~Gone(t) =>
        \E s \in Snapshots : s.id = th[t].from /\ File(t) = s.is
  BY DEF Gone, File
<1>3. Source(t) \in Content /\ Source(t).state = "good"
  BY <1>1, <1>2, Contents DEF Source, SafetySnapshot
<1> QED
  BY <1>1, <1>2, <1>3

\* A list that is not too long is not pruned, and a longer one loses its head.
LEMMA Pruning ==
  ASSUME NEW list \in Seq(SafetySnapshot)
  PROVE  /\ Pruned(list) \in Seq(SafetySnapshot)
         /\ Len(list) <= Quota => Pruned(list) = list
<1>1. Quota \in Nat \ {0} /\ Len(list) \in Nat
  BY ConstantsOK
<1>2. Len(list) <= Quota => Pruned(list) = list
  BY <1>1 DEF Pruned
<1>3. CASE Len(list) > Quota
  <2>1. \A i \in (Len(list) - Quota + 1)..Len(list) : list[i] \in SafetySnapshot
    BY <1>1, <1>3
  <2> QED
    BY <1>1, <1>2, <1>3, <2>1, SubSeqProperties DEF Pruned
<1> QED
  BY <1>1, <1>2, <1>3 DEF Pruned

\* What a step of a restore between its lock and its end may change.
ReplaceEffect(t) ==
  /\ FilesOK' /\ SameConnected /\ ThreadsOK' /\ OthersStay(t) /\ SameCommand(t)
  /\ th'[t].pc \in RestorePCs /\ snaps' \in Seq(SafetySnapshot)

\* The steps of one that leave the connections alone.
LEMMA StagingEffect ==
  ASSUME TypeInv, NEW t \in Threads,
         Snapshot(t) \/ Restage(t) \/ Fill(t) \/ Verify(t) \/ Reopen(t)
  PROVE  ReplaceEffect(t)
<1> USE DEF ReplaceEffect
<1>1. /\ {"restage", "fill", "clear", "discard", "cleanup", "return"} \subseteq RestorePCs
      /\ RestorePCs \subseteq PCs
      /\ "return" \in TaskPCs[th[t].task]
      /\ TaskPCs[th[t].task] = {"lock"} \cup RestorePCs
      /\ ThreadsOK /\ FilesOK /\ ScalarsOK /\ snaps \in Seq(SafetySnapshot)
      /\ th[t].id \in Writes
  BY TypeParts, Kinds
     DEF Snapshot, Restage, Fill, Verify, Reopen, At, RestorePCs, PCs, ScalarsOK,
         ThreadsOK, ThreadsMatch
<1>2. CASE Snapshot(t)
  <2>1. CASE SnapshotTaken(t) /\ Goto(t, "restage")
    <3>1. FilesOK' /\ SameConnected
      BY <1>1, <1>2, <2>1, OpenFiles DEF Snapshot, SnapshotTaken
    <3>2. [id |-> th[t].id, is |-> Opened["db"]] \in SafetySnapshot
      BY <1>1, <2>1, OpenFiles DEF SnapshotTaken, SafetySnapshot, Places
    <3> DEFINE list == Append(snaps, [id |-> th[t].id, is |-> Opened["db"]])
    <3>3. list \in Seq(SafetySnapshot)
      BY <1>1, <3>2
    <3>4. snaps' = Pruned(list)
      BY <2>1 DEF SnapshotTaken
    <3> HIDE DEF list
    <3>5. snaps' \in Seq(SafetySnapshot)
      BY <3>3, <3>4, Pruning
    <3> QED
      BY <1>1, <2>1, <3>1, <3>5, GotoThread
  <2>2. CASE Return(t, FALSE) /\ UNCHANGED <<disk, snaps>>
    <3>1. FilesOK' /\ SameConnected
      BY <1>1, <1>2, <2>2 DEF Snapshot, FilesOK, Connections, Healthy, SameConnected
    <3> QED
      BY <1>1, <2>2, <3>1, ReturnThread
  <2> QED
    BY <1>2, <2>1, <2>2 DEF Snapshot
<1>3. CASE Restage(t)
  BY <1>1, <1>3, StageFiles, Contents, GotoThread DEF Restage
<1>4. CASE Fill(t)
  <2>1. CASE /\ disk' = (IF Exists("stage") THEN [disk EXCEPT !["stage"] = Source(t)] ELSE disk)
             /\ snaps' = (IF Gone(t) THEN Append(snaps, [id |-> th[t].from, is |-> Blank])
                          ELSE snaps)
             /\ Goto(t, "clear")
    <3>1. FilesOK' /\ SameConnected
      <4>1. CASE Exists("stage")
        BY <1>1, <1>4, <2>1, <4>1, StageFiles, Sources DEF Fill
      <4>2. CASE ~Exists("stage")
        BY <1>1, <1>4, <2>1, <4>2 DEF Fill, FilesOK, Connections, Healthy, SameConnected
      <4> QED
        BY <4>1, <4>2
    <3>2. Gone(t) => [id |-> th[t].from, is |-> Blank] \in SafetySnapshot
      BY <1>1, ThreadParts, Contents DEF Gone, SafetySnapshot, ThreadsOK
    <3> QED
      BY <1>1, <2>1, <3>1, <3>2, GotoThread
  <2>2. CASE /\ disk' \in {disk, [disk EXCEPT !["stage"] = Missing]} /\ Return(t, FALSE)
             /\ UNCHANGED snaps
    <3>1. FilesOK' /\ SameConnected
      <4>1. CASE disk' = [disk EXCEPT !["stage"] = Missing]
        BY <1>1, <1>4, <4>1, StageFiles, Contents DEF Fill
      <4>2. CASE disk' = disk
        BY <1>1, <1>4, <4>2 DEF Fill, FilesOK, Connections, Healthy, SameConnected
      <4> QED
        BY <2>2, <4>1, <4>2
    <3> QED
      BY <1>1, <2>2, <3>1, ReturnThread
  <2> QED
    BY <1>4, <2>1, <2>2 DEF Fill
<1>5. CASE Verify(t)
  <2>1. FilesOK' /\ SameConnected
    BY <1>1, <1>5, OpenFiles DEF Verify
  <2> QED
    BY <1>1, <1>5, <2>1, GotoThread DEF Verify
<1>6. CASE Reopen(t)
  <2>1. FilesOK' /\ SameConnected
    BY <1>1, <1>6, OpenFiles DEF Reopen
  <2> QED
    BY <1>1, <1>6, <2>1, ReturnThread DEF Reopen
<1> QED
  BY <1>2, <1>3, <1>4, <1>5, <1>6

\* The original is preserved, and the thread knows that there was one.
LEMMA PreserveThread ==
  ASSUME ThreadsOK, NEW t \in Threads, "swap" \in TaskPCs[th[t].task],
         th' = [th EXCEPT ![t].pc = "swap", ![t].existed = TRUE]
  PROVE  /\ ThreadsOK' /\ OthersStay(t) /\ SameCommand(t)
         /\ th'[t].pc = "swap" /\ th'[t].existed
<1> DEFINE mid == [th EXCEPT ![t].pc = "swap"]
           o   == [th[t] EXCEPT !.pc = "swap", !.existed = TRUE]
<1>1. "swap" \in PCs /\ th' = [mid EXCEPT ![t].existed = TRUE]
  BY DEF PCs, RestorePCs
<1>2. /\ mid \in [Threads -> Thread] /\ mid[t] = [th[t] EXCEPT !.pc = "swap"]
      /\ \A u \in Threads \ {t} : mid[u] = th[u]
  BY <1>1 DEF ThreadsOK, Thread
<1>3. o \in Thread /\ [mid[t] EXCEPT !.existed = TRUE] = o
  BY <1>1, <1>2 DEF ThreadsOK, Thread
<1>4. o.pc = "swap" /\ o.existed /\ o.task = th[t].task /\ o.id = th[t].id
      /\ o.from = th[t].from /\ o.chosen = th[t].chosen
  BY DEF ThreadsOK, Thread
<1> HIDE DEF mid, o
<1>5. th' = [mid EXCEPT ![t] = o]
  BY <1>1, <1>3
<1>6. th'[t] = o /\ \A u \in Threads \ {t} : th'[u] = mid[u]
  BY <1>2, <1>5
<1>7. th' \in [Threads -> Thread]
  BY <1>2, <1>3, <1>5
<1>8. OthersStay(t) /\ SameCommand(t)
  BY <1>2, <1>4, <1>6 DEF OthersStay, SameCommand
<1>9. ThreadsMatch'
  BY <1>2, <1>4, <1>6 DEF ThreadsOK, ThreadsMatch
<1> QED
  BY <1>4, <1>6, <1>7, <1>8, <1>9 DEF ThreadsOK

\* The steps of a restore that rename or remove.
LEMMA SwappingEffect ==
  ASSUME TypeInv, NEW t \in Threads,
         \/ Clear(t) \/ Preserve(t) \/ Swap(t) \/ Undo(t) \/ Rollback(t) \/ Unstage(t)
         \/ Discard(t) \/ Cleanup(t)
  PROVE  ReplaceEffect(t)
<1> USE DEF ReplaceEffect
<1>1. /\ {"preserve", "swap", "verify", "undo", "unstage", "reopen", "rollback", "return"}
           \subseteq RestorePCs
      /\ RestorePCs \subseteq PCs
      /\ {"swap", "return"} \subseteq TaskPCs[th[t].task]
      /\ TaskPCs[th[t].task] = {"lock"} \cup RestorePCs
      /\ ThreadsOK /\ FilesOK /\ snaps \in Seq(SafetySnapshot)
      /\ {"db", "bak", "stage"} = Places
  BY TypeParts, Kinds
     DEF Clear, Preserve, Swap, Undo, Rollback, Unstage, Discard, Cleanup, At, RestorePCs,
         PCs, ScalarsOK, Places
<1>2. UNCHANGED <<disk, conn>> => FilesOK' /\ SameConnected
  BY <1>1 DEF FilesOK, Connections, Healthy, SameConnected
<1>3. ASSUME NEW next \in RestorePCs, RenameBack(t, next) PROVE ReplaceEffect(t)
  <2>1. FilesOK' /\ SameConnected
    BY <1>1, <1>2, <1>3, RenameFiles DEF RenameBack
  <2> QED
    BY <1>1, <1>3, <2>1, GotoThread DEF RenameBack
<1>4. CASE Clear(t)
  BY <1>1, <1>4, RemoveFiles, GotoThread DEF Clear
<1>5. CASE Discard(t)
  BY <1>1, <1>5, RemoveFiles, GotoThread DEF Discard
<1>6. CASE Unstage(t)
  BY <1>1, <1>6, RemoveFiles, ReturnThread DEF Unstage
<1>7. CASE Cleanup(t)
  BY <1>1, <1>7, RemoveFiles, ReturnThread DEF Cleanup
<1>8. CASE Undo(t) \/ Rollback(t)
  BY <1>1, <1>3, <1>8 DEF Undo, Rollback
<1>9. CASE Preserve(t)
  <2>1. FilesOK' /\ SameConnected /\ snaps' = snaps
    BY <1>1, <1>2, <1>9, RenameFiles DEF Preserve
  <2>2. CASE th' = [th EXCEPT ![t].pc = "swap", ![t].existed = TRUE]
    BY <1>1, <2>1, <2>2, PreserveThread
  <2>3. CASE Return(t, FALSE)
    BY <1>1, <2>1, <2>3, ReturnThread
  <2>4. CASE Goto(t, "swap")
    BY <1>1, <2>1, <2>4, GotoThread
  <2> QED
    BY <1>9, <2>2, <2>3, <2>4 DEF Preserve
<1>10. CASE Swap(t)
  <2>1. FilesOK' /\ SameConnected /\ snaps' = snaps
    BY <1>1, <1>2, <1>10, RenameFiles, DamageFiles DEF Swap
  <2>2. \E next \in {"verify", "undo"} : Goto(t, next)
    BY <1>10 DEF Swap
  <2> QED
    BY <1>1, <2>1, <2>2, GotoThread
<1> QED
  BY <1>4, <1>5, <1>6, <1>7, <1>8, <1>9, <1>10

\* Whatever step of a restore, between its lock and its end.
LEMMA ReplaceTypes ==
  ASSUME TypeInv, NEW t \in Threads, Replace(t)
  PROVE  ReplaceEffect(t) /\ th[t].pc \in RestorePCs \ {"return"} /\ TypeInv'
<1>1. ReplaceEffect(t)
  BY StagingEffect, SwappingEffect DEF Replace
<1>2. th[t].pc \in RestorePCs \ {"return"}
  BY DEF Replace, Snapshot, Restage, Fill, Verify, Reopen, Clear, Preserve, Swap, Undo,
         Rollback, Unstage, Discard, Cleanup, At, RestorePCs
<1>3. ScalarsOK'
  BY <1>1, TypeParts DEF ScalarsOK, ReplaceEffect, Replace, process, ghosts
<1>4. "commit" \notin RestorePCs /\ "idle" \notin RestorePCs
  BY DEF RestorePCs
<1>5. app' = app /\ restoring' = restoring
  BY DEF Replace, process
<1> QED
  BY <1>1, <1>2, <1>3, <1>4, <1>5, InnerStep DEF ReplaceEffect, SameCommand, Busy, At

\* The lock is taken by one restore only.
LEMMA LockTypes ==
  ASSUME TypeInv, NEW t \in Threads, Restore(t), Lock(t)
  PROVE  /\ TypeInv' /\ OthersStay(t) /\ th[t].pc = "lock" /\ files' = files
         /\ UNCHANGED <<acked, quiet, begun>>
         /\ \/ restoring /\ th'[t] = Idle /\ UNCHANGED <<restoring, atStart, calm>>
            \/ /\ ~restoring /\ SameCommand(t) /\ th'[t].pc = "snapshot"
               /\ atStart' = disk["db"] /\ calm' = {}
<1>1. /\ th[t].pc = "lock" /\ FilesOK /\ ThreadsOK /\ ScalarsOK
      /\ "snapshot" \in RestorePCs /\ "snapshot" \in PCs /\ {"lock", "idle"} \cap RestorePCs = {}
      /\ TaskPCs[th[t].task] = {"lock"} \cup RestorePCs /\ Idle.pc = "idle"
  BY TypeParts, Kinds, ThreadParts DEF Lock, At, RestorePCs, PCs
<1>2. /\ UNCHANGED <<files, app, ready, acked, quiet, begun, crashes>>
      /\ strain' \subseteq {"overlap", "meddling", "rollback"}
  BY <1>1 DEF Restore, Replace, Snapshot, Restage, Fill, Verify, Reopen, Clear, Preserve, Swap,
         Undo, Rollback, Unstage, Discard, Cleanup, Unlock, Lock, At, ScalarsOK
<1>3. CASE restoring
  <2>1. Done(t) /\ UNCHANGED <<restoring, atStart, calm>>
    BY <1>3 DEF Lock
  <2>2. ThreadsOK' /\ OthersStay(t) /\ th'[t] = Idle
    BY <1>1, <2>1, DoneThread
  <2>3. FilesOK' /\ SameConnected /\ ScalarsOK'
    BY <1>1, <1>2, <2>1 DEF files, FilesOK, Connections, Healthy, SameConnected, ScalarsOK
  <2>4. TypeInv'
    BY <1>1, <1>2, <2>1, <2>2, <2>3, InnerStep DEF Busy, At
  <2> QED
    BY <1>1, <1>2, <1>3, <2>1, <2>2, <2>4
<1>4. CASE ~restoring
  <2>1. restoring' = TRUE /\ atStart' = disk["db"] /\ calm' = {} /\ Goto(t, "snapshot")
    BY <1>4 DEF Lock
  <2>2. ThreadsOK' /\ OthersStay(t) /\ SameCommand(t) /\ th'[t].pc = "snapshot"
    BY <1>1, <2>1, GotoThread
  <2>3. FilesOK' /\ conn' = conn
    BY <1>1, <1>2 DEF files, FilesOK, Connections, Healthy
  <2>4. ScalarsOK'
    BY <1>1, <1>2, <2>1 DEF files, ScalarsOK, FilesOK, Places
  <2>5. OneRestore'
    BY <1>1, <1>4, <2>1, <2>2, TypeParts DEF OneRestore, OthersStay
  <2>6. Linked' /\ SetupAlone'
    BY <1>1, <1>2, <2>2, <2>3, TypeParts, AloneStep
       DEF Linked, OthersStay, SameCommand, Busy, At
  <2>7. (FilesOK /\ ThreadsOK /\ ScalarsOK /\ Linked /\ OneRestore /\ SetupAlone => TypeInv)'
    BY TypeParts, PTL
  <2> QED
    BY <1>1, <1>2, <1>4, <2>1, <2>2, <2>3, <2>4, <2>5, <2>6, <2>7
<1> QED
  BY <1>3, <1>4

\* The end of a restore.
LEMMA UnlockTypes ==
  ASSUME TypeInv, NEW t \in Threads, Unlock(t), UNCHANGED <<strain, begun, crashes>>
  PROVE  TypeInv' /\ OthersStay(t) /\ th[t].pc = "return" /\ th'[t] = Idle
<1>1. /\ th[t].pc = "return" /\ FilesOK /\ ThreadsOK /\ ScalarsOK /\ restoring' = FALSE
      /\ "return" \in RestorePCs /\ "idle" \notin RestorePCs /\ Idle.pc = "idle"
      /\ UNCHANGED <<files, app, ready, ghosts>>
  BY TypeParts, ThreadParts DEF Unlock, At, RestorePCs
<1>2. ThreadsOK' /\ OthersStay(t) /\ th'[t] = Idle
  BY <1>1, DoneThread DEF Unlock
<1>3. FilesOK' /\ ScalarsOK' /\ conn' = conn
  BY <1>1 DEF files, ghosts, FilesOK, Connections, Healthy, ScalarsOK
<1>4. OneRestore'
  BY <1>1, <1>2, TypeParts DEF OneRestore, OthersStay
<1>5. Linked' /\ SetupAlone'
  BY <1>1, <1>2, <1>3, TypeParts, AloneStep DEF Linked, OthersStay, Busy, At
<1>6. (FilesOK /\ ThreadsOK /\ ScalarsOK /\ Linked /\ OneRestore /\ SetupAlone => TypeInv)'
  BY TypeParts, PTL
<1> QED
  BY <1>1, <1>2, <1>3, <1>4, <1>5, <1>6

\* A start puts setup() on one thread.
LEMMA StartTypes ==
  ASSUME TypeInv, Start
  PROVE  /\ TypeInv' /\ app = "down" /\ app' = "booting"
         /\ \A u \in Threads : ~Busy(u)
         /\ \E t \in Threads : OthersStay(t) /\ th'[t].pc = "look"
         /\ UNCHANGED <<files, restoring, ready, history, begun, crashes>>
<1>1. /\ app = "down" /\ app' = "booting" /\ FilesOK /\ ThreadsOK /\ ScalarsOK
      /\ UNCHANGED <<files, restoring, ready, history, begun, crashes>>
      /\ \A u \in Threads : ~Busy(u) /\ th[u].pc = "idle"
  BY TypeParts DEF Start, SetupAlone, Busy, At
<1>2. PICK t \in Threads : th' = [th EXCEPT ![t].task = "boot", ![t].pc = "look"]
  BY DEF Start
<1>3. /\ th' \in [Threads -> Thread] /\ OthersStay(t)
      /\ th'[t].pc = "look" /\ th'[t].task = "boot"
  <2> DEFINE mid == [th EXCEPT ![t].task = "boot"]
             o   == [th[t] EXCEPT !.task = "boot", !.pc = "look"]
  <2>1. "look" \in PCs /\ th' = [mid EXCEPT ![t].pc = "look"]
    BY <1>2 DEF PCs, RecoveryPCs
  <2>2. /\ mid \in [Threads -> Thread] /\ mid[t] = [th[t] EXCEPT !.task = "boot"]
        /\ \A u \in Threads \ {t} : mid[u] = th[u]
    BY <1>1 DEF ThreadsOK, Thread
  <2>3. o \in Thread /\ [mid[t] EXCEPT !.pc = "look"] = o /\ o.pc = "look" /\ o.task = "boot"
    BY <1>1, <2>1, <2>2 DEF ThreadsOK, Thread
  <2> HIDE DEF mid, o
  <2>4. th'[t] = o /\ (\A u \in Threads \ {t} : th'[u] = mid[u]) /\ th' \in [Threads -> Thread]
    BY <2>1, <2>2, <2>3
  <2> QED
    BY <2>2, <2>3, <2>4 DEF OthersStay
<1>4. "look" \in OpeningPCs /\ "look" \notin RestorePCs /\ "idle" \notin RestorePCs
  BY DEF OpeningPCs, RecoveryPCs, RestorePCs
<1>5. ThreadsOK'
  <2>1. TaskPCs["boot"] = OpeningPCs /\ "boot" \notin CommandKinds
    BY DEF TaskPCs, CommandKinds
  <2> QED
    BY <1>1, <1>3, <1>4, <2>1 DEF ThreadsOK, ThreadsMatch, OthersStay
<1>6. FilesOK' /\ ScalarsOK' /\ conn' = conn
  BY <1>1 DEF files, history, ghosts, FilesOK, Connections, Healthy, ScalarsOK
<1>7. OneRestore' /\ Linked' /\ SetupAlone'
  BY <1>1, <1>3, <1>4, <1>6, TypeParts DEF OneRestore, Linked, SetupAlone, OthersStay, Busy, At
<1>8. (FilesOK /\ ThreadsOK /\ ScalarsOK /\ Linked /\ OneRestore /\ SetupAlone => TypeInv)'
  BY TypeParts, PTL
<1> QED
  BY <1>1, <1>3, <1>5, <1>6, <1>7, <1>8

\* A crash ends every command.
LEMMA CrashTypes ==
  ASSUME TypeInv, Crash
  PROVE  TypeInv' /\ \A u \in Threads : th'[u] = Idle
<1>1. /\ app' = "down" /\ ready' = FALSE /\ restoring' = FALSE /\ calm' = {}
      /\ th' = [u \in Threads |-> Idle] /\ conn' = [u \in Threads |-> "none"]
      /\ crashes' = crashes + 1 /\ crashes < MaxCrashes
      /\ UNCHANGED <<disk, snaps, atStart, acked, quiet, strain, begun>>
      /\ FilesOK /\ ScalarsOK /\ Idle \in Thread /\ Idle.pc = "idle" /\ Idle.task = "none"
      /\ MaxCrashes \in Nat /\ MaxCommands \in Nat
  BY TypeParts, ThreadParts, ConstantsOK DEF Crash
<1>2. ThreadsOK'
  BY <1>1 DEF ThreadsOK, ThreadsMatch, TaskPCs, CommandKinds
<1>3. FilesOK'
  BY <1>1 DEF FilesOK, Connections, Healthy, Places
<1>4. ScalarsOK'
  <2>1. crashes' \in 0..MaxCrashes
    BY <1>1 DEF ScalarsOK
  <2> QED
    BY <1>1, <2>1 DEF ScalarsOK
<1>5. Linked' /\ OneRestore' /\ SetupAlone'
  BY <1>1 DEF Linked, OneRestore, SetupAlone, Busy, At, RestorePCs
<1>6. (FilesOK /\ ThreadsOK /\ ScalarsOK /\ Linked /\ OneRestore /\ SetupAlone => TypeInv)'
  BY TypeParts, PTL
<1> QED
  BY <1>1, <1>2, <1>3, <1>4, <1>5, <1>6

\* A command begins in a program that is up, under a number of its own.
LEMMA BeginTypes ==
  ASSUME TypeInv, NEW t \in Threads, Begin(t)
  PROVE  /\ TypeInv' /\ OthersStay(t) /\ app = "up" /\ ~Busy(t)
         /\ th'[t].id = begun + 1 /\ begun' = begun + 1
         /\ th'[t].pc \in {"look", "check", "lock"} /\ ~th'[t].ok
         /\ th'[t].pc = "lock" => \/ th'[t].from = 0 /\ th'[t].chosen = Backup
                                  \/ \E s \in Snapshots : th'[t].from = s.id
                                                          /\ th'[t].chosen = s.is
         /\ UNCHANGED <<files, process, ghosts>>
<1>1. /\ app = "up" /\ th[t].pc = "idle" /\ begun < MaxCommands /\ begun' = begun + 1
      /\ strain' \subseteq {"overlap", "meddling", "rollback"}
      /\ UNCHANGED <<files, process, ghosts, crashes>>
      /\ FilesOK /\ ThreadsOK /\ ScalarsOK
      /\ Snapshots \subseteq SafetySnapshot
  BY TypeParts, Sources DEF Begin, At, ScalarsOK
<1> DEFINE News == [pc : {"look", "check", "lock"}, task : CommandKinds, id : {begun + 1},
                    existed : {FALSE}, ok : {FALSE}, from : Writes \cup {0}, chosen : Content]
           Fits(o) == /\ o.pc = "look" <=> o.task = "status"
                      /\ o.pc = "check" <=> o.task = "write"
                      /\ o.pc = "lock" => \/ o.from = 0 /\ o.chosen = Backup
                                          \/ \E s \in Snapshots : o.from = s.id /\ o.chosen = s.is
<1>2. \E o \in News : th' = [th EXCEPT ![t] = o] /\ Fits(o)
  <2>1. PICK c \in Commands :
          LET new == [Idle EXCEPT !.pc = FirstPC[c], !.task = c, !.id = begun + 1]
          IN \/ c \in {"status", "write"} /\ th' = [th EXCEPT ![t] = new]
             \/ /\ c = "restore" /\ ready
                /\ th' = [th EXCEPT ![t] = [new EXCEPT !.chosen = Backup]]
             \/ /\ c = "revert" /\ ready
                /\ \E s \in Snapshots :
                     th' = [th EXCEPT ![t] = [new EXCEPT !.from = s.id, !.chosen = s.is]]
    BY DEF Begin
  <2> DEFINE new        == [Idle EXCEPT !.pc = FirstPC[c], !.task = c, !.id = begun + 1]
             chosen(is) == [new EXCEPT !.chosen = is]
             revert(s)  == [new EXCEPT !.from = s.id, !.chosen = s.is]
  <2>2. c \in CommandKinds /\ FirstPC[c] \in {"look", "check", "lock"}
        /\ (FirstPC[c] = "look" <=> c = "status") /\ (FirstPC[c] = "check" <=> c = "write")
    BY ConstantsOK DEF FirstPC, CommandKinds
  <2>3. new \in News /\ new.pc = FirstPC[c] /\ new.task = c
    BY <2>2, Contents DEF Idle
  <2>4. \A s \in Snapshots : s.id \in Writes /\ s.is \in Content
    BY <1>1 DEF SafetySnapshot
  <2>5. \/ c \in {"status", "write"} /\ th' = [th EXCEPT ![t] = new]
        \/ c = "restore" /\ th' = [th EXCEPT ![t] = chosen(Backup)]
        \/ c = "revert" /\ \E s \in Snapshots : th' = [th EXCEPT ![t] = revert(s)]
    BY <2>1
  <2> HIDE DEF new
  <2>6. CASE c \in {"status", "write"} /\ th' = [th EXCEPT ![t] = new]
    <3>1. new \in News /\ Fits(new)
      BY <2>2, <2>3, <2>6
    <3> HIDE DEF Fits, News
    <3> QED
      BY <2>6, <3>1
  <2>7. CASE c = "restore" /\ th' = [th EXCEPT ![t] = chosen(Backup)]
    <3> DEFINE o == chosen(Backup)
    <3>1. /\ o \in News /\ o.pc = FirstPC[c] /\ o.task = c /\ o.from = new.from
          /\ o.chosen = Backup
      BY <2>3, Contents
    <3>2. new.from = 0
      BY DEF new, Idle
    <3> HIDE DEF o
    <3>3. Fits(o)
      BY <2>2, <2>7, <3>1, <3>2
    <3> HIDE DEF Fits, News
    <3> QED
      BY <2>7, <3>1, <3>3 DEF o
  <2>8. CASE c = "revert" /\ \E s \in Snapshots : th' = [th EXCEPT ![t] = revert(s)]
    <3>1. PICK s \in Snapshots : th' = [th EXCEPT ![t] = revert(s)]
      BY <2>8
    <3> DEFINE o == revert(s)
    <3>2. s.id \in Writes /\ s.is \in Content
      BY <2>4
    <3>3. /\ o \in News /\ o.pc = FirstPC[c] /\ o.task = c /\ o.from = s.id
          /\ o.chosen = s.is
      BY <2>3, <3>2
    <3> HIDE DEF o
    <3>4. Fits(o)
      BY <2>2, <2>8, <3>3
    <3> HIDE DEF Fits, News
    <3> QED
      BY <3>1, <3>3, <3>4 DEF o
  <2> QED
    BY <2>5, <2>6, <2>7, <2>8
<1>3. PICK o \in News : th' = [th EXCEPT ![t] = o] /\ Fits(o)
  BY <1>2
<1>4. /\ begun + 1 \in Writes /\ begun' \in 0..MaxCommands
  BY <1>1, ConstantsOK DEF ScalarsOK, Writes
<1>5. /\ o \in Thread /\ th' \in [Threads -> Thread] /\ th'[t] = o /\ OthersStay(t)
  BY <1>1, <1>3, <1>4 DEF Thread, PCs, RecoveryPCs, ThreadsOK, OthersStay
<1>6. o.pc \in TaskPCs[o.task] /\ o.pc \notin RestorePCs \cup {"commit", "idle"}
  BY <1>3 DEF TaskPCs, OpeningPCs, RecoveryPCs, RestorePCs, CommandKinds
<1>7. ThreadsOK'
  BY <1>1, <1>3, <1>4, <1>5, <1>6 DEF ThreadsOK, ThreadsMatch, OthersStay
<1>8. FilesOK' /\ ScalarsOK' /\ conn' = conn
  BY <1>1, <1>4 DEF files, process, ghosts, FilesOK, Connections, Healthy, ScalarsOK
<1>9. Linked'
  BY <1>1, <1>5, <1>6, <1>8, TypeParts DEF Linked, OthersStay, At
<1>10. OneRestore'
  BY <1>1, <1>5, <1>6, TypeParts DEF OneRestore, OthersStay, process, RestorePCs
<1>11. SetupAlone'
  BY <1>1, <1>3, <1>5, TypeParts DEF SetupAlone, OthersStay, process, Busy, At, CommandKinds
<1>12. (FilesOK /\ ThreadsOK /\ ScalarsOK /\ Linked /\ OneRestore /\ SetupAlone => TypeInv)'
  BY TypeParts, PTL
<1> QED
  BY <1>1, <1>3, <1>5, <1>7, <1>8, <1>9, <1>10, <1>11, <1>12 DEF Busy, At

\* The first state.
LEMMA InitTypes == Init => TypeInv
<1> SUFFICES ASSUME Init PROVE TypeInv
  OBVIOUS
<1>1. /\ Idle \in Thread /\ Idle.pc = "idle" /\ Idle.task = "none"
      /\ MaxCrashes \in Nat /\ MaxCommands \in Nat
      /\ {Installed, Missing} \subseteq Content
      /\ Installed.state = "good" /\ Missing.state = "missing" /\ Missing.writes = {}
  BY ThreadParts, Contents, ConstantsOK
<1>2. /\ \A p \in Places : disk[p] = IF p = "db" THEN Installed ELSE Missing
      /\ disk \in [Places -> Content] /\ conn \in [Threads -> Places \cup {"none", "gone"}]
      /\ \A t \in Threads : conn[t] = "none" /\ th[t] = Idle
      /\ th \in [Threads -> Thread]
  BY <1>1 DEF Init
<1>3. FilesOK
  BY <1>1, <1>2 DEF FilesOK, Connections, Healthy, Places
<1>4. ThreadsOK
  BY <1>1, <1>2 DEF ThreadsOK, ThreadsMatch, TaskPCs, CommandKinds
<1>5. ScalarsOK
  <2>1. snaps \in Seq(SafetySnapshot) /\ begun \in 0..MaxCommands /\ crashes \in 0..MaxCrashes
    BY <1>1 DEF Init
  <2> QED
    BY <1>1, <2>1 DEF Init, ScalarsOK
<1>6. Linked /\ OneRestore /\ SetupAlone
  BY <1>1, <1>2 DEF Init, Linked, OneRestore, SetupAlone, Busy, At, RestorePCs
<1> QED
  BY <1>3, <1>4, <1>5, <1>6, TypeParts

\* Whatever step is taken.
LEMMA NextTypes == TypeInv /\ [Next]_vars => TypeInv'
<1> SUFFICES ASSUME TypeInv, [Next]_vars PROVE TypeInv'
  OBVIOUS
<1>1. ASSUME NEW t \in Threads, Step(t) PROVE TypeInv'
  <2>1. CASE Recover(t)
    BY <2>1, RecoverTypes
  <2>2. CASE Use(t)
    BY <2>2, CheckTypes, ConnectTypes, CommitTypes DEF Use
  <2>3. CASE Restore(t)
    BY <2>3, ReplaceTypes, LockTypes, UnlockTypes DEF Restore
  <2> QED
    BY <1>1, <2>1, <2>2, <2>3 DEF Step
<1>2. CASE UNCHANGED vars
  BY <1>2 DEF vars, files, process, history, ghosts, TypeInv, TypeOK, Snapshots, ThreadsMatch,
              SetupAlone, Connections, Healthy, Busy, At
<1> QED
  BY <1>1, <1>2, StartTypes, CrashTypes, BeginTypes DEF Next

\* Every variable keeps its type, and RESTORE_IN_PROGRESS is set exactly while one
\* restore runs, for any threads, bounds, faults and platform.
THEOREM RestoreTypes == Spec => []TypeOK
<1>1. TypeInv => TypeOK
  BY DEF TypeInv
<1> QED
  BY <1>1, InitTypes, NextTypes, PTL DEF Spec

-----------------------------------------------------------------------------
(* The writes that met no restore. *)

\* Who may run beside a busy thread.
LEMMA Company ==
  ASSUME TypeInv, NEW t \in Threads, Busy(t)
  PROVE  /\ app \in {"booting", "up"}
         /\ app = "booting" => /\ th[t].task = "boot" /\ ~restoring
                               /\ \A u \in Threads \ {t} : th[u].pc = "idle"
                               /\ \A u \in Threads : th[u].pc # "commit" => conn[u] = "none"
         /\ th[t].task # "boot" => app = "up"
         /\ th[t].pc \in RestorePCs \cup {"lock", "commit"} => app = "up"
         /\ th[t].pc \in RestorePCs =>
              restoring /\ \A u \in Threads \ {t} : th[u].pc \notin RestorePCs
<1>1. app \in {"down", "booting", "up"}
  BY TypeParts DEF ScalarsOK
<1>2. th[t].pc \in RestorePCs \cup {"lock", "commit"} => th[t].task # "boot"
  BY TypeParts, Kinds DEF CommandKinds
<1>3. app # "booting" \/ ~restoring
  BY TypeParts, Kinds DEF OneRestore, SetupAlone, Busy, At, CommandKinds, RestorePCs
<1> QED
  BY <1>1, <1>2, <1>3, TypeParts DEF SetupAlone, OneRestore, Linked, Busy, At

\* What the recovery knows is true of a thread that is not in it.
LEMMA NotRecovering ==
  ASSUME NEW u \in Threads, app = "booting" => th[u].pc = "idle",
         th[u].pc \notin RecoveryPCs \ {"look"}
  PROVE  RecoveryKnows(u)
  BY DEF RecoveryKnows, RecoveryPCs, At

\* And what a restore knows, of one that is not in it.
LEMMA NotRestoring ==
  ASSUME NEW u \in Threads, th[u].pc \notin RestorePCs
  PROVE  RestoreKnows(u)
  BY DEF RestoreKnows, RestorePCs

\* A step that leaves the database and orig_bak as they are does not concern those
\* who are not taking it, nor the writes.
LEMMA SameFiles ==
  ASSUME TypeInv, QuietInv, Apart, NEW t \in Threads, OthersStay(t), Busy(t),
         th[t].pc # "commit", SameConnected,
         snaps' = snaps, quiet' = quiet, calm' = calm, restoring' = restoring,
         disk'["db"] = disk["db"], disk'["bak"] = disk["bak"],
         \A u \in Threads : conn[u] = "db" <=> conn'[u] = "db",
         app' = app \/ app = "booting"
  PROVE  /\ QuietSafe' /\ CalmConnections'
         /\ Barren => Barren'
         /\ \A u \in Threads \ {t} : RecoveryKnows(u)' /\ RestoreKnows(u)'
<1>1. conn[t] = "none"
  BY TypeParts DEF Linked, At
<1>2. /\ QuietSafe /\ CalmConnections
      /\ \A u \in Threads : RecoveryKnows(u) /\ RestoreKnows(u)
  BY DEF QuietInv
<1>3. QuietSafe'
  BY <1>2 DEF QuietSafe, Saved, Snapshots
<1>4. CalmConnections'
  BY <1>1, <1>2, TypeParts DEF CalmConnections, OthersStay, ScalarsOK, At
<1>5. Barren => Barren'
  BY <1>1 DEF Barren, OthersStay, Healthy
<1>6. ASSUME NEW u \in Threads \ {t} PROVE RecoveryKnows(u)'
  <2>1. th'[u] = th[u] /\ (app = "booting" => th[u].pc = "idle")
    BY Company DEF OthersStay
  <2> QED
    BY <1>2, <1>5, <2>1 DEF RecoveryKnows, At, Exists, Healthy
<1>7. ASSUME NEW u \in Threads \ {t} PROVE RestoreKnows(u)'
  BY <1>2 DEF OthersStay, RestoreKnows, Exists, Healthy, Saved, Snapshots
<1> QED
  BY <1>3, <1>4, <1>5, <1>6, <1>7

\* What a step of the recovery has to show for itself.
LEMMA RecoveryStep ==
  ASSUME TypeInv, NEW t \in Threads, Recover(t), Apart'
  PROVE  /\ ~restoring /\ ~restoring' /\ Apart /\ Busy(t) /\ th[t].pc # "commit"
         /\ OthersStay(t) /\ SameConnected /\ FilesOK' /\ FilesOK
         /\ UNCHANGED <<snaps, quiet, calm, restoring>>
         /\ app' = app \/ (app = "booting" /\ app' = "up")
         /\ th'[t].pc \notin RestorePCs
         /\ \A u \in Threads : RestoreKnows(u)' /\ th[u].pc \notin RestorePCs
         /\ NobodyMeddles'
<1>1. RecoverEffect(t) /\ th[t].pc \in RecoveryPCs /\ FilesOK
  BY Recovering, TypeParts
<1>2. ~restoring /\ Apart
  <2>1. strain' = strain \cup {s \in {"meddling"} : restoring}
    BY DEF Recover
  <2> QED
    BY <2>1 DEF Apart
<1>3. Busy(t) /\ th[t].pc # "commit" /\ th'[t].pc \notin RestorePCs
  BY <1>1, ThreadParts DEF RecoverEffect, RecoveryPCs, RestorePCs, Busy, At
<1>4. /\ OthersStay(t) /\ SameConnected /\ FilesOK'
      /\ UNCHANGED <<snaps, quiet, calm, restoring>>
      /\ app' = app \/ (app = "booting" /\ app' = "up")
  BY <1>1, <1>3, Company DEF RecoverEffect, ghosts
<1>5. \A u \in Threads : th[u].pc \notin RestorePCs /\ th'[u].pc \notin RestorePCs
  BY <1>2, <1>3, <1>4, TypeParts DEF OneRestore, OthersStay
<1>6. \A u \in Threads : RestoreKnows(u)'
  BY <1>5 DEF RestoreKnows, RestorePCs
<1> QED
  BY <1>1, <1>2, <1>3, <1>4, <1>5, <1>6 DEF NobodyMeddles

\* A look finds orig_bak or, where there is none, a database that is not damaged.
LEMMA LookQuiet ==
  ASSUME TypeInv, QuietInv, NEW t \in Threads, Recover(t), Look(t), Apart'
  PROVE  QuietInv'
<1>1. /\ ~restoring /\ ~restoring' /\ Apart /\ Busy(t) /\ th[t].pc # "commit"
      /\ OthersStay(t) /\ SameConnected
      /\ UNCHANGED <<snaps, quiet, calm, restoring>>
      /\ app' = app \/ (app = "booting" /\ app' = "up")
      /\ \A u \in Threads : RestoreKnows(u)' /\ th[u].pc \notin RestorePCs
      /\ NobodyMeddles'
  BY RecoveryStep
<1>2. disk' = disk /\ conn' = conn
  BY DEF Look, GiveUp, files
<1>3. /\ QuietSafe' /\ CalmConnections'
      /\ \A u \in Threads \ {t} : RecoveryKnows(u)'
  BY <1>1, <1>2, SameFiles
<1>4. OriginalBeside
  BY <1>1 DEF QuietInv
<1>5. ~Exists("bak") => disk["db"].state # "damaged"
  BY <1>4 DEF OriginalBeside
<1>6. RecoveryKnows(t)'
  <2>1. \/ th'[t].pc = "judge" /\ Exists("bak")
        \/ th'[t].pc \in {"dropStage", "check", "idle"} /\ (th'[t].pc = "idle" \/ ~Exists("bak"))
    <3>1. th \in [Threads -> Thread] /\ Idle.pc = "idle"
      BY TypeParts, ThreadParts DEF ThreadsOK
    <3> QED
      BY <3>1 DEF Look, Goto, GiveUp, Done, Thread
  <2> QED
    BY <1>2, <1>5, <2>1 DEF RecoveryKnows, At, Exists
<1>7. OriginalBeside'
  <2>1. app' = "up" => app = "up" \/ disk["db"].state # "damaged"
    BY <1>5, TypeParts DEF Look, GiveUp, process, Exists
  <2> QED
    BY <1>1, <1>2, <1>4, <2>1 DEF OriginalBeside, Exists, Healthy, RestorePCs
<1> QED
  BY <1>1, <1>3, <1>6, <1>7 DEF QuietInv

\* The recovery judges the database by its state, which no restore changes meanwhile.
LEMMA JudgeQuiet ==
  ASSUME TypeInv, QuietInv, NEW t \in Threads, Recover(t), Judge(t) \/ JudgeFails(t), Apart'
  PROVE  QuietInv'
<1>1. /\ ~restoring /\ ~restoring' /\ Apart /\ Busy(t) /\ th[t].pc # "commit"
      /\ OthersStay(t) /\ SameConnected
      /\ UNCHANGED <<snaps, quiet, calm, restoring>>
      /\ app' = app \/ (app = "booting" /\ app' = "up")
      /\ \A u \in Threads : RestoreKnows(u)' /\ th[u].pc \notin RestorePCs
      /\ NobodyMeddles'
  BY RecoveryStep
<1>2. disk' = disk /\ conn' = conn
  BY DEF Judge, JudgeFails, GiveUp, files
<1>3. /\ QuietSafe' /\ CalmConnections'
      /\ Barren => Barren'
      /\ \A u \in Threads \ {t} : RecoveryKnows(u)'
  BY <1>1, <1>2, SameFiles
<1>4. OriginalBeside /\ RecoveryKnows(t)
  BY <1>1 DEF QuietInv
<1>5. \A u \in Threads : conn[u] = "db" => Healthy("db")
  BY TypeParts DEF FilesOK, Connections, Places
<1>6. ~Healthy("db") => Barren
  BY <1>5, TypeParts DEF Barren, FilesOK, Connections, Places
<1>7. app = "up" => disk["db"].state # "damaged"
  BY <1>1, <1>4 DEF OriginalBeside, RestorePCs
<1>8. /\ disk["db"].state \in {"missing", "damaged", "good"}
      /\ th \in [Threads -> Thread] /\ Idle.pc = "idle" /\ app \in {"booting", "up"}
  BY <1>1, TypeParts, ThreadParts, Company DEF FilesOK, Places, Content, ThreadsOK
<1>9. RecoveryKnows(t)'
  <2>1. CASE At(t, "judge")
    <3>1. th'[t].pc = IF Exists("db") THEN "health" ELSE "judgeBak"
      BY <1>8, <2>1 DEF Judge, JudgeFails, Goto, At, Thread
    <3>2. ~Exists("db") => Barren'
      BY <1>3, <1>6 DEF Exists, Healthy
    <3>3. app' = app
      BY <2>1 DEF Judge, JudgeFails, At, process
    <3> QED
      BY <1>2, <1>4, <2>1, <3>1, <3>2, <3>3 DEF RecoveryKnows, At, Exists
  <2>2. CASE At(t, "health")
    <3>1. th'[t].pc = IF Healthy("db") THEN "dropBak" ELSE "judgeBoth"
      BY <1>8, <2>2 DEF Judge, JudgeFails, Goto, At, Thread
    <3>2. app' = app
      BY <2>2 DEF Judge, JudgeFails, At, process
    <3>3. ~Healthy("db") => app = "booting"
      BY <1>4, <1>7, <1>8, <2>2 DEF RecoveryKnows, Exists, Healthy
    <3> QED
      BY <1>2, <1>4, <2>2, <3>1, <3>2, <3>3 DEF RecoveryKnows, At, Exists, Healthy
  <2>3. CASE At(t, "judgeBoth") \/ At(t, "judgeBak")
    <3>1. \/ /\ th'[t].pc = IF At(t, "judgeBoth") THEN "removeDb" ELSE "bringBack"
             /\ app' = app
          \/ th'[t].pc = "idle"
      BY <1>8, <2>3 DEF Judge, JudgeFails, GiveUp, Done, Goto, At, Thread, process
    <3> QED
      BY <1>2, <1>3, <1>4, <2>3, <3>1 DEF RecoveryKnows, At, Exists, Healthy
  <2> QED
    BY <2>1, <2>2, <2>3 DEF Judge, JudgeFails
<1>10. OriginalBeside'
  <2>1. JudgeFails(t) => disk["db"].state # "damaged"
    BY <1>4 DEF JudgeFails, OriginalBeside
  <2>2. app' = "up" => app = "up" \/ disk["db"].state # "damaged"
    BY <2>1 DEF Judge, process
  <2> QED
    BY <1>1, <1>2, <1>4, <1>7, <1>8, <2>2 DEF OriginalBeside, Exists, Healthy
<1> QED
  BY <1>1, <1>3, <1>9, <1>10 DEF QuietInv

\* Only setup() removes a database, and only one that holds nothing.
LEMMA RemoveDbQuiet ==
  ASSUME TypeInv, QuietInv, NEW t \in Threads, Recover(t), RemoveDb(t), Apart'
  PROVE  QuietInv'
<1>1. /\ ~restoring /\ ~restoring' /\ Apart /\ Busy(t) /\ OthersStay(t)
      /\ UNCHANGED <<snaps, quiet, calm>> /\ FilesOK
      /\ \A u \in Threads : RestoreKnows(u)'
      /\ NobodyMeddles'
  BY RecoveryStep
<1>2. /\ At(t, "removeDb") /\ app' = app /\ Remove("db") /\ Goto(t, "bringBack")
  BY DEF RemoveDb, process
<1>3. app = "booting" /\ ~Healthy("db") /\ Exists("bak") /\ disk["db"].writes = {}
  BY <1>1, <1>2, TypeParts DEF QuietInv, RecoveryKnows, At, FilesOK, Connections, Places
<1>4. \A u \in Threads : conn[u] = "none" /\ (u # t => th[u].pc = "idle")
  BY <1>1, <1>2, <1>3, Company, ThreadParts DEF At
<1>5. /\ disk'["db"] \in {disk["db"], Missing} /\ disk'["bak"] = disk["bak"]
      /\ \A u \in Threads : conn'[u] = "none"
  BY <1>1, <1>2, <1>4, RemoveFiles DEF Places
<1>6. /\ disk'["db"].state # "good" /\ disk'["db"].writes = {}
      /\ disk'["db"].state = "damaged" => disk["db"].state = "damaged"
  BY <1>3, <1>5, Contents DEF Healthy
<1>7. th'[t].pc = "bringBack"
  BY <1>2, TypeParts DEF Goto, ThreadsOK, Thread
<1>8. Barren'
  BY <1>5, <1>6 DEF Barren, Healthy
<1>9. calm = {}
  BY <1>1, <1>2, <1>4, TypeParts DEF QuietInv, CalmConnections, ScalarsOK, At
<1>10. QuietSafe'
  BY <1>1, <1>3 DEF QuietInv, QuietSafe, Saved, Snapshots
<1>11. OriginalBeside'
  BY <1>1, <1>2, <1>3, <1>5, <1>6 DEF QuietInv, OriginalBeside, Exists, Healthy
<1>12. \A u \in Threads : RecoveryKnows(u)'
  BY <1>1, <1>3, <1>4, <1>5, <1>7, <1>8 DEF RecoveryKnows, OthersStay, At, Exists
<1> QED
  BY <1>1, <1>8, <1>9, <1>10, <1>11, <1>12 DEF QuietInv, CalmConnections

\* The original comes back over a database that holds nothing.
LEMMA BringBackQuiet ==
  ASSUME TypeInv, QuietInv, NEW t \in Threads, Recover(t), BringBack(t), Apart'
  PROVE  QuietInv'
<1>1. /\ ~restoring /\ ~restoring' /\ Apart /\ Busy(t) /\ th[t].pc # "commit"
      /\ OthersStay(t) /\ SameConnected /\ FilesOK
      /\ UNCHANGED <<snaps, quiet, calm, restoring>>
      /\ app' = app \/ (app = "booting" /\ app' = "up")
      /\ \A u \in Threads : RestoreKnows(u)' /\ th[u].pc \notin RestorePCs
      /\ NobodyMeddles'
  BY RecoveryStep
<1>2. /\ At(t, "bringBack") /\ OriginalBeside /\ CalmConnections /\ QuietSafe
      /\ \A u \in Threads : RecoveryKnows(u)
      /\ th \in [Threads -> Thread] /\ Idle.pc = "idle"
  BY <1>1, TypeParts, ThreadParts DEF BringBack, QuietInv, ThreadsOK
<1>3. CASE /\ CanRename("bak", "db") /\ Rename("bak", "db") /\ Goto(t, "dropStage")
           /\ UNCHANGED <<snaps, process>>
  <2>1. Exists("bak") /\ Healthy("bak") /\ Barren
    BY <1>2, <1>3 DEF CanRename, RecoveryKnows, OriginalBeside, At
  <2>2. /\ disk'["db"] = disk["bak"] /\ disk'["bak"] = Missing
        /\ \A u \in Threads : conn'[u] = IF conn[u] = "bak" THEN "db"
                                         ELSE IF conn[u] = "db" THEN "gone" ELSE conn[u]
    BY <1>1, <1>3, RenameFiles DEF Places
  <2>3. th'[t].pc = "dropStage" /\ app' = app
    BY <1>2, <1>3 DEF Goto, Thread, process
  <2>4. ASSUME NEW u \in calm PROVE At(u, "commit")' /\ (th'[u].ok => conn'[u] = "db")
    <3>1. u \in Threads /\ u # t /\ th'[u] = th[u] /\ th[u].pc = "commit"
      BY <1>1, <1>2, <2>4, TypeParts DEF CalmConnections, ScalarsOK, OthersStay, At
    <3>2. ~th[u].ok
      BY <1>2, <2>1, <2>4, <3>1 DEF CalmConnections, Barren
    <3> QED
      BY <3>1, <3>2 DEF At
  <2>5. QuietSafe'
    BY <1>1, <1>2, <2>1 DEF QuietSafe, Barren, Saved, Snapshots
  <2>6. OriginalBeside'
    BY <2>1, <2>2, Contents DEF OriginalBeside, Exists, Healthy
  <2>7. ASSUME NEW u \in Threads PROVE RecoveryKnows(u)'
    <3>1. /\ disk'["db"].state = "good" /\ disk'["bak"].state = "missing"
      BY <2>1, <2>2, Contents DEF Healthy
    <3>2. u = t \/ (th'[u] = th[u] /\ (app = "booting" => th[u].pc = "idle"))
      BY <1>1, Company DEF OthersStay
    <3> QED
      BY <1>2, <2>3, <3>1, <3>2 DEF RecoveryKnows, At, Exists, Healthy
  <2> QED
    BY <1>1, <2>4, <2>5, <2>6, <2>7 DEF QuietInv, CalmConnections
<1>4. CASE ~CanRename("bak", "db") /\ GiveUp(t)
  <2>1. disk' = disk /\ conn' = conn /\ th'[t].pc = "idle" /\ app' = "up"
    BY <1>2, <1>4 DEF GiveUp, Done, files
  <2>2. QuietSafe' /\ CalmConnections' /\ \A u \in Threads \ {t} : RecoveryKnows(u)'
    BY <1>1, <2>1, SameFiles
  <2>3. app # "booting"
    <3> SUFFICES ASSUME app = "booting" PROVE FALSE
      OBVIOUS
    <3>1. \A u \in Threads : conn[u] = "none" /\ th[u].pc # "fill"
      BY <1>1, <1>2, Company DEF At
    <3>2. Exists("bak")
      BY <1>2 DEF RecoveryKnows, At
    <3> QED
      BY <1>4, <3>1, <3>2 DEF CanRename, Movable, At
  <2>4. OriginalBeside'
    BY <1>1, <1>2, <2>1, <2>3 DEF OriginalBeside, Exists, Healthy, RestorePCs
  <2>5. RecoveryKnows(t)'
    BY <2>1 DEF RecoveryKnows, At
  <2> QED
    BY <1>1, <2>2, <2>4, <2>5 DEF QuietInv
<1> QED
  BY <1>3, <1>4 DEF BringBack

\* The leftovers go: orig_bak where the database is sound, the staged file.
LEMMA DropQuiet ==
  ASSUME TypeInv, QuietInv, NEW t \in Threads, Recover(t), DropBak(t) \/ DropStage(t), Apart'
  PROVE  QuietInv'
<1>1. /\ ~restoring /\ ~restoring' /\ Apart /\ Busy(t) /\ th[t].pc # "commit"
      /\ OthersStay(t) /\ SameConnected /\ FilesOK
      /\ UNCHANGED <<snaps, quiet, calm, restoring>>
      /\ \A u \in Threads : RestoreKnows(u)' /\ th[u].pc \notin RestorePCs
      /\ NobodyMeddles'
  BY RecoveryStep
<1>2. /\ OriginalBeside /\ CalmConnections /\ QuietSafe
      /\ \A u \in Threads : RecoveryKnows(u)
      /\ th \in [Threads -> Thread] /\ app' = app
  BY <1>1, TypeParts DEF DropBak, DropStage, process, QuietInv, ThreadsOK
<1>3. /\ disk'["db"] = disk["db"]
      /\ disk'["bak"] \in {disk["bak"], Missing}
      /\ \A u \in Threads : (conn'[u] = "db" <=> conn[u] = "db")
      /\ th'[t].pc \in {"dropStage", "check"}
      /\ th[t].pc \in {"dropBak", "dropStage"}
  <2>1. CASE DropBak(t)
    <3>1. /\ disk'["db"] = disk["db"] /\ disk'["bak"] \in {disk["bak"], Missing}
          /\ \A u \in Threads : conn'[u] = conn[u] \/ (conn[u] = "bak" /\ conn'[u] = "gone")
      BY <1>1, <2>1, RemoveFiles DEF DropBak, Places
    <3>2. th'[t].pc = "dropStage" /\ th[t].pc = "dropBak"
      BY <1>2, <2>1 DEF DropBak, Goto, Thread, At
    <3> QED
      BY <3>1, <3>2
  <2>2. CASE DropStage(t)
    <3>1. /\ disk'["db"] = disk["db"] /\ disk'["bak"] = disk["bak"]
          /\ \A u \in Threads : conn'[u] = conn[u] \/ (conn[u] = "stage" /\ conn'[u] = "gone")
      BY <1>1, <2>2, RemoveFiles DEF DropStage, Places
    <3>2. th'[t].pc = "check" /\ th[t].pc = "dropStage"
      BY <1>2, <2>2 DEF DropStage, Goto, Thread, At
    <3> QED
      BY <3>1, <3>2
  <2> QED
    BY <2>1, <2>2
<1>4. Barren => Barren'
  BY <1>1, <1>2, <1>3, TypeParts DEF Barren, OthersStay, Linked, At, Healthy
<1>5. disk["db"].state # "damaged"
  BY <1>1, <1>2, <1>3, Company DEF OriginalBeside, RecoveryKnows, RestorePCs, At
<1>6. CalmConnections'
  BY <1>1, <1>2, <1>3, TypeParts DEF CalmConnections, OthersStay, ScalarsOK, At
<1>7. QuietSafe'
  BY <1>1, <1>2, <1>3 DEF QuietSafe, Saved, Snapshots
<1>8. OriginalBeside'
  BY <1>2, <1>3, <1>5, Contents DEF OriginalBeside, Exists, Healthy
<1>9. ASSUME NEW u \in Threads PROVE RecoveryKnows(u)'
  <2>1. disk'["bak"].state # "missing" => disk["bak"].state # "missing"
    BY <1>3, Contents
  <2>2. u = t \/ (th'[u] = th[u] /\ (app = "booting" => th[u].pc = "idle"))
    BY <1>1, Company DEF OthersStay
  <2> QED
    BY <1>2, <1>3, <1>4, <1>5, <2>1, <2>2 DEF RecoveryKnows, At, Exists, Healthy
<1> QED
  BY <1>1, <1>6, <1>7, <1>8, <1>9 DEF QuietInv

\* The test of the flag concerns nobody.
LEMMA CheckQuiet ==
  ASSUME TypeInv, QuietInv, NEW t \in Threads, Use(t), Check(t), Apart'
  PROVE  QuietInv'
<1>1. /\ FilesOK' /\ SameConnected /\ ThreadsOK' /\ OthersStay(t) /\ th[t].pc = "check"
      /\ th'[t].pc \in {"connect", "idle"}
      /\ UNCHANGED <<files, process, history, begun, crashes>>
  BY CheckEffect, TypeParts, ThreadParts DEF SameCommand
<1>2. Apart /\ Busy(t) /\ disk' = disk /\ conn' = conn /\ snaps' = snaps /\ app' = app
      /\ restoring' = restoring /\ quiet' = quiet /\ calm' = calm
  BY <1>1 DEF history, ghosts, files, process, Apart, Busy, At
<1>3. /\ QuietSafe' /\ CalmConnections'
      /\ \A u \in Threads \ {t} : RecoveryKnows(u)' /\ RestoreKnows(u)'
  BY <1>1, <1>2, SameFiles
<1>4. RecoveryKnows(t)' /\ RestoreKnows(t)'
  BY <1>1, <1>2 DEF QuietInv, RecoveryKnows, RestoreKnows, RestorePCs, At
<1>5. OriginalBeside' /\ NobodyMeddles'
  BY <1>1, <1>2 DEF QuietInv, OriginalBeside, NobodyMeddles, OthersStay, Exists, Healthy,
                    RecoveryPCs
<1> QED
  BY <1>3, <1>4, <1>5 DEF QuietInv

\* A database that is opened is one that was there, or blank; neither takes away a
\* write or is in the way of a recovery.
LEMMA ConnectQuiet ==
  ASSUME TypeInv, QuietInv, NEW t \in Threads, Use(t), Connect(t), Apart'
  PROVE  QuietInv'
<1>1. At(t, "connect") /\ conn[t] = "none" /\ Busy(t) /\ FilesOK
  BY TypeParts DEF Connect, Linked, At, Busy
<1>2. /\ OthersStay(t)
      /\ \A u \in Threads \ {t} : conn'[u] = conn[u]
      /\ UNCHANGED <<snaps, restoring, atStart, acked, quiet, strain, begun, crashes>>
  BY <1>1, ConnectEffect, TypeParts
<1>3. /\ Apart /\ OriginalBeside /\ CalmConnections /\ QuietSafe /\ NobodyMeddles
      /\ \A u \in Threads : RecoveryKnows(u) /\ RestoreKnows(u)
  BY <1>2 DEF Apart, QuietInv
<1>4. /\ disk["db"].state \in {"missing", "damaged", "good"}
      /\ ~Healthy("db") => disk["db"].writes = {}
      /\ app = "booting" => disk["db"].state # "damaged"
  BY <1>1, <1>3 DEF FilesOK, Connections, Content, Places, RecoveryKnows, At
<1>5. /\ Opened["db"].state = IF Exists("db") THEN disk["db"].state ELSE "good"
      /\ Opened["db"].writes = disk["db"].writes
      /\ Exists("db") => Opened["db"] = disk["db"]
      /\ ~Exists("db") => Opened["db"].base = "blank"
      /\ Opened["bak"] = disk["bak"]
  BY <1>1, <1>4, OpenFiles, Contents DEF Exists, Healthy
<1> DEFINE Good == /\ disk'["bak"] = disk["bak"] /\ disk'["db"].writes = disk["db"].writes
                   /\ disk'["db"].state = Opened["db"].state
<1>6. /\ Good
      /\ disk'["db"].state = "damaged" => disk["db"].state = "damaged"
      /\ Exists("db") => Exists("db")'
      /\ Healthy("db") => Healthy("db")'
      /\ app' = app \/ (app = "booting" /\ app' = "up")
      /\ th'[t].pc \in {"idle", "commit"}
  <2>1. CASE Opened["db"].state = "damaged" /\ UNCHANGED <<disk, conn, ready, calm>>
             /\ th'[t] = Idle /\ app' = "up"
    BY <1>1, <1>4, <1>5, <2>1, Company, ThreadParts DEF Exists, Healthy
  <2>2. CASE th'[t] = Idle /\ app' = "up" /\ th[t].task = "boot"
             /\ disk' = Migrated(Opened)
    <3>1. app = "booting"
      BY <1>1, <2>2, TypeParts DEF SetupAlone
    <3>2. conn' = conn
      BY <1>1, <2>2, TypeParts, ConnectEffect, ThreadParts
    <3>3. /\ disk'["db"].state = Opened["db"].state /\ disk'["db"].writes = Opened["db"].writes
          /\ disk'["bak"] = disk["bak"]
      BY <1>1, <2>2, <3>2, MigrateFiles
    <3> QED
      BY <1>4, <1>5, <2>2, <3>1, <3>3, ThreadParts DEF Exists, Healthy
  <2>3. CASE disk' = Opened /\ app' = app /\ th'[t].pc \in {"idle", "commit"}
    BY <1>4, <1>5, <2>3 DEF Exists, Healthy
  <2> QED
    BY <1>1, <2>1, <2>2, <2>3, ConnectEffect, TypeParts, ThreadParts
<1>7. QuietSafe'
  BY <1>2, <1>3, <1>6 DEF QuietSafe, Saved, Snapshots
<1>8. CalmConnections'
  <2>1. \/ calm' = calm
        \/ /\ ~restoring /\ calm' = calm \cup {t} /\ conn'[t] = "db" /\ th'[t].pc = "commit"
        \/ restoring /\ calm' = calm
    BY <1>1, ConnectEffect, TypeParts
  <2> QED
    BY <1>1, <1>2, <1>3, <2>1, TypeParts DEF CalmConnections, OthersStay, ScalarsOK, At
<1>9. OriginalBeside'
  <2>1. disk["db"].state = "damaged" /\ app = "up" => \E u \in Threads \ {t} :
          th[u].pc \in {"verify", "discard"}
    BY <1>1, <1>3 DEF OriginalBeside, At
  <2> QED
    BY <1>2, <1>3, <1>4, <1>6, <2>1 DEF OriginalBeside, OthersStay, Exists, Healthy
<1>10. app # "booting" /\ Barren => Barren'
  <2> SUFFICES ASSUME app # "booting", Barren PROVE Barren'
    OBVIOUS
  <2>1. /\ disk'["db"] = Opened["db"] \/ disk'["db"] = disk["db"]
        /\ \/ conn'[t] = "none"
           \/ conn'[t] = "db" /\ th'[t].ok = (Opened["db"].base # "blank")
              /\ Opened["db"].state = "good"
    <3>1. th[t].task # "boot"
      BY <1>1, TypeParts DEF SetupAlone
    <3> QED
      BY <1>1, <3>1, ConnectEffect, TypeParts
  <2>2. Opened["db"].state = "good" => Opened["db"].base = "blank"
    BY <1>5 DEF Barren, Healthy
  <2>3. disk["db"].state = "good" => disk["db"].base = "blank"
    BY DEF Barren, Healthy
  <2> QED
    BY <1>2, <1>6, <2>1, <2>2, <2>3 DEF Barren, OthersStay, Healthy
<1>11. ASSUME NEW u \in Threads \ {t} PROVE RecoveryKnows(u)' /\ RestoreKnows(u)'
  <2>1. th'[u] = th[u] /\ (app = "booting" => th[u].pc = "idle")
    BY <1>1, <1>2, Company DEF OthersStay
  <2>2. app # "booting" => RecoveryKnows(u)'
    BY <1>3, <1>6, <1>10, <2>1 DEF RecoveryKnows, At, Exists, Healthy
  <2>3. app = "booting" => RecoveryKnows(u)'
    BY <2>1 DEF RecoveryKnows, At
  <2>4. RestoreKnows(u)'
    BY <1>2, <1>3, <1>6, <2>1 DEF RestoreKnows, Exists, Saved, Snapshots
  <2> QED
    BY <2>2, <2>3, <2>4
<1>12. RecoveryKnows(t)' /\ RestoreKnows(t)'
  BY <1>6 DEF RecoveryKnows, RestoreKnows, RestorePCs, At
<1>13. NobodyMeddles'
  BY <1>2, <1>3, <1>6 DEF NobodyMeddles, OthersStay, RecoveryPCs
<1> QED
  BY <1>7, <1>8, <1>9, <1>11, <1>12, <1>13 DEF QuietInv

\* A calm commit goes into the database, and none happens during a restore.
LEMMA CommitQuiet ==
  ASSUME TypeInv, QuietInv, NEW t \in Threads, Use(t), Commit(t) \/ CommitFails(t), Apart'
  PROVE  QuietInv'
<1>1. /\ OthersStay(t) /\ th'[t] = Idle
      /\ th[t].pc = "commit" /\ conn'[t] = "none"
      /\ \A u \in Threads \ {t} : conn'[u] = conn[u]
      /\ \A p \in Places : /\ disk'[p].state = disk[p].state
                           /\ disk'[p].base = disk[p].base
                           /\ disk'[p].writes = IF th[t].ok /\ conn[t] = p
                                THEN disk[p].writes \cup {th[t].id} ELSE disk[p].writes
      /\ quiet' = IF th[t].ok /\ t \in calm THEN quiet \cup {th[t].id} ELSE quiet
      /\ calm' = calm \ {t}
      /\ UNCHANGED <<snaps, process, atStart, strain, begun, crashes>>
  BY CommitEffect
<1>2. /\ Apart /\ OriginalBeside /\ CalmConnections /\ QuietSafe /\ NobodyMeddles
      /\ \A u \in Threads : RecoveryKnows(u) /\ RestoreKnows(u)
      /\ Idle.pc = "idle" /\ {"db", "bak"} \subseteq Places
  BY <1>1, ThreadParts DEF Apart, QuietInv, Places
<1>3. QuietSafe'
  BY <1>1, <1>2 DEF QuietSafe, CalmConnections, Saved, Snapshots, Places
<1>4. CalmConnections'
  BY <1>1, <1>2, TypeParts DEF CalmConnections, OthersStay, ScalarsOK, process, At
<1>5. OriginalBeside'
  BY <1>1, <1>2 DEF OriginalBeside, OthersStay, process, Exists, Healthy, Places
<1>6. Barren => Barren'
  <2> SUFFICES ASSUME Barren
               PROVE  Barren'
    OBVIOUS
  <2>1. ~(th[t].ok /\ conn[t] = "db")
    BY DEF Barren
  <2>2. disk'["db"].writes = {}
    BY <1>1, <1>2, <2>1 DEF Barren
  <2>3. ASSUME NEW u \in Threads, conn'[u] = "db" PROVE ~th'[u].ok
    <3>1. u # t
      BY <1>1, <2>3
    <3> QED
      BY <1>1, <2>3, <3>1 DEF Barren, OthersStay
  <2>4. Healthy("db")' => disk'["db"].base = "blank"
    BY <1>1, <1>2 DEF Barren, Healthy
  <2> QED
    BY <2>2, <2>3, <2>4 DEF Barren
<1>7. NobodyMeddles'
  BY <1>1, <1>2 DEF NobodyMeddles, OthersStay, process, RecoveryPCs
<1>8. ASSUME NEW u \in Threads PROVE RecoveryKnows(u)'
  <2>1. /\ Exists("db")' <=> Exists("db")
        /\ Exists("bak")' <=> Exists("bak")
        /\ Healthy("db")' <=> Healthy("db")
        /\ disk'["db"].state = disk["db"].state
        /\ app' = app
    BY <1>1, <1>2 DEF Exists, Healthy, process
  <2>2. CASE u = t
    <3>1. th'[u].pc = "idle"
      BY <1>1, <1>2, <2>2
    <3> QED
      BY <3>1 DEF RecoveryKnows, At
  <2>3. CASE u # t
    <3>1. th'[u] = th[u] /\ RecoveryKnows(u)
      BY <1>1, <1>2, <2>3 DEF OthersStay
    <3> QED
      BY <1>6, <2>1, <3>1 DEF RecoveryKnows, At
  <2> QED
    BY <2>2, <2>3
<1>9. ASSUME NEW u \in Threads PROVE RestoreKnows(u)'
  <2>1. CASE th[u].pc \in RestorePCs
    <3>1. quiet' = quiet
      BY <1>1, <1>2, <2>1, TypeParts DEF CalmConnections, OneRestore
    <3>2. u # t
      BY <1>1, <2>1 DEF RestorePCs
    <3>3. /\ th'[u] = th[u] /\ disk'["db"].state = disk["db"].state
          /\ disk'["bak"].state = disk["bak"].state
          /\ \A w \in quiet : Saved(w) => Saved(w)'
      BY <1>1, <1>2, <3>2 DEF OthersStay, Saved, Snapshots
    <3> QED
      BY <1>2, <3>1, <3>3 DEF RestoreKnows, Exists, Healthy
  <2>2. CASE th[u].pc \notin RestorePCs
    <3>1. th'[u].pc \notin RestorePCs
      BY <1>1, <1>2, <2>2 DEF OthersStay, RestorePCs
    <3>2. (th[u].pc \notin RestorePCs => RestoreKnows(u))'
      BY NotRestoring, PTL
    <3> QED
      BY <3>1, <3>2
  <2> QED
    BY <2>1, <2>2
<1> QED
  BY <1>3, <1>4, <1>5, <1>7, <1>8, <1>9 DEF QuietInv

\* What is left to show of a step inside a restore: nobody else is concerned.
LEMMA ReplaceStep ==
  ASSUME TypeInv, QuietInv, NEW t \in Threads, Replace(t), Apart'
  PROVE  /\ Apart /\ FilesOK /\ OriginalBeside /\ QuietSafe /\ RestoreKnows(t) /\ Busy(t)
         /\ th \in [Threads -> Thread] /\ app = "up" /\ app' = "up" /\ quiet' = quiet
         /\ th[t].pc \in {"verify", "discard"} \/ disk["db"].state # "damaged"
         /\ OthersStay(t) /\ th'[t].pc \in RestorePCs
         /\ RestoreKnows(t)' /\ QuietSafe' /\ OriginalBeside' => QuietInv'
<1>1. /\ ReplaceEffect(t) /\ th[t].pc \in RestorePCs \ {"return"}
      /\ "idle" \notin RestorePCs /\ "commit" \notin RestorePCs
      /\ th \in [Threads -> Thread] /\ FilesOK
  BY ReplaceTypes, TypeParts DEF RestorePCs, ThreadsOK
<1>2. Apart
  BY DEF Apart, Replace
<1>3. /\ Busy(t) /\ app = "up" /\ restoring
      /\ \A u \in Threads \ {t} : th[u].pc \notin RestorePCs
  BY <1>1, Company DEF Busy, At
<1>4. app' = app /\ restoring' = restoring /\ quiet' = quiet /\ calm' = calm /\ calm = {}
  BY <1>2, <1>3 DEF Replace, process, ghosts, QuietInv, CalmConnections
<1>5. \A u \in Threads \ {t} : RestoreKnows(u)'
  <2>1. \A u \in Threads : (th[u].pc \notin RestorePCs => RestoreKnows(u))'
    <3> SUFFICES ASSUME NEW u \in Threads
                 PROVE  (th[u].pc \notin RestorePCs => RestoreKnows(u))'
      OBVIOUS
    <3> QED
      BY NotRestoring, PTL
  <2> QED
    BY <1>1, <1>3, <2>1 DEF ReplaceEffect, OthersStay
<1>6. \A u \in Threads : th'[u].pc \notin RecoveryPCs \ {"look"}
  BY <1>1, <1>2, <1>3
     DEF QuietInv, NobodyMeddles, ReplaceEffect, OthersStay, RecoveryPCs, RestorePCs
<1>7. ASSUME NEW u \in Threads PROVE RecoveryKnows(u)'
  <2>1. (/\ app = "booting" => th[u].pc = "idle"
         /\ th[u].pc \notin RecoveryPCs \ {"look"}
         => RecoveryKnows(u))'
    BY NotRecovering, PTL
  <2> QED
    BY <1>3, <1>4, <1>6, <2>1
<1>8. NobodyMeddles' /\ CalmConnections'
  BY <1>4, <1>6 DEF NobodyMeddles, CalmConnections
<1>9. th[t].pc \in {"verify", "discard"} \/ disk["db"].state # "damaged"
  BY <1>2, <1>3 DEF QuietInv, OriginalBeside, RestorePCs
<1> QED
  BY <1>1, <1>2, <1>3, <1>4, <1>5, <1>7, <1>8, <1>9 DEF QuietInv, ReplaceEffect

\* A list of snapshots that grows saves what it saved.
LEMMA GrowingList ==
  ASSUME ScalarsOK, NEW s \in SafetySnapshot, snaps' = Append(snaps, s)
  PROVE  Snapshots' = Snapshots \cup {s} /\ \A w : Saved(w) => Saved(w)'
<1>1. /\ snaps \in Seq(SafetySnapshot) /\ Len(snaps) \in Nat
      /\ DOMAIN snaps = 1..Len(snaps) /\ DOMAIN snaps' = 1..(Len(snaps) + 1)
      /\ snaps'[Len(snaps) + 1] = s
      /\ \A i \in 1..Len(snaps) : snaps'[i] = snaps[i]
  BY DEF ScalarsOK
<1>2. \A i : i \in DOMAIN snaps' <=> i \in DOMAIN snaps \/ i = Len(snaps) + 1
  BY <1>1
<1>3. Snapshots' = Snapshots \cup {s}
  BY <1>1, <1>2 DEF Snapshots
<1> QED
  BY <1>3 DEF Saved

\* The safety snapshot saves whatever the database holds.
LEMMA SnapshotSaves ==
  ASSUME TypeInv, BelowQuota, NEW t \in Threads, At(t, "snapshot"), SnapshotTaken(t)
  PROVE  LET s == [id |-> th[t].id, is |-> Opened["db"]]
         IN  s \in SafetySnapshot /\ snaps' = Append(snaps, s)
<1> DEFINE s    == [id |-> th[t].id, is |-> Opened["db"]]
           list == Append(snaps, s)
<1>1. /\ FilesOK /\ snaps \in Seq(SafetySnapshot) /\ th[t].id \in Writes
      /\ Quota \in Nat /\ Len(snaps) \in Nat /\ Len(snaps) < Quota
  BY ConstantsOK, TypeParts, Kinds
     DEF ScalarsOK, ThreadsOK, ThreadsMatch, At, RestorePCs, BelowQuota
<1>2. s \in SafetySnapshot
  BY <1>1, OpenFiles DEF SnapshotTaken, SafetySnapshot, Places
<1> HIDE DEF s
<1>3. list \in Seq(SafetySnapshot) /\ Len(list) = Len(snaps) + 1
  BY <1>1, <1>2
<1>4. snaps' = Pruned(list)
  BY DEF SnapshotTaken, s
<1>5. snaps' = list
  <2> HIDE DEF list
  <2> QED
    BY <1>1, <1>3, <1>4, Pruning
<1> QED
  BY <1>2, <1>5 DEF s

\* Before and while the backup is staged.
LEMMA StagingQuiet ==
  ASSUME TypeInv, QuietInv, BelowQuota, NEW t \in Threads, Replace(t), Apart',
         Snapshot(t) \/ Restage(t) \/ Fill(t) \/ Clear(t)
  PROVE  QuietInv'
<1>1. /\ Apart /\ FilesOK /\ OriginalBeside /\ QuietSafe /\ RestoreKnows(t)
      /\ th \in [Threads -> Thread] /\ app' = "up" /\ quiet' = quiet
      /\ th[t].pc \in {"verify", "discard"} \/ disk["db"].state # "damaged"
      /\ RestoreKnows(t)' /\ QuietSafe' /\ OriginalBeside' => QuietInv'
  BY ReplaceStep
<1>2. CASE Snapshot(t)
  <2>1. At(t, "snapshot") /\ disk["db"].state # "damaged"
    BY <1>1, <1>2 DEF Snapshot, At
  <2>2. CASE SnapshotTaken(t) /\ Goto(t, "restage")
    <3> DEFINE s == [id |-> th[t].id, is |-> Opened["db"]]
    <3>1. s \in SafetySnapshot /\ snaps' = Append(snaps, s)
      BY <2>1, <2>2, SnapshotSaves
    <3>2. s.is.writes = Opened["db"].writes
      OBVIOUS
    <3> HIDE DEF s
    <3>3. Snapshots' = Snapshots \cup {s} /\ \A w : Saved(w) => Saved(w)'
      BY <3>1, GrowingList, TypeParts
    <3>4. /\ disk' = Opened /\ Opened["db"].state = "good"
          /\ disk["db"].writes = Opened["db"].writes /\ Opened["bak"] = disk["bak"]
      BY <1>1, <2>2, OpenFiles, Contents
         DEF SnapshotTaken, FilesOK, Connections, Exists, Healthy, Places
    <3>5. \A w \in quiet : Saved(w)'
      BY <1>1, <3>2, <3>3, <3>4 DEF QuietSafe, Saved
    <3>6. th'[t].pc = "restage"
      BY <1>1, <2>2 DEF Goto, Thread
    <3>7. RestoreKnows(t)'
      BY <1>1, <3>4, <3>5, <3>6 DEF RestoreKnows, Healthy
    <3>8. QuietSafe' /\ OriginalBeside'
      BY <1>1, <3>4, <3>5 DEF QuietSafe, OriginalBeside, Exists, Healthy
    <3> QED
      BY <1>1, <3>7, <3>8
  <2>3. CASE Return(t, FALSE) /\ UNCHANGED <<disk, snaps>>
    <3>1. th'[t].pc = "return"
      BY <1>1, <2>3 DEF Return, Thread
    <3>2. RestoreKnows(t)' /\ QuietSafe' /\ OriginalBeside'
      BY <1>1, <2>1, <2>3, <3>1
         DEF RestoreKnows, QuietSafe, OriginalBeside, Saved, Snapshots, Exists, Healthy
    <3> QED
      BY <1>1, <3>2
  <2> QED
    BY <1>2, <2>2, <2>3 DEF Snapshot
<1>3. CASE Restage(t) \/ Fill(t)
  <2>1. th[t].pc \in RestorePCs \ {"snapshot", "return"} /\ th[t].pc \in {"restage", "fill"}
    BY <1>3 DEF Restage, Fill, At, RestorePCs
  <2>2. disk'["db"] = disk["db"] /\ disk'["bak"] = disk["bak"]
    BY <1>1, <1>3 DEF Restage, Fill, FilesOK, Places
  <2>3. \A w : Saved(w) => Saved(w)'
    <3>1. CASE UNCHANGED snaps
      BY <3>1 DEF Saved, Snapshots
    <3>2. CASE snaps' = Append(snaps, [id |-> th[t].from, is |-> Blank]) /\ Gone(t)
      <4>1. [id |-> th[t].from, is |-> Blank] \in SafetySnapshot
        BY <3>2, TypeParts, ThreadParts, Contents DEF Gone, SafetySnapshot, ThreadsOK
      <4> QED
        BY <3>2, <4>1, GrowingList, TypeParts
    <3> QED
      BY <1>3, <3>1, <3>2 DEF Restage, Fill
  <2>4. th'[t].pc \in {"fill", "clear", "return"}
    BY <1>1, <1>3 DEF Restage, Fill, Goto, Return, Thread
  <2>5. \A w \in quiet : Saved(w)'
    BY <1>1, <2>1, <2>3 DEF RestoreKnows
  <2>6. RestoreKnows(t)' /\ QuietSafe' /\ OriginalBeside'
    BY <1>1, <2>1, <2>2, <2>4, <2>5
       DEF RestoreKnows, QuietSafe, OriginalBeside, Exists, Healthy
  <2> QED
    BY <1>1, <2>6
<1>4. CASE Clear(t)
  <2>1. th[t].pc \in RestorePCs \ {"snapshot", "return"} /\ th[t].pc = "clear"
    BY <1>4 DEF Clear, At, RestorePCs
  <2>2. disk'["db"] = disk["db"] /\ disk'["bak"] \in {disk["bak"], Missing}
    BY <1>1, <1>4, RemoveFiles DEF Clear, Places
  <2>3. th'[t].pc = "preserve" /\ snaps' = snaps
    BY <1>1, <1>4 DEF Clear, Goto, Thread
  <2>4. \A w \in quiet : Saved(w)'
    BY <1>1, <2>1, <2>3 DEF RestoreKnows, Saved, Snapshots
  <2>5. RestoreKnows(t)' /\ QuietSafe'
    BY <1>1, <2>1, <2>2, <2>3, <2>4 DEF RestoreKnows, QuietSafe, Exists, Healthy
  <2>6. OriginalBeside'
    BY <1>1, <2>1, <2>2, Contents DEF OriginalBeside, Exists, Healthy
  <2> QED
    BY <1>1, <2>5, <2>6
<1> QED
  BY <1>2, <1>3, <1>4

\* From the swap on: the writes are saved already, and a damaged database never
\* outlives its original.
LEMMA SwappingQuiet ==
  ASSUME TypeInv, QuietInv, NEW t \in Threads, Replace(t), Apart',
         \/ Preserve(t) \/ Swap(t) \/ Undo(t) \/ Rollback(t) \/ Unstage(t) \/ Verify(t)
         \/ Discard(t) \/ Reopen(t) \/ Cleanup(t)
  PROVE  QuietInv'
<1>1. /\ Apart /\ FilesOK /\ OriginalBeside /\ QuietSafe /\ RestoreKnows(t)
      /\ th \in [Threads -> Thread] /\ app' = "up" /\ quiet' = quiet
      /\ th[t].pc \in {"verify", "discard"} \/ disk["db"].state # "damaged"
      /\ RestoreKnows(t)' /\ QuietSafe' /\ OriginalBeside' => QuietInv'
  BY ReplaceStep
<1>2. /\ snaps' = snaps
      /\ th[t].pc \in RestorePCs \ {"snapshot", "return"}
      /\ {"db", "bak", "stage"} = Places
  BY DEF Preserve, Swap, Undo, Rollback, Unstage, Verify, Discard, Reopen, Cleanup, RenameBack,
         At, RestorePCs, Places
<1>3. /\ \A w \in quiet : Saved(w)'
      /\ QuietSafe'
  BY <1>1, <1>2 DEF RestoreKnows, QuietSafe, Saved, Snapshots
<1> DEFINE Fits == /\ th'[t].pc \in {"swap", "undo", "verify", "discard"} => Exists("bak")'
                   /\ Exists("bak")' => Healthy("bak")'
                   /\ th'[t].pc \notin {"restage", "fill", "clear", "preserve"}
                   /\ disk'["db"].state = "damaged" =>
                        Exists("bak")' /\ th'[t].pc \in {"verify", "discard"}
<1>4. SUFFICES Fits
  BY <1>1, <1>3 DEF RestoreKnows, OriginalBeside
<1>5. CASE Preserve(t)
  <2>1. th[t].pc = "preserve" /\ Healthy("db")
    BY <1>1, <1>5 DEF Preserve, At, RestoreKnows
  <2>2. CASE /\ Rename("db", "bak")
             /\ th' = [th EXCEPT ![t].pc = "swap", ![t].existed = TRUE]
    <3>1. disk'["bak"] = disk["db"] /\ disk'["db"] = Missing
      BY <1>1, <1>2, <2>2, RenameFiles
    <3>2. th'[t].pc = "swap"
      BY <1>2, <2>1, <2>2, TypeParts, Kinds, PreserveThread DEF RestorePCs
    <3> QED
      BY <2>1, <3>1, <3>2, Contents DEF Exists, Healthy
  <2>3. CASE Return(t, FALSE) /\ UNCHANGED <<disk, conn>>
    <3>1. th'[t].pc = "return"
      BY <1>1, <2>3 DEF Return, Thread
    <3> QED
      BY <1>1, <2>1, <2>3, <3>1 DEF OriginalBeside, Exists, Healthy
  <2> QED
    BY <1>5, <2>1, <2>2, <2>3 DEF Preserve, Exists, Healthy
<1>6. CASE Swap(t)
  <2>1. th[t].pc = "swap" /\ Exists("bak") /\ Healthy("bak")
    BY <1>1, <1>6 DEF Swap, At, RestoreKnows, OriginalBeside
  <2>2. disk'["bak"] = disk["bak"]
    BY <1>1, <1>2, <1>6, RenameFiles, DamageFiles DEF Swap
  <2>3. \/ th'[t].pc = "verify"
        \/ th'[t].pc = "undo" /\ disk' = disk
    BY <1>1, <1>6 DEF Swap, Goto, Thread
  <2> QED
    BY <1>1, <2>1, <2>2, <2>3 DEF Exists, Healthy
<1>7. ASSUME NEW next \in {"unstage", "reopen"}, RenameBack(t, next),
             th[t].pc \in {"undo", "rollback"}
      PROVE  Fits
  <2>1. th'[t].pc = next
    BY <1>1, <1>7 DEF RenameBack, Goto, Thread
  <2>2. CASE CanRename("bak", "db") /\ Rename("bak", "db")
    <3>1. disk'["db"] = disk["bak"] /\ disk'["bak"] = Missing
      BY <1>1, <1>2, <2>2, RenameFiles
    <3> QED
      BY <1>1, <1>7, <2>1, <2>2, <3>1, Contents DEF CanRename, OriginalBeside, Exists, Healthy
  <2>3. CASE UNCHANGED <<disk, conn>>
    BY <1>1, <1>7, <2>1, <2>3 DEF OriginalBeside, Exists, Healthy
  <2> QED
    BY <1>7, <2>2, <2>3 DEF RenameBack
<1>8. CASE Undo(t) \/ Rollback(t)
  BY <1>7, <1>8 DEF Undo, Rollback, At
<1>9. CASE Unstage(t)
  <2>1. th[t].pc = "unstage" /\ th'[t].pc = "return"
    BY <1>1, <1>9 DEF Unstage, At, Return, Thread
  <2>2. disk'["db"] = disk["db"] /\ disk'["bak"] = disk["bak"]
    BY <1>1, <1>2, <1>9, RemoveFiles DEF Unstage
  <2> QED
    BY <1>1, <2>1, <2>2 DEF OriginalBeside, Exists, Healthy
<1>10. CASE Verify(t)
  <2>1. /\ th[t].pc = "verify" /\ Exists("bak") /\ Healthy("bak")
        /\ disk' = Opened /\ Opened["bak"] = disk["bak"]
    BY <1>1, <1>10, OpenFiles DEF Verify, At, RestoreKnows, OriginalBeside
  <2>2. \/ th'[t].pc = "cleanup" /\ Healthy("db")'
        \/ th'[t].pc = "discard"
    BY <1>1, <1>10 DEF Verify, Goto, Thread
  <2> QED
    BY <2>1, <2>2 DEF Exists, Healthy
<1>11. CASE Discard(t)
  <2>1. th[t].pc = "discard" /\ th'[t].pc = "rollback" /\ Exists("bak") /\ Healthy("bak")
    BY <1>1, <1>11 DEF Discard, At, Goto, Thread, RestoreKnows, OriginalBeside
  <2>2. /\ disk'["bak"] = disk["bak"] /\ disk'["db"] \in {disk["db"], Missing}
        /\ Movable("db") => disk'["db"].state = "missing"
    BY <1>1, <1>2, <1>11, RemoveFiles DEF Discard
  <2>3. disk["db"].state = "damaged" => Movable("db")
    BY <1>1, <1>2 DEF FilesOK, Connections, Healthy, Movable
  <2> QED
    BY <2>1, <2>2, <2>3, Contents DEF Exists, Healthy
<1>12. CASE Reopen(t)
  <2>1. th[t].pc = "reopen" /\ th'[t].pc = "return"
    BY <1>1, <1>12 DEF Reopen, At, Return, Thread
  <2>2. /\ disk'["bak"] = disk["bak"]
        /\ disk'["db"] = IF Exists("db") THEN disk["db"] ELSE Blank
    BY <1>1, <1>12, OpenFiles DEF Reopen
  <2> QED
    BY <1>1, <2>1, <2>2, Contents DEF OriginalBeside, Exists, Healthy
<1>13. CASE Cleanup(t)
  <2>1. th[t].pc = "cleanup" /\ th'[t].pc = "return"
    BY <1>1, <1>13 DEF Cleanup, At, Return, Thread
  <2>2. disk'["db"] = disk["db"] /\ disk'["bak"] \in {disk["bak"], Missing}
    BY <1>1, <1>2, <1>13, RemoveFiles DEF Cleanup
  <2> QED
    BY <1>1, <2>1, <2>2, Contents DEF OriginalBeside, Exists, Healthy
<1> QED
  BY <1>5, <1>6, <1>8, <1>9, <1>10, <1>11, <1>12, <1>13

\* What is so beside a thread that begins or ends a command, the files as they are.
LEMMA OthersQuiet ==
  ASSUME TypeInv, QuietInv, Apart, NEW t \in Threads, OthersStay(t), files' = files,
         quiet' = quiet, app = "up", app' = "up", conn[t] = "none",
         th[t].pc \notin {"verify", "discard"}
  PROVE  /\ QuietSafe' /\ OriginalBeside'
         /\ \A u \in Threads \ {t} : RecoveryKnows(u)' /\ RestoreKnows(u)'
<1>1. /\ QuietSafe /\ OriginalBeside /\ disk' = disk /\ snaps' = snaps /\ conn' = conn
      /\ \A u \in Threads : RecoveryKnows(u) /\ RestoreKnows(u)
  BY DEF QuietInv, files
<1>2. QuietSafe' /\ OriginalBeside'
  BY <1>1 DEF QuietSafe, OriginalBeside, OthersStay, Saved, Snapshots, Exists, Healthy
<1>3. Barren => Barren'
  BY <1>1 DEF Barren, OthersStay, Healthy
<1>4. ASSUME NEW u \in Threads \ {t} PROVE RecoveryKnows(u)' /\ RestoreKnows(u)'
  <2>1. th'[u] = th[u]
    BY DEF OthersStay
  <2>2. RecoveryKnows(u)'
    BY <1>1, <1>3, <2>1 DEF RecoveryKnows, At, Exists, Healthy
  <2>3. RestoreKnows(u)'
    BY <1>1, <2>1 DEF RestoreKnows, Saved, Snapshots, Exists, Healthy
  <2> QED
    BY <2>2, <2>3
<1> QED
  BY <1>2, <1>4

\* A restore that takes the lock beside no recovery.
LEMMA LockQuiet ==
  ASSUME TypeInv, QuietInv, NEW t \in Threads, Restore(t), Lock(t), Apart'
  PROVE  QuietInv'
<1>1. /\ OthersStay(t) /\ th[t].pc = "lock" /\ files' = files
      /\ UNCHANGED <<acked, quiet, begun>>
      /\ \/ restoring /\ th'[t] = Idle /\ UNCHANGED <<restoring, atStart, calm>>
         \/ /\ ~restoring /\ SameCommand(t) /\ th'[t].pc = "snapshot"
            /\ atStart' = disk["db"] /\ calm' = {}
  BY LockTypes
<1>2. /\ Apart /\ app' = app
      /\ \A u \in Threads : th[u].pc \notin RecoveryPCs \ {"look"}
  BY <1>1 DEF Restore, Replace, Snapshot, Restage, Fill, Verify, Reopen, Clear, Preserve, Swap,
         Undo, Rollback, Unstage, Discard, Cleanup, Unlock, Lock, At, Apart
<1>3. app = "up" /\ conn[t] = "none" /\ conn' = conn /\ Idle.pc = "idle"
  BY <1>1, Company, TypeParts, ThreadParts DEF Linked, Busy, At, files
<1>4. /\ QuietSafe' /\ OriginalBeside'
      /\ \A u \in Threads \ {t} : RecoveryKnows(u)' /\ RestoreKnows(u)'
  BY <1>1, <1>2, <1>3, OthersQuiet
<1>5. RecoveryKnows(t)' /\ RestoreKnows(t)'
  BY <1>1, <1>3 DEF RecoveryKnows, RestoreKnows, RestorePCs, At
<1>6. NobodyMeddles'
  BY <1>1, <1>2, <1>3 DEF NobodyMeddles, OthersStay, RecoveryPCs
<1>7. CalmConnections'
  BY <1>1, <1>2 DEF QuietInv, CalmConnections
<1> QED
  BY <1>4, <1>5, <1>6, <1>7 DEF QuietInv

\* The end of a restore.
LEMMA UnlockQuiet ==
  ASSUME TypeInv, QuietInv, NEW t \in Threads, Unlock(t), UNCHANGED <<strain, begun, crashes>>,
         Apart'
  PROVE  QuietInv'
<1>1. /\ OthersStay(t) /\ th[t].pc = "return" /\ th'[t] = Idle
      /\ restoring' = FALSE /\ UNCHANGED <<files, app, ready, ghosts>>
  BY UnlockTypes DEF Unlock
<1>2. Apart /\ app = "up" /\ restoring /\ conn[t] = "none" /\ Idle.pc = "idle"
  BY <1>1, Company, TypeParts, ThreadParts DEF Linked, Busy, At, Apart, RestorePCs
<1>3. /\ QuietSafe' /\ OriginalBeside'
      /\ \A u \in Threads \ {t} : RecoveryKnows(u)' /\ RestoreKnows(u)'
  BY <1>1, <1>2, OthersQuiet DEF ghosts
<1>4. RecoveryKnows(t)' /\ RestoreKnows(t)'
  BY <1>1, <1>2 DEF RecoveryKnows, RestoreKnows, RestorePCs, At
<1>5. NobodyMeddles' /\ CalmConnections'
  BY <1>1, <1>2 DEF QuietInv, NobodyMeddles, CalmConnections, ghosts
<1> QED
  BY <1>3, <1>4, <1>5 DEF QuietInv

\* A command begins.
LEMMA BeginQuiet ==
  ASSUME TypeInv, QuietInv, NEW t \in Threads, Begin(t), Apart'
  PROVE  QuietInv'
<1>1. /\ OthersStay(t) /\ app = "up" /\ th[t].pc = "idle"
      /\ th'[t].pc \in {"look", "check", "lock"}
      /\ UNCHANGED <<files, process, ghosts>>
  BY BeginTypes DEF Busy, At
<1>2. Apart /\ conn[t] = "none"
  BY <1>1, TypeParts DEF Begin, Linked, At, Apart
<1>3. /\ QuietSafe' /\ OriginalBeside'
      /\ \A u \in Threads \ {t} : RecoveryKnows(u)' /\ RestoreKnows(u)'
  BY <1>1, <1>2, OthersQuiet DEF ghosts, process
<1>4. RecoveryKnows(t)' /\ RestoreKnows(t)'
  BY <1>1 DEF RecoveryKnows, RestoreKnows, RestorePCs, At, process
<1>5. NobodyMeddles'
  BY <1>1, <1>2 DEF QuietInv, NobodyMeddles, OthersStay, process, RecoveryPCs
<1>6. CalmConnections'
  BY <1>1, <1>2, TypeParts
     DEF QuietInv, CalmConnections, OthersStay, ScalarsOK, ghosts, process, files, At
<1> QED
  BY <1>3, <1>4, <1>5, <1>6 DEF QuietInv

\* The program goes down, or comes up again.
LEMMA RestartQuiet ==
  ASSUME TypeInv, QuietInv, Start \/ Crash, Apart'
  PROVE  QuietInv'
<1>1. /\ disk' = disk /\ snaps' = snaps /\ quiet' = quiet /\ strain' = strain
      /\ app' \in {"down", "booting"}
      /\ \A u \in Threads : th'[u].pc \in {"idle", "look"}
  BY StartTypes, CrashTypes, ThreadParts DEF Start, Crash, files, history, ghosts, OthersStay,
     Busy, At
<1>2. Apart /\ QuietSafe /\ OriginalBeside
  BY <1>1 DEF Apart, QuietInv
<1>3. calm' = {}
  <2>1. CASE Start
    BY <1>2, <2>1, StartTypes, TypeParts
       DEF QuietInv, CalmConnections, ScalarsOK, history, ghosts, Busy, At
  <2>2. CASE Crash
    BY <2>2 DEF Crash
  <2> QED
    BY <2>1, <2>2
<1>4. QuietSafe' /\ OriginalBeside'
  BY <1>1, <1>2 DEF QuietSafe, OriginalBeside, Saved, Snapshots, Exists, Healthy
<1>5. NobodyMeddles' /\ CalmConnections'
  BY <1>1, <1>3 DEF NobodyMeddles, CalmConnections, RecoveryPCs
<1>6. \A u \in Threads : RecoveryKnows(u)' /\ RestoreKnows(u)'
  BY <1>1 DEF RecoveryKnows, RestoreKnows, RestorePCs, At
<1> QED
  BY <1>4, <1>5, <1>6 DEF QuietInv

\* At the start there is one database, and nothing written.
LEMMA InitQuiet == Init => QuietInv
<1> SUFFICES ASSUME Init PROVE QuietInv
  OBVIOUS
<1>1. /\ disk["db"] = Installed /\ disk["bak"] = Missing /\ quiet = {} /\ calm = {}
      /\ \A u \in Threads : th[u].pc = "idle"
      /\ Installed.state = "good" /\ Missing.state = "missing"
  BY Contents, ThreadParts DEF Init, Places
<1>2. NobodyMeddles /\ CalmConnections /\ OriginalBeside /\ QuietSafe
  BY <1>1 DEF NobodyMeddles, CalmConnections, OriginalBeside, QuietSafe, Exists, RecoveryPCs
<1>3. \A u \in Threads : RecoveryKnows(u) /\ RestoreKnows(u)
  BY <1>1, Contents DEF RecoveryKnows, RestoreKnows, RestorePCs, At
<1> QED
  BY <1>2, <1>3 DEF QuietInv

\* Whatever step is taken, as long as no snapshot has to go.
LEMMA NextQuiet == TypeInv /\ QuietInv /\ BelowQuota /\ [Next]_vars => QuietInv'
<1> SUFFICES ASSUME TypeInv, QuietInv, BelowQuota, [Next]_vars, Apart' PROVE QuietInv'
  BY DEF QuietInv
<1>1. ASSUME NEW t \in Threads, Step(t) PROVE QuietInv'
  <2>1. CASE Recover(t)
    BY <2>1, LookQuiet, JudgeQuiet, RemoveDbQuiet, BringBackQuiet, DropQuiet DEF Recover
  <2>2. CASE Use(t)
    BY <2>2, CheckQuiet, ConnectQuiet, CommitQuiet DEF Use
  <2>3. CASE Replace(t)
    BY <2>3, StagingQuiet, SwappingQuiet DEF Replace
  <2>4. CASE Restore(t) /\ ~Replace(t)
    BY <2>4, LockQuiet, UnlockQuiet DEF Restore
  <2> QED
    BY <1>1, <2>1, <2>2, <2>3, <2>4 DEF Step, Restore
<1>2. CASE UNCHANGED vars
  BY <1>2 DEF vars, files, process, history, ghosts, QuietInv, Apart, NobodyMeddles,
              CalmConnections, OriginalBeside, QuietSafe, RecoveryKnows, RestoreKnows, Barren,
              Saved, Snapshots, Exists, Healthy, At
<1> QED
  BY <1>1, <1>2, BeginQuiet, RestartQuiet DEF Next

\* A write whose connection met no restore is never lost: not to restores before
\* or after it, their failures or a crash, for any number of each, as long as the
\* retention has not deleted a safety snapshot, unless the recovery that a status
\* command runs and a restore overlapped.
THEOREM QuietWrites == Spec /\ []BelowQuota => []QuietWritesKept
<1>1. QuietInv => QuietWritesKept
  BY DEF QuietInv, Apart, QuietSafe, QuietWritesKept, Saved, Places
<1> QED
  BY <1>1, InitTypes, NextTypes, InitQuiet, NextQuiet, PTL DEF Spec

-----------------------------------------------------------------------------
(* One command after another. *)

\* The database that a start would choose is whole and has every write that is in
\* no snapshot.
Kept == Sound(Recoverable) /\ \A w \in acked : w \in Recoverable.writes \/ Saved(w)

\* Once commands have overlapped, or a rollback failed, they have.
LEMMA StaysOrderly == [Next]_vars /\ Orderly' => Orderly
<1>1. CASE Start \/ Crash \/ UNCHANGED vars
  BY <1>1 DEF Start, Crash, vars, history, Orderly
<1>2. ASSUME NEW t \in Threads, Begin(t) \/ Step(t), Orderly' PROVE Orderly
  BY <1>2 DEF Begin, Step, Recover, Use, Restore, Replace, Orderly
<1> QED
  BY <1>1, <1>2 DEF Next

\* What holds beside a busy thread: nothing else runs.
LEMMA Alone ==
  ASSUME TypeInv, OrderInv, Orderly, NEW t \in Threads, Busy(t)
  PROVE  /\ \A u \in Threads \ {t} : th[u].pc = "idle" /\ conn[u] = "none"
         /\ th[t].pc # "commit" => conn[t] = "none" /\ Movable("db") /\ Movable("bak")
         /\ InOrder(t) /\ SnapshotsSound /\ Kept
         /\ FilesOK /\ ThreadsOK /\ th \in [Threads -> Thread] /\ ScalarsOK
         /\ Idle.pc = "idle" /\ {"db", "bak", "stage"} = Places
<1>1. /\ Serial /\ InOrder(t) /\ SnapshotsSound /\ NeverBlank /\ WritesKept
  BY DEF OrderInv
<1>2. \A u \in Threads \ {t} : th[u].pc = "idle" /\ conn[u] = "none"
  BY <1>1, TypeParts DEF Serial, Busy, Linked, At
<1>3. th[t].pc # "commit" => conn[t] = "none"
  BY TypeParts DEF Linked, At
<1>4. th[t].pc # "commit" => Movable("db") /\ Movable("bak")
  BY <1>2, <1>3 DEF Movable
<1>5. Kept
  BY <1>1 DEF NeverBlank, WritesKept, Kept, Sound, Saved
<1> QED
  BY <1>1, <1>2, <1>3, <1>4, <1>5, TypeParts, ThreadParts DEF ThreadsOK, Places

\* What a step has to show for itself then.
LEMMA OrderStep ==
  ASSUME TypeInv, OrderInv, Orderly, NEW t \in Threads, Busy(t), OthersStay(t),
         InOrder(t)', SnapshotsSound', Kept',
         app' = "up" /\ ~Busy(t)' => ~Exists("bak")'
  PROVE  OrderInv'
<1>1. \A u \in Threads \ {t} : th'[u].pc = "idle"
  BY Alone DEF OthersStay
<1>2. \A u \in Threads \ {t} : InOrder(u)'
  BY <1>1 DEF InOrder, RecoveryFiles, RestoreFiles, Placed, NextSnapshot, ChoiceSound, BackupGone, At,
              RestorePCs
<1>3. Serial' /\ AtRest'
  BY <1>1 DEF Serial, AtRest, Busy, At
<1>4. NeverBlank' /\ WritesKept'
  BY DEF NeverBlank, WritesKept, Kept, Sound, Saved
<1> QED
  BY <1>2, <1>3, <1>4 DEF OrderInv

\* A thread outside a restore has neither a choice nor a snapshot to take.
LEMMA OutsideRestore ==
  ASSUME NEW t \in Threads, th[t].pc \notin RestorePCs \cup {"lock"}
  PROVE  RestoreFiles(t) /\ NextSnapshot(t) /\ ChoiceSound(t)
  BY DEF RestoreFiles, Placed, NextSnapshot, ChoiceSound, RestorePCs, At

\* What a step of the recovery has to show.
LEMMA RecoveryOrder ==
  ASSUME TypeInv, OrderInv, Orderly, NEW t \in Threads, Recover(t),
         RecoveryFiles(t)', BackupGone(t)', Recoverable' = Recoverable,
         ~Busy(t)' => ~Exists("bak")'
  PROVE  OrderInv'
<1>1. RecoverEffect(t) /\ th[t].pc \in RecoveryPCs
  BY Recovering, TypeParts
<1>2. Busy(t) /\ th'[t].pc \notin RestorePCs \cup {"lock", "commit"}
  BY <1>1, ThreadParts DEF RecoverEffect, RecoveryPCs, RestorePCs, Busy, At
<1>3. (th[t].pc \notin RestorePCs \cup {"lock"} =>
         RestoreFiles(t) /\ NextSnapshot(t) /\ ChoiceSound(t))'
  BY OutsideRestore, PTL
<1>4. InOrder(t)'
  BY <1>2, <1>3 DEF InOrder, At
<1>5. SnapshotsSound' /\ Kept'
  BY <1>1, <1>2, Alone DEF RecoverEffect, ghosts, SnapshotsSound, Kept, Saved, Snapshots
<1> QED
  BY <1>1, <1>2, <1>4, <1>5, OrderStep DEF RecoverEffect

\* The recovery knows the files at each of its places, and it changes nothing about which
\* database a start would choose.
LEMMA RecoverFits ==
  ASSUME TypeInv, OrderInv, Orderly, NEW t \in Threads, Recover(t)
  PROVE  /\ RecoveryFiles(t)' /\ BackupGone(t)' /\ Recoverable' = Recoverable
         /\ ~Busy(t)' => ~Exists("bak")'
<1>1. /\ th[t].pc \in RecoveryPCs /\ Busy(t) /\ th[t].pc # "commit"
  BY Recovering, TypeParts DEF RecoveryPCs, Busy, At
<1>2. /\ Movable("db") /\ Movable("bak") /\ InOrder(t) /\ Kept
      /\ FilesOK /\ ThreadsOK /\ th \in [Threads -> Thread]
      /\ Idle.pc = "idle" /\ {"db", "bak", "stage"} = Places
  BY <1>1, Alone
<1>3. RecoveryFiles(t) /\ BackupGone(t) /\ Recoverable.state = "good"
  BY <1>2 DEF InOrder, Kept, Sound
<1>4. CASE Look(t) \/ Judge(t) \/ JudgeFails(t)
  <2>1. disk' = disk /\ Recoverable' = Recoverable
    BY <1>4 DEF Look, Judge, JudgeFails, GiveUp, files, Recoverable, Exists, Healthy
  <2>2. \/ th'[t].pc = "judge" /\ Exists("bak")
        \/ th'[t].pc \in {"dropStage", "check", "idle"} /\ ~Exists("bak")
        \/ th'[t].pc = "health" /\ Exists("bak") /\ Exists("db")
        \/ /\ th'[t].pc \in {"judgeBoth", "judgeBak", "removeDb", "bringBack"}
           /\ Exists("bak") /\ ~Healthy("db")
        \/ th'[t].pc = "dropBak" /\ Healthy("db")
    <3>1. CASE Look(t)
      BY <1>2, <3>1 DEF Look, Goto, GiveUp, Done, Thread
    <3>2. CASE Judge(t)
      BY <1>2, <1>3, <3>2 DEF Judge, Goto, Thread, RecoveryFiles, At, Exists, Healthy
    <3>3. ~JudgeFails(t)
      BY <1>3 DEF JudgeFails, RecoveryFiles, Recoverable, At, Exists, Healthy
    <3> QED
      BY <1>4, <3>1, <3>2, <3>3
  <2> QED
    BY <2>1, <2>2 DEF RecoveryFiles, BackupGone, Busy, At, Exists, Healthy
<1>5. CASE RemoveDb(t)
  <2>1. th[t].pc = "removeDb" /\ th'[t].pc = "bringBack" /\ Exists("bak") /\ ~Healthy("db")
    BY <1>2, <1>3, <1>5 DEF RemoveDb, Goto, At, Thread, RecoveryFiles
  <2>2. disk'["bak"] = disk["bak"] /\ disk'["db"] \in {disk["db"], Missing}
    BY <1>2, <1>5, RemoveFiles DEF RemoveDb
  <2> QED
    BY <2>1, <2>2, Contents
       DEF RecoveryFiles, BackupGone, Recoverable, Busy, At, Exists, Healthy
<1>6. CASE BringBack(t)
  <2>1. th[t].pc = "bringBack" /\ Exists("bak") /\ ~Healthy("db") /\ CanRename("bak", "db")
    BY <1>2, <1>3, <1>6 DEF BringBack, At, RecoveryFiles, CanRename
  <2>2. Rename("bak", "db") /\ Goto(t, "dropStage")
    BY <1>6, <2>1 DEF BringBack
  <2>3. disk'["db"] = disk["bak"] /\ disk'["bak"] = Missing /\ th'[t].pc = "dropStage"
    BY <1>2, <2>2, RenameFiles DEF Goto, Thread
  <2> QED
    BY <2>1, <2>3, Contents
       DEF RecoveryFiles, BackupGone, Recoverable, Busy, At, Exists, Healthy
<1>7. CASE DropBak(t)
  <2>1. th[t].pc = "dropBak" /\ th'[t].pc = "dropStage" /\ Healthy("db")
    BY <1>2, <1>3, <1>7 DEF DropBak, Goto, At, Thread, RecoveryFiles
  <2>2. disk'["db"] = disk["db"] /\ disk'["bak"].state = "missing"
    BY <1>2, <1>7, RemoveFiles DEF DropBak
  <2> QED
    BY <2>1, <2>2 DEF RecoveryFiles, BackupGone, Recoverable, Busy, At, Exists, Healthy
<1>8. CASE DropStage(t)
  <2>1. th[t].pc = "dropStage" /\ th'[t].pc = "check" /\ ~Exists("bak")
    BY <1>2, <1>3, <1>8 DEF DropStage, Goto, At, Thread, BackupGone
  <2>2. disk'["db"] = disk["db"] /\ disk'["bak"] = disk["bak"]
    BY <1>2, <1>8, RemoveFiles DEF DropStage
  <2> QED
    BY <2>1, <2>2 DEF RecoveryFiles, BackupGone, Recoverable, Busy, At, Exists, Healthy
<1> QED
  BY <1>4, <1>5, <1>6, <1>7, <1>8 DEF Recover

\* The recovery restores order.
LEMMA RecoverInOrder ==
  ASSUME TypeInv, OrderInv, Orderly, NEW t \in Threads, Recover(t)
  PROVE  OrderInv'
  BY RecoverFits, RecoveryOrder

\* Opening the database and writing to it.
LEMMA UseInOrder ==
  ASSUME TypeInv, OrderInv, Orderly, NEW t \in Threads, Use(t)
  PROVE  OrderInv'
<1>1. Busy(t) /\ th[t].pc \in {"check", "connect", "commit"}
  BY DEF Use, Check, Connect, Commit, CommitFails, Busy, At
<1>2. /\ InOrder(t) /\ SnapshotsSound /\ Kept
      /\ FilesOK /\ ThreadsOK /\ th \in [Threads -> Thread] /\ ScalarsOK
      /\ Idle.pc = "idle" /\ {"db", "bak", "stage"} = Places
      /\ th[t].pc # "commit" => conn[t] = "none"
  BY <1>1, Alone
<1>3. ~Exists("bak") /\ Recoverable = disk["db"] /\ Sound(disk["db"])
  BY <1>1, <1>2 DEF InOrder, BackupGone, Recoverable, Kept
<1>4. Exists("db") /\ Healthy("db") /\ Opened = disk
  BY <1>3 DEF Sound, Exists, Healthy, Opened
<1> DEFINE Fits == /\ OthersStay(t) /\ snaps' = snaps /\ begun' = begun
                   /\ disk'["bak"].state = "missing" /\ Sound(disk'["db"])
                   /\ \A w \in acked' : w \in disk'["db"].writes \/ Saved(w)
                   /\ th'[t].pc \in {"idle", "connect", "commit"}
                   /\ th'[t].pc = "commit" => conn'[t] = "db"
<1>5. ASSUME Fits PROVE OrderInv'
  <2>1. (th[t].pc \notin RestorePCs \cup {"lock"} =>
           RestoreFiles(t) /\ NextSnapshot(t) /\ ChoiceSound(t))'
    BY OutsideRestore, PTL
  <2>2. InOrder(t)'
    BY <1>5, <2>1 DEF InOrder, RecoveryFiles, BackupGone, RestorePCs, At, Exists
  <2>3. SnapshotsSound' /\ Kept'
    BY <1>2, <1>5 DEF SnapshotsSound, Kept, Recoverable, Saved, Snapshots, Exists
  <2> QED
    BY <1>1, <1>5, <2>2, <2>3, OrderStep DEF Exists
<1>6. CASE Check(t)
  <2>1. /\ OthersStay(t) /\ th'[t].pc \in {"connect", "idle"}
        /\ UNCHANGED <<files, process, history, begun, crashes>>
    BY <1>2, <1>6, CheckEffect
  <2>2. Fits
    BY <1>2, <1>3, <2>1 DEF files, history, ghosts, Kept, Exists
  <2> QED
    BY <1>5, <2>2
<1>7. CASE Connect(t)
  <2>1. /\ OthersStay(t) /\ UNCHANGED <<snaps, acked, begun>> /\ conn[t] = "none"
        /\ disk' \in {disk, Opened, Migrated(Opened)}
        /\ th'[t].pc \in {"idle", "commit"} /\ (th'[t].pc = "commit" => conn'[t] = "db")
    <3>1. th[t].pc = "connect" /\ conn[t] = "none"
      BY <1>2, <1>7 DEF Connect, At
    <3> QED
      BY <1>2, <1>7, <3>1, ConnectEffect
  <2>2. Migrated(disk) = disk
    BY <1>3 DEF Migrated, Sound
  <2>3. Fits
    BY <1>2, <1>3, <1>4, <2>1, <2>2 DEF Kept, Exists
  <2> QED
    BY <1>5, <2>3
<1>8. CASE Commit(t) \/ CommitFails(t)
  <2>1. /\ OthersStay(t) /\ th'[t] = Idle /\ th[t].pc = "commit"
        /\ \A p \in Places : /\ disk'[p].state = disk[p].state
                             /\ disk'[p].base = disk[p].base
                             /\ disk'[p].writes = IF th[t].ok /\ conn[t] = p
                                  THEN disk[p].writes \cup {th[t].id} ELSE disk[p].writes
        /\ acked' = IF th[t].ok THEN acked \cup {th[t].id} ELSE acked
        /\ UNCHANGED <<snaps, process, atStart, strain, begun, crashes>>
    BY <1>8, CommitEffect
  <2>2. conn[t] = "db"
    BY <1>2, <2>1 DEF InOrder, At
  <2>3. Fits
    BY <1>2, <1>3, <2>1, <2>2 DEF Kept, Sound, Exists
  <2> QED
    BY <1>5, <2>3
<1> QED
  BY <1>6, <1>7, <1>8 DEF Use

\* The lock, a new command, and what a start or a crash leaves.
LEMMA TurnsInOrder ==
  ASSUME TypeInv, OrderInv, Orderly, Orderly'
  PROVE  /\ \A t \in Threads : Restore(t) /\ Lock(t) => OrderInv'
         /\ \A t \in Threads : Unlock(t) /\ UNCHANGED <<strain, begun, crashes>> => OrderInv'
         /\ \A t \in Threads : Begin(t) => OrderInv'
         /\ Start \/ Crash => OrderInv'
<1>1. ASSUME NEW t \in Threads, Restore(t), Lock(t) PROVE OrderInv'
  <2>1. /\ OthersStay(t) /\ th[t].pc = "lock" /\ files' = files
        /\ UNCHANGED <<acked, quiet, begun>>
        /\ \/ restoring /\ th'[t] = Idle /\ UNCHANGED <<restoring, atStart, calm>>
           \/ /\ ~restoring /\ SameCommand(t) /\ th'[t].pc = "snapshot"
              /\ atStart' = disk["db"] /\ calm' = {}
    BY <1>1, LockTypes
  <2>2. Busy(t) /\ InOrder(t) /\ SnapshotsSound /\ Kept /\ Idle.pc = "idle"
    BY <2>1, Alone DEF Busy, At
  <2>3. ~Exists("bak") /\ Sound(disk["db"])
    BY <2>1, <2>2 DEF InOrder, BackupGone, Kept, Recoverable
  <2>4. SnapshotsSound' /\ Kept'
    BY <2>1, <2>2 DEF SnapshotsSound, Kept, Recoverable, Saved, Snapshots, Exists, Healthy, files
  <2>5. InOrder(t)'
    BY <2>1, <2>2, <2>3
       DEF InOrder, RecoveryFiles, RestoreFiles, Placed, NextSnapshot, ChoiceSound, BackupGone,
           SameCommand, Snapshots, Exists, RestorePCs, files, At
  <2> QED
    BY <2>1, <2>2, <2>3, <2>4, <2>5, OrderStep DEF files, Exists
<1>2. ASSUME NEW t \in Threads, Unlock(t), UNCHANGED <<strain, begun, crashes>>
      PROVE  OrderInv'
  <2>1. /\ OthersStay(t) /\ th[t].pc = "return" /\ th'[t] = Idle
        /\ UNCHANGED <<files, app, ready, ghosts, begun>>
    BY <1>2, UnlockTypes DEF Unlock
  <2>2. Busy(t) /\ InOrder(t) /\ SnapshotsSound /\ Kept /\ Idle.pc = "idle"
    BY <2>1, Alone DEF Busy, At
  <2>3. ~Exists("bak")
    BY <2>1, <2>2 DEF InOrder, BackupGone
  <2>4. SnapshotsSound' /\ Kept'
    BY <2>1, <2>2
       DEF SnapshotsSound, Kept, Recoverable, Saved, Snapshots, Exists, Healthy, files, ghosts
  <2>5. InOrder(t)'
    BY <2>1, <2>2
       DEF InOrder, RecoveryFiles, RestoreFiles, Placed, NextSnapshot, ChoiceSound, BackupGone,
           RestorePCs, At
  <2> QED
    BY <2>1, <2>2, <2>3, <2>4, <2>5, OrderStep DEF files, Exists
<1>3. ASSUME NEW t \in Threads, Begin(t) PROVE OrderInv'
  <2>1. /\ OthersStay(t) /\ app = "up"
        /\ th'[t].id = begun + 1 /\ begun' = begun + 1
        /\ th'[t].pc \in {"look", "check", "lock"}
        /\ th'[t].pc = "lock" => \/ th'[t].from = 0 /\ th'[t].chosen = Backup
                                 \/ \E s \in Snapshots : th'[t].from = s.id
                                                         /\ th'[t].chosen = s.is
        /\ disk' = disk /\ snaps' = snaps /\ conn' = conn /\ acked' = acked
    BY <1>3, BeginTypes DEF files, ghosts
  <2>2. \A u \in Threads : ~Busy(u)
    <3>1. strain' = strain \cup {s \in {"overlap"} : \E u \in Threads : ~At(u, "idle")}
      BY <1>3 DEF Begin
    <3> QED
      BY <3>1 DEF Orderly, Busy
  <2>3. /\ ~Exists("bak") /\ SnapshotsSound /\ NeverBlank /\ WritesKept
        /\ begun \in Nat /\ \A s \in Snapshots : s.id \in Writes
    <3>1. begun \in Nat /\ Snapshots \subseteq SafetySnapshot
      BY TypeParts, ConstantsOK, Sources DEF ScalarsOK
    <3> QED
      BY <2>1, <2>2, <3>1 DEF OrderInv, AtRest, SafetySnapshot
  <2>4. \A s \in Snapshots : Sound(s.is) /\ s.id \in 1..MaxCommands /\ s.id <= begun
    BY <2>3 DEF SnapshotsSound, Writes
  <2>5. SnapshotsSound'
    BY <2>1, <2>3, <2>4, ConstantsOK DEF SnapshotsSound, Snapshots
  <2>6. NeverBlank' /\ WritesKept'
    BY <2>1, <2>3 DEF NeverBlank, WritesKept, Orderly, Recoverable, Exists, Healthy, Snapshots
  <2>7. InOrder(t)'
    <3>1. NextSnapshot(t)'
      BY <2>1, <2>3, <2>4, ConstantsOK DEF NextSnapshot, Snapshots
    <3>2. ChoiceSound(t)'
      <4>1. Sound(Backup)
        BY Contents DEF Sound
      <4>2. th'[t].pc \notin RestorePCs
        BY <2>1 DEF RestorePCs
      <4>3. \A s \in Snapshots : s.id # 0
        BY <2>4, ConstantsOK
      <4> QED
        BY <2>1, <2>4, <4>1, <4>2, <4>3 DEF ChoiceSound, Snapshots
    <3> QED
      BY <2>1, <2>3, <3>1, <3>2
         DEF InOrder, RecoveryFiles, RestoreFiles, Placed, BackupGone, Exists, RestorePCs, At
  <2>8. \A u \in Threads \ {t} : th'[u].pc = "idle"
    BY <2>1, <2>2 DEF OthersStay, Busy, At
  <2>9. \A u \in Threads \ {t} : InOrder(u)'
    BY <2>8 DEF InOrder, RecoveryFiles, RestoreFiles, Placed, NextSnapshot, ChoiceSound, BackupGone,
                At, RestorePCs
  <2>10. Serial' /\ AtRest'
    BY <2>1, <2>8 DEF Serial, AtRest, Busy, At
  <2> QED
    BY <2>5, <2>6, <2>7, <2>9, <2>10 DEF OrderInv
<1>4. ASSUME Start \/ Crash PROVE OrderInv'
  <2>1. /\ UNCHANGED <<disk, snaps, acked, begun, strain>> /\ app' # "up"
        /\ \A u \in Threads : th'[u].pc \in {"idle", "look"}
        /\ \A u, v \in Threads : th'[u].pc # "idle" /\ th'[v].pc # "idle" => u = v
    BY <1>4, StartTypes, CrashTypes, ThreadParts
       DEF Start, Crash, files, history, ghosts, OthersStay, Busy, At
  <2>2. SnapshotsSound' /\ NeverBlank' /\ WritesKept'
    BY <2>1 DEF OrderInv, SnapshotsSound, NeverBlank, WritesKept, Orderly, Recoverable, Exists,
                Healthy, Snapshots
  <2>3. \A u \in Threads : InOrder(u)'
    BY <2>1 DEF InOrder, RecoveryFiles, RestoreFiles, Placed, NextSnapshot, ChoiceSound, BackupGone,
                At, RestorePCs
  <2> QED
    BY <2>1, <2>2, <2>3 DEF OrderInv, Serial, AtRest, Busy, At
<1> QED
  BY <1>1, <1>2, <1>3, <1>4

\* What a step inside a restore has to show: what is where, and what is kept.
LEMMA ReplaceOrder ==
  ASSUME TypeInv, OrderInv, Orderly, NEW t \in Threads, Replace(t),
         RestoreFiles(t)', BackupGone(t)', SnapshotsSound', Snapshots \subseteq Snapshots', Kept',
         th'[t].pc # "snapshot"
  PROVE  OrderInv'
<1>1. ReplaceEffect(t) /\ th[t].pc \in RestorePCs
  BY ReplaceTypes
<1>2. Busy(t) /\ InOrder(t) /\ "idle" \notin RestorePCs /\ "lock" \notin RestorePCs
  BY <1>1, Alone DEF Busy, At, RestorePCs
<1>3. RecoveryFiles(t)' /\ NextSnapshot(t)' /\ ~At(t, "commit")'
  BY <1>1, <1>2 DEF ReplaceEffect, RecoveryFiles, NextSnapshot, RestorePCs, At
<1>4. ChoiceSound(t)'
  <2>1. ChoiceSound(t)
    BY <1>2 DEF InOrder
  <2> QED
    BY <1>1, <2>1 DEF ReplaceEffect, SameCommand, ChoiceSound
<1> QED
  BY <1>1, <1>2, <1>3, <1>4, OrderStep DEF ReplaceEffect, InOrder, Busy, At

\* One that is past the safety snapshot.
LEMMA LaterOrder ==
  ASSUME TypeInv, OrderInv, Orderly, NEW t \in Threads, Replace(t),
         th[t].pc \in RestorePCs \ {"snapshot", "return"}, snaps' = snaps,
         Placed(t)', BackupGone(t)', Sound(Recoverable'), th'[t].pc # "snapshot"
  PROVE  OrderInv'
<1>1. /\ Busy(t) /\ RestoreFiles(t) /\ SnapshotsSound
  BY Alone DEF Busy, At, RestorePCs, InOrder
<1>2. /\ atStart' = atStart /\ acked' = acked /\ begun' = begun
  BY DEF Replace, ghosts
<1>3. \A w \in acked' : Saved(w)'
  BY <1>1, <1>2 DEF RestoreFiles, Saved, Snapshots
<1>4. RestoreFiles(t)' /\ Kept'
  BY <1>1, <1>2, <1>3 DEF RestoreFiles, Kept
<1>5. SnapshotsSound' /\ Snapshots \subseteq Snapshots'
  BY <1>1, <1>2 DEF SnapshotsSound, Snapshots
<1> QED
  BY <1>4, <1>5, ReplaceOrder

\* What is known inside a restore.
LEMMA InsideRestore ==
  ASSUME TypeInv, OrderInv, Orderly, NEW t \in Threads, Replace(t)
  PROVE  /\ Movable("db") /\ Movable("bak") /\ conn[t] = "none"
         /\ \A u \in Threads \ {t} : th[u].pc = "idle" /\ conn[u] = "none"
         /\ Placed(t) /\ RestoreFiles(t) /\ BackupGone(t) /\ ChoiceSound(t) /\ NextSnapshot(t)
         /\ SnapshotsSound /\ Kept
         /\ Sound(atStart) /\ Sound(th[t].chosen)
         /\ FilesOK /\ ThreadsOK /\ th \in [Threads -> Thread] /\ ScalarsOK
         /\ {"db", "bak", "stage"} = Places
         /\ th[t].pc \in RestorePCs \ {"return"}
         /\ OthersStay(t) /\ SameCommand(t) /\ atStart' = atStart
<1>1. ReplaceEffect(t) /\ th[t].pc \in RestorePCs \ {"return"}
  BY ReplaceTypes
<1>2. Busy(t) /\ th[t].pc # "commit"
  BY <1>1 DEF Busy, At, RestorePCs
<1>3. atStart' = atStart
  BY DEF Replace, ghosts
<1> QED
  BY <1>1, <1>2, <1>3, Alone DEF InOrder, RestoreFiles, ChoiceSound, ReplaceEffect

\* The safety snapshot is of the database that the restore found.
LEMMA SnapshotInOrder ==
  ASSUME TypeInv, OrderInv, Orderly, BelowQuota, NEW t \in Threads, Replace(t), Snapshot(t)
  PROVE  OrderInv'
<1>1. /\ RestoreFiles(t) /\ BackupGone(t) /\ NextSnapshot(t) /\ Placed(t)
      /\ SnapshotsSound /\ Kept /\ Sound(atStart)
      /\ ThreadsOK /\ th \in [Threads -> Thread] /\ ScalarsOK
      /\ SameCommand(t) /\ atStart' = atStart /\ th[t].pc = "snapshot"
  BY InsideRestore DEF Snapshot, At
<1>2. /\ disk["db"] = atStart /\ ~Exists("bak") /\ Exists("db") /\ Recoverable = disk["db"]
      /\ Opened = disk
  BY <1>1 DEF Placed, BackupGone, Recoverable, Sound, Exists, Opened
<1>3. acked' = acked /\ begun' = begun
  BY DEF Replace, ghosts
<1>4. disk' = disk
  BY <1>2 DEF Snapshot, SnapshotTaken
<1>5. CASE SnapshotTaken(t) /\ Goto(t, "restage")
  <2> DEFINE s == [id |-> th[t].id, is |-> Opened["db"]]
  <2>1. s \in SafetySnapshot /\ snaps' = Append(snaps, s)
    BY <1>1, <1>5, SnapshotSaves DEF At
  <2>2. s.id = th[t].id /\ s.is = disk["db"]
    BY <1>2
  <2> HIDE DEF s
  <2>3. Snapshots' = Snapshots \cup {s} /\ \A w : Saved(w) => Saved(w)'
    BY <1>1, <2>1, GrowingList
  <2>4. th'[t].pc = "restage"
    BY <1>1, <1>5 DEF Goto, Thread
  <2>5. th[t].id <= begun /\ \A r \in Snapshots : r.id < th[t].id
    BY <1>1 DEF NextSnapshot
  <2>6. \A r \in Snapshots : r.id # th[t].id
    <3>1. th[t].id \in Nat
      BY <1>1, ThreadParts, ConstantsOK DEF ThreadsOK, Writes
    <3>2. \A r \in Snapshots : r.id \in Nat
      BY <1>1, Sources, ConstantsOK DEF SafetySnapshot, Writes
    <3> QED
      BY <2>5, <3>1, <3>2
  <2>7. SnapshotsSound'
    BY <1>1, <1>2, <1>3, <2>2, <2>3, <2>5, <2>6 DEF SnapshotsSound
  <2>8. \A w \in acked' : Saved(w)'
    BY <1>1, <1>2, <1>3, <2>2, <2>3 DEF Kept, Saved
  <2>9. Kept' /\ RestoreFiles(t)' /\ BackupGone(t)'
    BY <1>1, <1>2, <1>3, <1>4, <2>4, <2>8
       DEF Kept, RestoreFiles, Placed, BackupGone, Recoverable, Exists, Healthy, At
  <2> QED
    BY <2>3, <2>4, <2>7, <2>9, ReplaceOrder
<1>6. CASE Return(t, FALSE) /\ UNCHANGED <<disk, snaps>>
  <2>1. th'[t].pc = "return" /\ th'[t].ok = FALSE
    BY <1>1, <1>6, Kinds, ReturnThread DEF RestorePCs
  <2>2. RestoreFiles(t)' /\ BackupGone(t)'
    BY <1>1, <1>2, <1>4, <2>1 DEF RestoreFiles, Placed, BackupGone, Exists, At
  <2>3. SnapshotsSound' /\ Kept' /\ Snapshots \subseteq Snapshots'
    BY <1>1, <1>3, <1>4, <1>6
       DEF SnapshotsSound, Kept, Recoverable, Saved, Snapshots, Exists, Healthy
  <2> QED
    BY <2>1, <2>2, <2>3, ReplaceOrder
<1> QED
  BY <1>5, <1>6 DEF Snapshot

\* The chosen backup is staged while the database stays where it was.
LEMMA StagingInOrder ==
  ASSUME TypeInv, OrderInv, Orderly, NEW t \in Threads, Replace(t),
         Restage(t) \/ Fill(t) \/ Clear(t)
  PROVE  OrderInv'
<1>1. /\ Movable("bak") /\ Placed(t) /\ BackupGone(t) /\ ChoiceSound(t) /\ SnapshotsSound
      /\ Sound(atStart) /\ Sound(th[t].chosen)
      /\ FilesOK /\ ThreadsOK /\ th \in [Threads -> Thread]
      /\ {"db", "bak", "stage"} = Places /\ SameCommand(t) /\ atStart' = atStart
  BY InsideRestore
<1>2. th[t].pc \in {"restage", "fill", "clear"} /\ {"restage", "fill", "clear"} \subseteq RestorePCs
  BY DEF Restage, Fill, Clear, At, RestorePCs
<1>3. disk["db"] = atStart /\ ~Exists("bak")
  BY <1>1, <1>2 DEF Placed, BackupGone
<1>4. "return" \in TaskPCs[th[t].task]
  BY <1>1, <1>2, Kinds DEF RestorePCs
<1>5. ~Gone(t) /\ Source(t) = th[t].chosen
  <2>1. CASE th[t].from = 0
    BY <1>1, <1>2, <2>1 DEF ChoiceSound, Gone, Source
  <2>2. CASE th[t].from # 0
    <3>1. PICK s \in Snapshots : s.id = th[t].from /\ s.is = th[t].chosen
      BY <1>1, <1>2, <2>2 DEF ChoiceSound
    <3>2. ~Gone(t) /\ File(t) = s.is
      BY <1>1, <3>1 DEF Gone, File, SnapshotsSound
    <3> QED
      BY <2>2, <3>1, <3>2 DEF Source
  <2> QED
    BY <2>1, <2>2
<1>6. /\ disk'["db"] = disk["db"] /\ disk'["bak"].state = "missing" /\ snaps' = snaps
      /\ \/ th'[t].pc = "fill" /\ disk'["stage"] = Damaged
         \/ th'[t].pc \in {"clear", "preserve"} /\ disk'["stage"] = th[t].chosen
         \/ th'[t].pc = "return" /\ th'[t].ok = FALSE
  <2>1. CASE Restage(t)
    BY <1>1, <1>3, <2>1 DEF Restage, Goto, Thread, FilesOK, Exists
  <2>2. CASE Fill(t)
    <3>1. Exists("stage") /\ ~Gone(t)
      BY <1>1, <1>5, <2>2 DEF Fill, Placed, At
    <3>2. CASE /\ disk' = (IF Exists("stage") THEN [disk EXCEPT !["stage"] = Source(t)] ELSE disk)
               /\ snaps' = (IF Gone(t) THEN Append(snaps, [id |-> th[t].from, is |-> Blank])
                            ELSE snaps)
               /\ Goto(t, "clear")
      BY <1>1, <1>3, <1>5, <3>1, <3>2 DEF Goto, Thread, FilesOK, Exists
    <3>3. CASE /\ disk' \in {disk, [disk EXCEPT !["stage"] = Missing]} /\ Return(t, FALSE)
               /\ UNCHANGED snaps
      <4>1. th'[t].pc = "return" /\ th'[t].ok = FALSE
        BY <1>1, <1>4, <3>3, ReturnThread
      <4> QED
        BY <1>1, <1>3, <3>3, <4>1 DEF FilesOK, Exists
    <3> QED
      BY <2>2, <3>2, <3>3 DEF Fill
  <2>3. CASE Clear(t)
    <3>1. disk'["db"] = disk["db"] /\ disk'["stage"] = disk["stage"]
          /\ disk'["bak"].state = "missing"
      BY <1>1, <2>3, RemoveFiles DEF Clear
    <3>2. th'[t].pc = "preserve" /\ snaps' = snaps /\ disk["stage"] = th[t].chosen
      BY <1>1, <2>3 DEF Clear, Goto, Thread, Placed, At
    <3> QED
      BY <3>1, <3>2
  <2> QED
    BY <2>1, <2>2, <2>3
<1>7. Placed(t)' /\ BackupGone(t)' /\ Sound(Recoverable')
  BY <1>1, <1>3, <1>6, Contents
     DEF Placed, BackupGone, Recoverable, SameCommand, Exists, Healthy, At
<1> QED
  BY <1>2, <1>6, <1>7, LaterOrder

\* The original is preserved, the staged file takes its place, and a swap that
\* fails is undone.
LEMMA SwappingInOrder ==
  ASSUME TypeInv, OrderInv, Orderly, NEW t \in Threads, Replace(t),
         Preserve(t) \/ Swap(t) \/ Unstage(t)
  PROVE  OrderInv'
<1>1. /\ Movable("db") /\ Movable("bak") /\ Placed(t) /\ BackupGone(t)
      /\ Sound(atStart) /\ Sound(th[t].chosen)
      /\ FilesOK /\ ThreadsOK /\ th \in [Threads -> Thread]
      /\ {"db", "bak", "stage"} = Places /\ SameCommand(t) /\ atStart' = atStart
  BY InsideRestore
<1>2. /\ th[t].pc \in {"preserve", "swap", "unstage"} /\ snaps' = snaps
      /\ {"preserve", "swap", "unstage"} \subseteq RestorePCs
  BY DEF Preserve, Swap, Unstage, At, RestorePCs
<1>3. {"return", "swap", "undo", "verify"} \subseteq TaskPCs[th[t].task]
  BY <1>1, <1>2, Kinds DEF RestorePCs
<1>4. CASE Preserve(t)
  <2>1. /\ th[t].pc = "preserve" /\ disk["db"] = atStart /\ disk["stage"] = th[t].chosen
        /\ ~Exists("bak") /\ Exists("db")
    BY <1>1, <1>4 DEF Preserve, At, Placed, BackupGone, Sound, Exists
  <2>2. CASE /\ Rename("db", "bak")
             /\ th' = [th EXCEPT ![t].pc = "swap", ![t].existed = TRUE]
    <3>1. disk'["bak"] = atStart /\ disk'["db"] = Missing /\ disk'["stage"] = disk["stage"]
      BY <1>1, <2>1, <2>2, RenameFiles
    <3>2. th'[t].pc = "swap" /\ th'[t].existed
      BY <1>1, <1>3, <2>2, PreserveThread
    <3>3. Placed(t)' /\ BackupGone(t)' /\ Sound(Recoverable')
      BY <1>1, <2>1, <3>1, <3>2, Contents
         DEF Placed, BackupGone, Recoverable, SameCommand, Sound, Exists, Healthy, At
    <3> QED
      BY <1>2, <3>2, <3>3, LaterOrder
  <2>3. CASE Return(t, FALSE) /\ UNCHANGED <<disk, conn>>
    <3>1. th'[t].pc = "return" /\ th'[t].ok = FALSE
      BY <1>1, <1>3, <2>3, ReturnThread
    <3>2. Placed(t)' /\ BackupGone(t)' /\ Sound(Recoverable')
      BY <1>1, <2>1, <2>3, <3>1
         DEF Placed, BackupGone, Recoverable, SameCommand, Exists, Healthy, At
    <3> QED
      BY <1>2, <3>1, <3>2, LaterOrder
  <2> QED
    BY <1>4, <2>1, <2>2, <2>3 DEF Preserve
<1>5. CASE Swap(t)
  <2>1. /\ th[t].pc = "swap" /\ disk["bak"] = atStart /\ th[t].existed /\ ~Exists("db")
        /\ disk["stage"] = th[t].chosen
    BY <1>1, <1>5 DEF Swap, At, Placed
  <2>2. \/ disk'["db"] \in {th[t].chosen, Damaged} /\ disk'["bak"] = atStart
           /\ Goto(t, "verify")
        \/ disk' = disk /\ Goto(t, "undo")
    BY <1>1, <1>5, <2>1, RenameFiles, DamageFiles DEF Swap
  <2>3. /\ th'[t].existed
        /\ \/ disk'["db"] \in {th[t].chosen, Damaged} /\ disk'["bak"] = atStart
              /\ th'[t].pc = "verify"
           \/ disk' = disk /\ th'[t].pc = "undo"
    BY <1>1, <1>3, <2>1, <2>2, GotoThread DEF PCs, RestorePCs
  <2>4. Placed(t)' /\ BackupGone(t)' /\ Sound(Recoverable')
    BY <1>1, <2>1, <2>3, Contents
       DEF Placed, BackupGone, Recoverable, SameCommand, Sound, Exists, Healthy, At
  <2> QED
    BY <1>2, <2>3, <2>4, LaterOrder
<1>6. CASE Unstage(t)
  <2>1. th[t].pc = "unstage" /\ disk["db"] = atStart /\ ~Exists("bak")
    BY <1>1, <1>6 DEF Unstage, At, Placed, BackupGone
  <2>2. disk'["db"] = disk["db"] /\ disk'["bak"] = disk["bak"]
    BY <1>1, <1>6, RemoveFiles DEF Unstage
  <2>3. th'[t].pc = "return" /\ th'[t].ok = FALSE
    BY <1>1, <1>3, <1>6, ReturnThread DEF Unstage
  <2>4. Placed(t)' /\ BackupGone(t)' /\ Sound(Recoverable')
    BY <1>1, <2>1, <2>2, <2>3
       DEF Placed, BackupGone, Recoverable, SameCommand, Exists, Healthy, At
  <2> QED
    BY <1>2, <2>3, <2>4, LaterOrder
<1> QED
  BY <1>4, <1>5, <1>6

\* The original comes back: as no rollback fails, it does.
LEMMA UndoingInOrder ==
  ASSUME TypeInv, OrderInv, Orderly, Orderly', NEW t \in Threads, Replace(t),
         Undo(t) \/ Rollback(t)
  PROVE  OrderInv'
<1>1. /\ Movable("db") /\ Movable("bak") /\ Placed(t) /\ Sound(atStart)
      /\ FilesOK /\ ThreadsOK /\ th \in [Threads -> Thread]
      /\ {"db", "bak", "stage"} = Places /\ SameCommand(t) /\ atStart' = atStart
  BY InsideRestore
<1>2. /\ th[t].pc \in {"undo", "rollback"} /\ snaps' = snaps
      /\ {"undo", "rollback"} \subseteq RestorePCs
  BY DEF Undo, Rollback, RenameBack, At, RestorePCs
<1>3. disk["bak"] = atStart /\ th[t].existed /\ ~Exists("db")
  BY <1>1, <1>2 DEF Placed
<1>4. CanRename("bak", "db") /\ Exists("bak")
  BY <1>1, <1>3 DEF CanRename, Sound, Exists
<1>5. ~Exists("bak")'
  <2>1. strain' = strain \cup {s \in {"rollback"} : RollbackFails(t)}
    BY DEF Replace
  <2>2. ~RollbackFails(t)
    BY <2>1 DEF Orderly
  <2> QED
    BY <1>2, <1>3, <1>4, <2>2 DEF RollbackFails, At
<1>6. Rename("bak", "db")
  BY <1>4, <1>5 DEF Undo, Rollback, RenameBack, Exists
<1>7. disk'["db"] = atStart /\ disk'["bak"] = Missing
  BY <1>1, <1>3, <1>6, RenameFiles
<1>8. th'[t].pc \in {"unstage", "reopen"}
  BY <1>1 DEF Undo, Rollback, RenameBack, Goto, Thread
<1>9. Placed(t)' /\ BackupGone(t)' /\ Sound(Recoverable')
  BY <1>1, <1>7, <1>8, Contents
     DEF Placed, BackupGone, Recoverable, SameCommand, Exists, Healthy, At
<1> QED
  BY <1>2, <1>8, <1>9, LaterOrder

\* The verdict on the restored file, and what follows from it.
LEMMA VerdictInOrder ==
  ASSUME TypeInv, OrderInv, Orderly, NEW t \in Threads, Replace(t),
         Verify(t) \/ Discard(t) \/ Reopen(t) \/ Cleanup(t)
  PROVE  OrderInv'
<1>1. /\ Movable("db") /\ Movable("bak") /\ Placed(t) /\ BackupGone(t)
      /\ Sound(atStart) /\ Sound(th[t].chosen)
      /\ FilesOK /\ ThreadsOK /\ th \in [Threads -> Thread]
      /\ {"db", "bak", "stage"} = Places /\ SameCommand(t) /\ atStart' = atStart
  BY InsideRestore
<1>2. /\ th[t].pc \in {"verify", "discard", "reopen", "cleanup"} /\ snaps' = snaps
      /\ {"verify", "discard", "reopen", "cleanup"} \subseteq RestorePCs
  BY DEF Verify, Discard, Reopen, Cleanup, At, RestorePCs
<1>3. {"return", "discard", "cleanup", "rollback"} \subseteq TaskPCs[th[t].task]
  BY <1>1, <1>2, Kinds DEF RestorePCs
<1>4. CASE Verify(t)
  <2>1. /\ disk["bak"] = atStart /\ th[t].existed /\ disk["db"] \in {th[t].chosen, Damaged}
        /\ th[t].pc = "verify"
    BY <1>1, <1>4 DEF Verify, Placed, At
  <2>2. Exists("db") /\ disk' = disk
    BY <1>4, <2>1, <1>1, Contents DEF Verify, Opened, Exists, Sound
  <2>3. \/ Goto(t, "cleanup") /\ Healthy("db")
        \/ Goto(t, "discard")
    BY <1>4, <2>2 DEF Verify, Healthy
  <2>4. /\ th'[t].existed
        /\ \/ th'[t].pc = "cleanup" /\ disk["db"] = th[t].chosen
           \/ th'[t].pc = "discard"
    BY <1>1, <1>3, <2>1, <2>3, GotoThread, Contents DEF PCs, RestorePCs, Healthy
  <2>5. Placed(t)' /\ BackupGone(t)' /\ Sound(Recoverable')
    BY <1>1, <2>1, <2>2, <2>4, Contents
       DEF Placed, BackupGone, Recoverable, SameCommand, Sound, Exists, Healthy, At
  <2> QED
    BY <1>2, <2>4, <2>5, LaterOrder
<1>5. CASE Discard(t)
  <2>1. disk["bak"] = atStart /\ th[t].existed
    BY <1>1, <1>5 DEF Discard, Placed, At
  <2>2. disk'["db"].state = "missing" /\ disk'["bak"] = disk["bak"]
    BY <1>1, <1>5, RemoveFiles DEF Discard
  <2>3. th'[t].pc = "rollback" /\ th'[t].existed
    BY <1>1, <1>3, <1>5, <2>1, GotoThread DEF Discard, PCs, RestorePCs
  <2>4. Placed(t)' /\ BackupGone(t)' /\ Sound(Recoverable')
    BY <1>1, <2>1, <2>2, <2>3
       DEF Placed, BackupGone, Recoverable, SameCommand, Sound, Exists, Healthy, At
  <2> QED
    BY <1>2, <2>3, <2>4, LaterOrder
<1>6. CASE Reopen(t)
  <2>1. disk["db"] = atStart /\ ~Exists("bak")
    BY <1>1, <1>6 DEF Reopen, Placed, BackupGone, At
  <2>2. disk' = disk
    BY <1>1, <1>6, <2>1 DEF Reopen, Opened, Sound, Exists
  <2>3. th'[t].pc = "return" /\ th'[t].ok = FALSE
    BY <1>1, <1>3, <1>6, ReturnThread DEF Reopen
  <2>4. Placed(t)' /\ BackupGone(t)' /\ Sound(Recoverable')
    BY <1>1, <2>1, <2>2, <2>3
       DEF Placed, BackupGone, Recoverable, SameCommand, Exists, Healthy, At
  <2> QED
    BY <1>2, <2>3, <2>4, LaterOrder
<1>7. CASE Cleanup(t)
  <2>1. disk["db"] = th[t].chosen
    BY <1>1, <1>7 DEF Cleanup, Placed, At
  <2>2. disk'["db"] = disk["db"] /\ disk'["bak"].state = "missing"
    BY <1>1, <1>7, RemoveFiles DEF Cleanup
  <2>3. th'[t].pc = "return" /\ th'[t].ok = TRUE
    BY <1>1, <1>3, <1>7, ReturnThread DEF Cleanup
  <2>4. Placed(t)' /\ BackupGone(t)' /\ Sound(Recoverable')
    BY <1>1, <2>1, <2>2, <2>3
       DEF Placed, BackupGone, Recoverable, SameCommand, Exists, Healthy, At
  <2> QED
    BY <1>2, <2>3, <2>4, LaterOrder
<1> QED
  BY <1>4, <1>5, <1>6, <1>7

\* At the start there is one database, and nothing to keep.
LEMMA InitOrder == Init => OrderInv
<1> SUFFICES ASSUME Init PROVE OrderInv
  OBVIOUS
<1>1. /\ disk["db"] = Installed /\ disk["bak"] = Missing /\ acked = {} /\ app = "down"
      /\ Snapshots = {} /\ \A u \in Threads : th[u].pc = "idle"
      /\ Sound(Installed) /\ Missing.state = "missing"
  BY Contents, ThreadParts DEF Init, Places, Snapshots, Sound
<1>2. ASSUME NEW u \in Threads PROVE InOrder(u)
  <2>1. RestoreFiles(u) /\ NextSnapshot(u) /\ ChoiceSound(u)
    BY <1>1, OutsideRestore DEF RestorePCs
  <2>2. RecoveryFiles(u) /\ BackupGone(u)
    BY <1>1 DEF RecoveryFiles, BackupGone, At
  <2> QED
    BY <1>1, <2>1, <2>2 DEF InOrder, At
<1>3. Serial /\ AtRest /\ SnapshotsSound
  BY <1>1 DEF Serial, AtRest, SnapshotsSound, Busy, At
<1>4. NeverBlank /\ WritesKept
  BY <1>1 DEF NeverBlank, WritesKept, Recoverable, Exists, Sound
<1> QED
  BY <1>2, <1>3, <1>4 DEF OrderInv

\* Whatever step is taken, as long as no snapshot has to go.
LEMMA NextOrder == TypeInv /\ OrderInv /\ BelowQuota /\ [Next]_vars => OrderInv'
<1> SUFFICES ASSUME TypeInv, OrderInv, BelowQuota, [Next]_vars, Orderly' PROVE OrderInv'
  BY DEF OrderInv
<1>1. Orderly
  BY StaysOrderly
<1>2. ASSUME NEW t \in Threads, Step(t) PROVE OrderInv'
  <2>1. CASE Recover(t)
    BY <1>1, <2>1, RecoverInOrder
  <2>2. CASE Use(t)
    BY <1>1, <2>2, UseInOrder
  <2>3. CASE Replace(t)
    BY <1>1, <2>3, SnapshotInOrder, StagingInOrder, SwappingInOrder, UndoingInOrder,
       VerdictInOrder DEF Replace
  <2>4. CASE Restore(t) /\ ~Replace(t)
    BY <1>1, <2>4, TurnsInOrder DEF Restore
  <2> QED
    BY <1>2, <2>1, <2>2, <2>3, <2>4 DEF Step, Restore
<1>3. CASE UNCHANGED vars
  BY <1>3 DEF vars, files, process, history, ghosts, OrderInv, Orderly, Serial, AtRest,
              SnapshotsSound, InOrder, RecoveryFiles, RestoreFiles, Placed, NextSnapshot,
              ChoiceSound, BackupGone, NeverBlank, WritesKept, Recoverable, Snapshots, Saved,
              Busy, Exists, Healthy, At
<1> QED
  BY <1>1, <1>2, <1>3, TurnsInOrder DEF Next

\* While commands run one after another and no rollback fails, a start after any
\* crash serves a whole database with the user's data, however many commands and
\* crashes there were, as long as the retention has deleted no safety snapshot.
THEOREM AlwaysServable == Spec /\ []BelowQuota => []NeverBlank
<1>1. OrderInv => NeverBlank
  BY DEF OrderInv, NeverBlank
<1> QED
  BY <1>1, InitTypes, NextTypes, InitOrder, NextOrder, PTL DEF Spec

\* And every acknowledged write is in that database, or in a safety snapshot.
THEOREM WritesAreKept == Spec /\ []BelowQuota => []WritesKept
<1>1. OrderInv => WritesKept
  BY DEF OrderInv, WritesKept
<1> QED
  BY <1>1, InitTypes, NextTypes, InitOrder, NextOrder, PTL DEF Spec

\* A restore that returns success has installed what the user chose, and one that
\* returns an error has left the database as it found it.
THEOREM RestoreIsAtomic == Spec /\ []BelowQuota => AllOrNothing
<1> DEFINE Whole == \A t \in Threads : Orderly /\ Unlock(t) =>
                      disk["db"] = IF th[t].ok THEN th[t].chosen ELSE atStart
<1>1. OrderInv => [Whole]_vars
  BY DEF OrderInv, InOrder, RestoreFiles, Placed, Unlock
<1>2. [][Whole]_vars => AllOrNothing
  BY DEF AllOrNothing
<1> HIDE DEF Whole
<1> QED
  BY <1>1, <1>2, InitTypes, NextTypes, InitOrder, NextOrder, PTL DEF Spec
-----------------------------------------------------------------------------
(* The files implement one database that is exchanged as a whole. *)

\* The user's database is the one that a start would choose, wherever it lies, and the
\* databases saved are those in the safety snapshots.
Promise == INSTANCE DatabasePromise WITH
  db <- Recoverable, kept <- {s.is : s \in Snapshots}, Ids <- Writes

\* From its snapshot on a restore has the database that it found in one.
FoundIsSaved ==
  Orderly => \A t \in Threads : th[t].pc \in RestorePCs \ {"snapshot", "return"} =>
               \E s \in Snapshots : s.is = atStart

\* A database with no second one beside it is the user's, and so is a sound one.
LEMMA OneDatabase == ~Exists("bak") \/ Healthy("db") => Recoverable = disk["db"]
  BY DEF Recoverable

\* Inside a restore the user's database is the one found or the one chosen, and until
\* its snapshot is taken it is the one found.
LEMMA FoundOrChosen ==
  ASSUME TypeInv, OrderInv, Orderly, NEW t \in Threads, th[t].pc \in RestorePCs
  PROVE  /\ Recoverable \in {atStart, th[t].chosen}
         /\ th[t].pc = "snapshot" => Recoverable = atStart
<1>1. Busy(t)
  BY DEF Busy, At, RestorePCs
<1>2. Placed(t) /\ BackupGone(t) /\ Sound(atStart) /\ Sound(th[t].chosen)
  BY <1>1, Alone DEF InOrder, RestoreFiles, ChoiceSound
<1>3. CASE th[t].pc \in {"snapshot", "restage", "fill", "clear", "preserve", "unstage",
                         "reopen", "return"}
  BY <1>2, <1>3, OneDatabase DEF Placed, BackupGone, At
<1>4. CASE th[t].pc \in {"swap", "undo", "rollback"}
  BY <1>2, <1>4 DEF Placed, Recoverable, Exists, Healthy, Sound
<1>5. CASE th[t].pc \in {"verify", "discard", "cleanup"}
  <2>1. disk["bak"] = atStart /\ disk["db"] \in {th[t].chosen, Damaged}
    BY <1>2, <1>5 DEF Placed
  <2> QED
    BY <1>2, <1>5, <2>1, Contents DEF Recoverable, Exists, Healthy, Sound
<1> QED
  BY <1>3, <1>4, <1>5 DEF RestorePCs

\* A revert's source is there while it runs, so only the safety snapshot adds to the list.
LEMMA ListStays ==
  ASSUME TypeInv, OrderInv, Orderly, NEW t \in Threads, Replace(t), th[t].pc # "snapshot"
  PROVE  snaps' = snaps
<1>1. ChoiceSound(t) /\ th[t].pc \in RestorePCs
  BY InsideRestore
<1>2. ~Gone(t)
  BY <1>1 DEF ChoiceSound, Gone
<1> QED
  BY <1>2 DEF Replace, Snapshot, Restage, Fill, Clear, Preserve, Swap, Undo, Rollback,
              RenameBack, Unstage, Verify, Discard, Reopen, Cleanup, At

\* The safety snapshot adds the user's database to those saved, or nothing happens.
LEMMA SnapshotSavesIt ==
  ASSUME TypeInv, OrderInv, Orderly, BelowQuota, NEW t \in Threads, Replace(t),
         th[t].pc = "snapshot"
  PROVE  /\ disk' = disk /\ Recoverable = atStart
         /\ \/ \E s \in SafetySnapshot : s.is = atStart /\ Snapshots' = Snapshots \cup {s}
            \/ snaps' = snaps /\ th'[t].pc = "return"
<1>1. Snapshot(t)
  BY DEF Replace, Restage, Fill, Clear, Preserve, Swap, Undo, Rollback, Unstage, Verify,
         Discard, Reopen, Cleanup, At
<1>2. /\ Placed(t) /\ Sound(atStart) /\ Recoverable = atStart
      /\ ScalarsOK /\ ThreadsOK /\ th \in [Threads -> Thread] /\ th[t].pc \in RestorePCs
  BY InsideRestore, FoundOrChosen
<1>3. disk["db"] = atStart /\ Opened = disk
  BY <1>2 DEF Placed, Sound, Opened, Exists
<1>4. disk' = disk
  BY <1>1, <1>3 DEF Snapshot, SnapshotTaken
<1>5. CASE SnapshotTaken(t)
  <2> DEFINE s == [id |-> th[t].id, is |-> Opened["db"]]
  <2>1. s \in SafetySnapshot /\ snaps' = Append(snaps, s)
    BY <1>5, SnapshotSaves DEF At
  <2>2. s.is = atStart
    BY <1>3
  <2> HIDE DEF s
  <2>3. Snapshots' = Snapshots \cup {s}
    BY <1>2, <2>1, GrowingList
  <2> QED
    BY <1>2, <1>4, <2>1, <2>2, <2>3
<1>6. CASE Return(t, FALSE) /\ UNCHANGED <<disk, snaps>>
  <2>1. th'[t].pc = "return"
    BY <1>2, <1>6, Kinds, ReturnThread DEF RestorePCs
  <2> QED
    BY <1>2, <1>6, <2>1
<1> QED
  BY <1>1, <1>5, <1>6 DEF Snapshot

\* While snapshots do not go away and the database found stays, it stays saved.
LEMMA StaysFound ==
  ASSUME FoundIsSaved, Orderly, Orderly', snaps' = snaps, atStart' = atStart,
         \A u \in Threads : th'[u].pc \in RestorePCs \ {"snapshot", "return"} =>
                              th[u].pc \in RestorePCs \ {"snapshot", "return"}
  PROVE  FoundIsSaved'
<1>1. ASSUME NEW u \in Threads, th'[u].pc \in RestorePCs \ {"snapshot", "return"}
      PROVE  \E s \in Snapshots : s.is = atStart
  BY <1>1 DEF FoundIsSaved
<1>2. Snapshots' = Snapshots
  BY DEF Snapshots
<1> QED
  BY <1>1, <1>2 DEF FoundIsSaved

\* Outside a restore nothing is saved and no other database taken for the one found.
LEMMA OutsideFound ==
  ASSUME TypeInv, OrderInv, FoundIsSaved, Orderly, Orderly', NEW t \in Threads,
         Recover(t) \/ Use(t) \/ Begin(t) \/ (Restore(t) /\ ~Replace(t))
  PROVE  FoundIsSaved'
<1> DEFINE Past == RestorePCs \ {"snapshot", "return"}
<1>1. /\ Past \cap {"idle", "check", "connect", "commit", "look", "lock", "snapshot"} = {}
      /\ Past \cap RecoveryPCs = {} /\ Idle.pc = "idle"
  BY ThreadParts DEF RestorePCs, RecoveryPCs
<1> HIDE DEF Past
<1>2. CASE Recover(t)
  <2>1. RecoverEffect(t)
    BY <1>2, Recovering, TypeParts
  <2>2. OthersStay(t) /\ th'[t].pc \notin Past /\ snaps' = snaps /\ atStart' = atStart
    BY <1>1, <2>1 DEF RecoverEffect, ghosts
  <2> QED
    BY <2>2, StaysFound DEF OthersStay, Past
<1>3. CASE Use(t)
  <2>1. FilesOK /\ ThreadsOK /\ (th[t].pc # "commit" => conn[t] = "none")
    BY TypeParts DEF Linked, At
  <2>2. CASE Check(t)
    <3>1. OthersStay(t) /\ th'[t].pc \notin Past /\ snaps' = snaps /\ atStart' = atStart
      BY <1>1, <1>3, <2>1, <2>2, CheckEffect DEF files, history, ghosts
    <3> QED
      BY <3>1, StaysFound DEF OthersStay, Past
  <2>3. CASE Connect(t)
    <3>1. th[t].pc = "connect" /\ snaps' = snaps /\ atStart' = atStart
      BY <2>3 DEF Connect, GiveUp, files, ghosts, At
    <3>2. OthersStay(t) /\ th'[t].pc \notin Past
      BY <1>1, <1>3, <2>1, <2>3, <3>1, ConnectEffect
    <3> QED
      BY <3>1, <3>2, StaysFound DEF OthersStay, Past
  <2>4. CASE Commit(t) \/ CommitFails(t)
    <3>1. OthersStay(t) /\ th'[t].pc \notin Past /\ snaps' = snaps /\ atStart' = atStart
      BY <1>1, <1>3, <2>4, CommitEffect
    <3> QED
      BY <3>1, StaysFound DEF OthersStay, Past
  <2> QED
    BY <1>3, <2>2, <2>3, <2>4 DEF Use
<1>4. CASE Begin(t)
  <2>1. OthersStay(t) /\ th'[t].pc \notin Past /\ snaps' = snaps /\ atStart' = atStart
    BY <1>1, <1>4, BeginTypes DEF files, ghosts
  <2> QED
    BY <2>1, StaysFound DEF OthersStay, Past
<1>5. CASE Restore(t) /\ Lock(t)
  <2>1. /\ OthersStay(t) /\ th[t].pc = "lock" /\ th'[t].pc \in {"idle", "snapshot"}
    BY <1>1, <1>5, LockTypes
  <2>2. \A u \in Threads \ {t} : th[u].pc = "idle"
    BY <2>1, Alone DEF Busy, At
  <2>3. \A u \in Threads : th'[u].pc \notin Past
    BY <1>1, <2>1, <2>2 DEF OthersStay
  <2> QED
    BY <2>3 DEF FoundIsSaved, Past
<1>6. CASE Restore(t) /\ ~Replace(t) /\ ~Lock(t)
  <2>1. Unlock(t) /\ UNCHANGED <<strain, begun, crashes>>
    BY <1>6 DEF Restore
  <2>2. OthersStay(t) /\ th'[t].pc \notin Past /\ snaps' = snaps /\ atStart' = atStart
    BY <1>1, <2>1, UnlockTypes DEF Unlock, files, ghosts
  <2> QED
    BY <2>2, StaysFound DEF OthersStay, Past
<1> QED
  BY <1>2, <1>3, <1>4, <1>5, <1>6

\* Every step keeps the database found in a snapshot, from the one that puts it there.
LEMMA NextFound ==
  TypeInv /\ OrderInv /\ BelowQuota /\ FoundIsSaved /\ [Next]_vars => FoundIsSaved'
<1> SUFFICES ASSUME TypeInv, OrderInv, BelowQuota, FoundIsSaved, [Next]_vars, Orderly'
             PROVE  FoundIsSaved'
  BY DEF FoundIsSaved
<1>1. Orderly
  BY StaysOrderly
<1>2. ASSUME NEW t \in Threads, Replace(t) PROVE FoundIsSaved'
  <2>1. OthersStay(t) /\ atStart' = atStart /\ th[t].pc \in RestorePCs \ {"return"}
    BY <1>1, <1>2, InsideRestore
  <2>2. CASE th[t].pc # "snapshot"
    BY <1>1, <1>2, <2>1, <2>2, ListStays, StaysFound DEF OthersStay
  <2>3. CASE th[t].pc = "snapshot" /\ snaps' = snaps
    <3>1. th'[t].pc = "return" \/ \E s \in Snapshots : s.is = atStart
      BY <1>1, <1>2, <2>3, SnapshotSavesIt DEF Snapshots
    <3>2. CASE th'[t].pc = "return"
      BY <1>1, <2>1, <2>3, <3>2, StaysFound DEF OthersStay
    <3>3. CASE \E s \in Snapshots : s.is = atStart
      BY <2>1, <2>3, <3>3 DEF FoundIsSaved, Snapshots
    <3> QED
      BY <3>1, <3>2, <3>3
  <2>4. CASE th[t].pc = "snapshot" /\ snaps' # snaps
    <3>1. \E s \in Snapshots' : s.is = atStart
      BY <1>1, <1>2, <2>4, SnapshotSavesIt
    <3> QED
      BY <2>1, <3>1 DEF FoundIsSaved
  <2> QED
    BY <2>2, <2>3, <2>4
<1>3. CASE Start \/ Crash
  <2>1. /\ snaps' = snaps /\ atStart' = atStart
        /\ \A u \in Threads : th'[u].pc \in {th[u].pc, "idle", "look"}
    BY <1>3, StartTypes, CrashTypes, ThreadParts DEF Start, Crash, files, history, ghosts, OthersStay
  <2> QED
    BY <1>1, <2>1, StaysFound DEF RestorePCs
<1>4. CASE UNCHANGED vars
  BY <1>1, <1>4, StaysFound DEF vars, files, history, ghosts
<1> QED
  BY <1>1, <1>2, <1>3, <1>4, OutsideFound DEF Next, Step

\* Opening and writing: only a commit changes the user's database, and it acknowledges what
\* it writes.
LEMMA UsePromise ==
  ASSUME TypeInv, OrderInv, Orderly, NEW t \in Threads, Use(t)
  PROVE  /\ Snapshots' = Snapshots
         /\ \/ Recoverable' = Recoverable /\ acked' = acked
            \/ Promise!Write(th[t].id) /\ th[t].id \in Writes
<1>1. Busy(t) /\ th[t].pc \in {"check", "connect", "commit"}
  BY DEF Use, Check, Connect, Commit, CommitFails, Busy, At
<1>2. /\ InOrder(t) /\ Kept /\ FilesOK /\ ThreadsOK /\ {"db", "bak", "stage"} = Places
      /\ th[t].pc # "commit" => conn[t] = "none"
  BY <1>1, Alone
<1>3. ~Exists("bak") /\ Recoverable = disk["db"] /\ Sound(disk["db"])
  BY <1>1, <1>2 DEF InOrder, BackupGone, Recoverable, Kept
<1>4. snaps' = snaps => Snapshots' = Snapshots
  BY DEF Snapshots
<1>5. CASE Check(t)
  <2>1. UNCHANGED <<files, history>>
    BY <1>2, <1>5, CheckEffect
  <2> QED
    BY <1>4, <2>1 DEF files, history, ghosts, Recoverable, Exists, Healthy
<1>6. CASE Connect(t)
  <2>1. th[t].pc = "connect" /\ snaps' = snaps /\ acked' = acked
    BY <1>6 DEF Connect, GiveUp, files, ghosts, At
  <2>2. disk' \in {disk, Opened, Migrated(Opened)}
    BY <1>2, <1>6, <2>1, ConnectEffect
  <2>3. Opened = disk /\ Migrated(disk) = disk
    BY <1>3 DEF Opened, Migrated, Sound, Exists
  <2>4. disk' = disk
    BY <2>2, <2>3
  <2> QED
    BY <1>4, <2>1, <2>4 DEF Recoverable, Exists, Healthy
<1>7. CASE Commit(t) \/ CommitFails(t)
  <2>1. /\ th[t].pc = "commit" /\ th[t].id \in Writes /\ snaps' = snaps
        /\ \A p \in Places : /\ disk'[p].state = disk[p].state
                             /\ disk'[p].base = disk[p].base
                             /\ disk'[p].writes = IF th[t].ok /\ conn[t] = p
                                  THEN disk[p].writes \cup {th[t].id} ELSE disk[p].writes
        /\ acked' = IF th[t].ok THEN acked \cup {th[t].id} ELSE acked
        /\ FilesOK'
    BY <1>7, CommitEffect
  <2>2. conn[t] = "db" /\ "db" \in Places /\ "bak" \in Places
    BY <1>2, <2>1 DEF InOrder, At
  <2>3. ~Exists("bak")' /\ Recoverable' = disk'["db"]
    BY <1>3, <2>1, <2>2 DEF Recoverable, Exists
  <2>4. disk["db"] \in Content /\ disk'["db"] \in Content
    BY <1>2, <2>1, <2>2 DEF FilesOK
  <2>5. CASE th[t].ok
    <3>1. disk'["db"] = [disk["db"] EXCEPT !.writes = disk["db"].writes \cup {th[t].id}]
      BY <2>1, <2>2, <2>4, <2>5 DEF Content
    <3> QED
      BY <1>3, <1>4, <2>1, <2>3, <2>5, <3>1 DEF Promise!Write
  <2>6. CASE ~th[t].ok
    <3>1. disk'["db"] = disk["db"]
      BY <2>1, <2>2, <2>4, <2>6 DEF Content
    <3> QED
      BY <1>3, <1>4, <2>1, <2>3, <2>6, <3>1
  <2> QED
    BY <2>5, <2>6
<1> QED
  BY <1>5, <1>6, <1>7 DEF Use

\* Inside a restore: the safety snapshot saves the user's database, and whatever the other
\* steps do to the files exchanges it, if at all, for the chosen one or the one found.
LEMMA ReplacePromise ==
  ASSUME TypeInv, OrderInv, FoundIsSaved, BelowQuota, Orderly, TypeInv', OrderInv', Orderly',
         NEW t \in Threads, Replace(t)
  PROVE  /\ acked' = acked
         /\ \/ Recoverable' = Recoverable /\ Snapshots' = Snapshots
            \/ Promise!Save \/ Promise!Exchange
<1>1. acked' = acked
  BY DEF Replace, ghosts
<1>2. /\ th[t].pc \in RestorePCs \ {"return"} /\ SameCommand(t) /\ atStart' = atStart
      /\ ChoiceSound(t)
  BY InsideRestore
<1>3. CASE th[t].pc = "snapshot"
  <2>1. Recoverable' = Recoverable /\ Recoverable = atStart
    BY <1>3, SnapshotSavesIt DEF Recoverable, Exists, Healthy
  <2>2. CASE snaps' = snaps
    BY <1>1, <2>1, <2>2 DEF Snapshots
  <2>3. CASE snaps' # snaps
    <3>1. PICK s \in SafetySnapshot : s.is = atStart /\ Snapshots' = Snapshots \cup {s}
      BY <1>3, <2>3, SnapshotSavesIt
    <3>2. {r.is : r \in Snapshots'} = {r.is : r \in Snapshots} \cup {Recoverable}
      BY <2>1, <3>1
    <3> QED
      BY <1>1, <2>1, <3>2 DEF Promise!Save
  <2> QED
    BY <1>1, <2>2, <2>3, <2>1
<1>4. CASE th[t].pc # "snapshot"
  <2>1. snaps' = snaps /\ Snapshots' = Snapshots
    BY <1>4, ListStays DEF Snapshots
  <2>2. th'[t].pc \in RestorePCs /\ th'[t].chosen = th[t].chosen
    BY <1>2, ReplaceTypes DEF ReplaceEffect, SameCommand
  <2>3. /\ Recoverable \in {atStart, th[t].chosen}
        /\ Recoverable' \in {atStart, th[t].chosen}
    <3>1. Recoverable \in {atStart, th[t].chosen}
      BY <1>2, FoundOrChosen
    <3>2. (th[t].pc \in RestorePCs => Recoverable \in {atStart, th[t].chosen})'
      BY FoundOrChosen, PTL
    <3> QED
      BY <1>2, <2>2, <3>1, <3>2
  <2>4. {atStart, th[t].chosen} \subseteq {s.is : s \in Snapshots} \cup {Backup}
    BY <1>2, <1>4 DEF FoundIsSaved, ChoiceSound
  <2>5. Promise!Exchange
    BY <1>1, <2>1, <2>3, <2>4 DEF Promise!Exchange
  <2> QED
    BY <1>1, <2>5
<1> QED
  BY <1>3, <1>4

\* Every step is one of the promise, or none.
LEMMA PromiseStep ==
  TypeInv /\ OrderInv /\ FoundIsSaved /\ BelowQuota /\ [Next]_vars /\ Orderly'
    => [Promise!Next]_(Promise!promiseVars)
<1> SUFFICES ASSUME TypeInv, OrderInv, FoundIsSaved, BelowQuota, [Next]_vars, Orderly'
             PROVE  [Promise!Next]_(Promise!promiseVars)
  OBVIOUS
<1>1. Orderly /\ TypeInv' /\ OrderInv'
  BY StaysOrderly, NextTypes, NextOrder
<1>2. Recoverable' = Recoverable /\ acked' = acked /\ Snapshots' = Snapshots
        => UNCHANGED Promise!promiseVars
  BY DEF Promise!promiseVars
<1>3. UNCHANGED <<disk, snaps, acked>>
        => Recoverable' = Recoverable /\ acked' = acked /\ Snapshots' = Snapshots
  BY DEF Recoverable, Snapshots, Exists, Healthy
<1>4. ASSUME NEW t \in Threads, Recover(t) PROVE UNCHANGED Promise!promiseVars
  <2>1. snaps' = snaps /\ acked' = acked
    BY <1>4, Recovering, TypeParts DEF RecoverEffect, ghosts
  <2> QED
    BY <1>1, <1>2, <1>4, <2>1, RecoverFits DEF Snapshots
<1>5. ASSUME NEW t \in Threads, Use(t) PROVE [Promise!Next]_(Promise!promiseVars)
  BY <1>1, <1>2, <1>5, UsePromise DEF Promise!Next
<1>6. ASSUME NEW t \in Threads, Replace(t) PROVE [Promise!Next]_(Promise!promiseVars)
  BY <1>1, <1>2, <1>6, ReplacePromise DEF Promise!Next
<1>7. ASSUME NEW t \in Threads, Restore(t), ~Replace(t) PROVE UNCHANGED Promise!promiseVars
  <2>1. CASE Lock(t)
    BY <1>2, <1>3, <1>7, <2>1, LockTypes DEF files
  <2>2. CASE Unlock(t)
    BY <1>2, <1>3, <2>2 DEF Unlock, files, ghosts
  <2> QED
    BY <1>7, <2>1, <2>2 DEF Restore
<1>8. CASE Start \/ Crash \/ UNCHANGED vars \/ \E t \in Threads : Begin(t)
  <2>1. Start \/ UNCHANGED vars => UNCHANGED <<files, history>>
    BY DEF Start, vars
  <2>2. Crash => UNCHANGED <<disk, snaps, acked>>
    BY DEF Crash
  <2>3. \A t \in Threads : Begin(t) => UNCHANGED <<files, ghosts>>
    BY BeginTypes
  <2>4. UNCHANGED <<disk, snaps, acked>>
    BY <1>8, <2>1, <2>2, <2>3 DEF files, history, ghosts
  <2> QED
    BY <1>2, <1>3, <2>4
<1> QED
  BY <1>4, <1>5, <1>6, <1>7, <1>8 DEF Next, Step, Restore

\* Restores, recoveries, crashes and writes, one file operation at a time, are to the user
\* what DatabasePromise says: one database, written to, saved, and exchanged as a whole and
\* never unsaved.  It holds as long as commands run one after another, rollbacks do
\* not fail and the retention has deleted no safety snapshot.
THEOREM RestorePromiseKept == Spec /\ []Orderly /\ []BelowQuota => Promise!Spec
<1>1. Init => Promise!Init /\ FoundIsSaved
  <2> SUFFICES ASSUME Init PROVE Promise!Init /\ FoundIsSaved
    OBVIOUS
  <2>1. /\ disk["db"] = Installed /\ disk["bak"] = Missing /\ Snapshots = {} /\ acked = {}
        /\ \A t \in Threads : th[t].pc = "idle"
    BY ThreadParts DEF Init, Places, Snapshots
  <2>2. Recoverable = Installed
    BY <2>1, Contents, OneDatabase DEF Exists
  <2>3. {s.is : s \in Snapshots} = {}
    BY <2>1
  <2> QED
    BY <2>1, <2>2, <2>3 DEF Promise!Init, FoundIsSaved, RestorePCs
<1> QED
  BY <1>1, InitTypes, NextTypes, InitOrder, NextOrder, NextFound, PromiseStep, PTL
     DEF Spec, Promise!Spec

-----------------------------------------------------------------------------
(* Nothing is pruned while fewer commands run than snapshots are kept. *)

\* Every safety snapshot is of a command of its own, and so there are at most as
\* many as commands; a revert's source, which nothing deleted, is one of them.
Numbered ==
  /\ BelowQuota
  /\ \A i, j \in DOMAIN snaps : snaps[i].id = snaps[j].id => i = j
  /\ \A s \in Snapshots : s.id <= begun
  /\ \A t \in Threads : th[t].task \in CommandKinds => th[t].id <= begun
  /\ \A t, u \in Threads : th[t].task \in CommandKinds /\ th[u].task \in CommandKinds
                           /\ th[t].id = th[u].id => t = u
  /\ \A t \in Threads : /\ th[t].pc \in {"lock", "snapshot"} =>
                             \A s \in Snapshots : s.id # th[t].id
                        /\ th[t].pc \in {"lock"} \cup RestorePCs => ~Gone(t)

\* As many numbers, as many commands.
LEMMA FewSnapshots ==
  ASSUME NEW list \in Seq(SafetySnapshot), MaxCommands < Quota,
         \A i, j \in DOMAIN list : list[i].id = list[j].id => i = j
  PROVE  Len(list) < Quota
<1> DEFINE S == 1..Len(list)
           f == [i \in S |-> list[i].id]
<1>1. /\ Len(list) \in Nat /\ MaxCommands \in Nat /\ Quota \in Nat
      /\ DOMAIN list = S /\ \A i \in S : list[i] \in SafetySnapshot
  BY ConstantsOK
<1>2. f \in [S -> Writes]
  BY <1>1 DEF SafetySnapshot
<1>3. IsFiniteSet(S) /\ Cardinality(S) = Len(list)
  BY <1>1, FS_Interval
<1>4. IsFiniteSet(Writes) /\ Cardinality(Writes) = MaxCommands
  <2>1. 1 \in Int /\ MaxCommands \in Int /\ (1 > MaxCommands => MaxCommands = 0)
        /\ MaxCommands - 1 + 1 = MaxCommands
    BY <1>1
  <2>2. /\ IsFiniteSet(1..MaxCommands)
        /\ Cardinality(1..MaxCommands) = IF 1 > MaxCommands THEN 0 ELSE MaxCommands - 1 + 1
    BY ONLY <2>1, FS_Interval
  <2> QED
    BY <2>1, <2>2 DEF Writes
<1>5. \A i, j \in S : f[i] = f[j] => i = j
  BY <1>1
<1> HIDE DEF f, S
<1>6. ~(Cardinality(Writes) < Cardinality(S))
  BY <1>2, <1>3, <1>4, <1>5, FS_PigeonHole
<1> QED
  BY <1>1, <1>3, <1>4, <1>6

\* The snapshots and the commands under way, as they are.
LEMMA SameNumbers ==
  ASSUME TypeInv, Numbered, NEW t \in Threads, OthersStay(t), snaps' = snaps, begun' = begun,
         \/ th'[t] = Idle
         \/ SameCommand(t) /\ th'[t].pc # "lock"
            /\ (th'[t].pc = "snapshot" => th[t].pc \in {"lock", "snapshot"})
            /\ (th'[t].pc \in RestorePCs => th[t].pc \in {"lock"} \cup RestorePCs)
  PROVE  Numbered'
<1>1. Snapshots' = Snapshots /\ BelowQuota'
  BY DEF Numbered, Snapshots, BelowQuota
<1>2. Idle.task \notin CommandKinds /\ Idle.pc \notin {"lock"} \cup RestorePCs
  BY ThreadParts DEF CommandKinds, RestorePCs
<1>3. \A u \in Threads : th'[u].task \in CommandKinds =>
        th[u].task \in CommandKinds /\ th'[u].id = th[u].id
  BY <1>2 DEF OthersStay, SameCommand
<1>4. \A u \in Threads : th'[u].pc \in {"lock", "snapshot"} =>
        th[u].pc \in {"lock", "snapshot"} /\ th'[u].id = th[u].id
  BY <1>2 DEF OthersStay, SameCommand, RestorePCs
<1>5. \A u \in Threads : th'[u].pc \in {"lock"} \cup RestorePCs =>
        th[u].pc \in {"lock"} \cup RestorePCs /\ th'[u].from = th[u].from
  BY <1>2 DEF OthersStay, SameCommand, RestorePCs
<1> QED
  BY <1>1, <1>3, <1>4, <1>5 DEF Numbered, Gone

\* A step inside a restore: a snapshot gets the number of its command.
LEMMA ReplaceNumbers ==
  ASSUME TypeInv, Numbered, MaxCommands < Quota, NEW t \in Threads, Replace(t)
  PROVE  Numbered'
<1>1. /\ ReplaceEffect(t) /\ th[t].pc \in RestorePCs /\ begun' = begun
      /\ ScalarsOK /\ ThreadsOK /\ th \in [Threads -> Thread]
      /\ th[t].task \in CommandKinds
  BY ReplaceTypes, TypeParts, Kinds DEF Replace, ThreadsOK
<1>2. ~Gone(t)
  BY <1>1 DEF Numbered
<1>3. th'[t].pc \notin {"lock", "snapshot"}
  BY <1>1 DEF Replace, Snapshot, Restage, Fill, Verify, Reopen, Clear, Preserve, Swap, Undo,
         Rollback, Unstage, Discard, Cleanup, RenameBack, Goto, Return, Thread
<1>4. CASE snaps' = snaps
  BY <1>1, <1>3, <1>4, SameNumbers DEF ReplaceEffect
<1>5. CASE SnapshotTaken(t) /\ At(t, "snapshot")
  <2> DEFINE s == [id |-> th[t].id, is |-> Opened["db"]]
  <2>1. s \in SafetySnapshot /\ snaps' = Append(snaps, s) /\ s.id = th[t].id
    BY <1>5, SnapshotSaves DEF Numbered
  <2> HIDE DEF s
  <2>2. Snapshots' = Snapshots \cup {s}
    BY <1>1, <2>1, GrowingList
  <2>3. \A r \in Snapshots : r.id # th[t].id
    BY <1>5 DEF Numbered, At
  <2>4. /\ snaps' \in Seq(SafetySnapshot) /\ Len(snaps) \in Nat
        /\ DOMAIN snaps = 1..Len(snaps) /\ DOMAIN snaps' = 1..(Len(snaps) + 1)
        /\ snaps'[Len(snaps) + 1] = s /\ \A i \in 1..Len(snaps) : snaps'[i] = snaps[i]
    BY <1>1, <2>1 DEF ScalarsOK, ReplaceEffect
  <2>5. \A i \in DOMAIN snaps : snaps[i] \in Snapshots
    BY DEF Snapshots
  <2>6. ASSUME NEW i \in DOMAIN snaps', NEW j \in DOMAIN snaps', snaps'[i].id = snaps'[j].id
        PROVE  i = j
    <3>1. \A k \in DOMAIN snaps' : k \in DOMAIN snaps \/ k = Len(snaps) + 1
      BY <2>4
    <3> QED
      BY <2>1, <2>3, <2>4, <2>5, <2>6, <3>1 DEF Numbered
  <2>7. BelowQuota'
    BY <2>4, <2>6, FewSnapshots DEF BelowQuota
  <2>8. \A u \in Threads : /\ th'[u].task = th[u].task /\ th'[u].id = th[u].id
                           /\ th'[u].from = th[u].from
    BY <1>1 DEF ReplaceEffect, OthersStay, SameCommand
  <2>9. \A r \in Snapshots' : r.id <= begun'
    BY <1>1, <2>1, <2>2 DEF Numbered
  <2>10. ASSUME NEW u \in Threads
         PROVE  /\ th'[u].pc \in {"lock", "snapshot"} => \A r \in Snapshots' : r.id # th'[u].id
                /\ th'[u].pc \in {"lock"} \cup RestorePCs => ~Gone(u)'
    <3>1. CASE u = t
      BY <1>2, <1>3, <2>2, <2>8, <3>1 DEF Gone
    <3>2. CASE u # t
      <4>1. th'[u] = th[u]
        BY <1>1, <3>2 DEF ReplaceEffect, OthersStay
      <4>2. th[u].pc \in {"lock", "snapshot"} => th[u].task \in CommandKinds
        BY <1>1, Kinds DEF RestorePCs
      <4>3. th[u].pc \in {"lock", "snapshot"} => th[u].id # th[t].id
        BY <1>1, <3>2, <4>2 DEF Numbered
      <4>4. th[u].pc \in {"lock"} \cup RestorePCs => ~Gone(u)
        BY DEF Numbered
      <4> QED
        BY <2>1, <2>2, <4>1, <4>3, <4>4 DEF Numbered, Gone
    <3> QED
      BY <3>1, <3>2
  <2> QED
    BY <1>1, <2>6, <2>7, <2>8, <2>9, <2>10 DEF Numbered
<1> QED
  BY <1>2, <1>4, <1>5 DEF Replace, Snapshot, Restage, Fill, Verify, Reopen, Clear, Preserve,
     Swap, Undo, Rollback, Unstage, Discard, Cleanup, RenameBack, At

\* A program that is not up runs no command.
LEMMA NoCommands ==
  TypeInv /\ app # "up" => \A u \in Threads : th[u].task \notin CommandKinds
<1> SUFFICES ASSUME TypeInv, app # "up", NEW u \in Threads PROVE th[u].task \notin CommandKinds
  OBVIOUS
<1> QED
  BY TypeParts, Kinds DEF SetupAlone, CommandKinds, ScalarsOK

\* Every other step.
LEMMA NextNumbers ==
  TypeInv /\ Numbered /\ MaxCommands < Quota /\ [Next]_vars => Numbered'
<1> SUFFICES ASSUME TypeInv, Numbered, MaxCommands < Quota, [Next]_vars PROVE Numbered'
  OBVIOUS
<1>1. Idle.pc = "idle" /\ Idle.task = "none"
  BY ThreadParts
<1>2. ASSUME NEW t \in Threads, Recover(t) PROVE Numbered'
  <2>1. RecoverEffect(t) /\ th[t].pc \in RecoveryPCs
    BY <1>2, Recovering, TypeParts
  <2>2. th'[t] = Idle \/ th'[t].pc \notin {"lock"} \cup RestorePCs
    BY <2>1 DEF RecoverEffect, RecoveryPCs, RestorePCs
  <2> QED
    BY <2>1, <2>2, SameNumbers DEF RecoverEffect, RestorePCs
<1>3. ASSUME NEW t \in Threads, Use(t) PROVE Numbered'
  <2>1. /\ OthersStay(t) /\ snaps' = snaps /\ begun' = begun
        /\ th'[t] = Idle \/ (SameCommand(t) /\ th'[t].pc \in {"connect", "commit"})
    <3>1. CASE Check(t)
      BY <1>3, <3>1, CheckEffect, TypeParts DEF files
    <3>2. CASE Connect(t)
      <4>1. conn[t] = "none"
        BY <3>2, TypeParts DEF Connect, Linked, At
      <4> QED
        BY <1>3, <3>2, <4>1, ConnectEffect, TypeParts
    <3>3. CASE Commit(t) \/ CommitFails(t)
      BY <1>3, <3>3, CommitEffect
    <3> QED
      BY <1>3, <3>1, <3>2, <3>3 DEF Use
  <2> QED
    BY <2>1, SameNumbers DEF RestorePCs
<1>4. ASSUME NEW t \in Threads, Restore(t) PROVE Numbered'
  <2>1. CASE Lock(t)
    BY <1>4, <2>1, LockTypes, SameNumbers DEF files
  <2>2. CASE Unlock(t) /\ UNCHANGED <<strain, begun, crashes>>
    BY <2>2, UnlockTypes, SameNumbers DEF Unlock, files
  <2> QED
    BY <1>4, <2>1, <2>2, ReplaceNumbers DEF Restore
<1>5. ASSUME NEW t \in Threads, Begin(t) PROVE Numbered'
  <2>1. /\ OthersStay(t) /\ th'[t].id = begun + 1 /\ begun' = begun + 1
        /\ th'[t].pc \in {"look", "check", "lock"}
        /\ th'[t].pc = "lock" => \/ th'[t].from = 0
                                 \/ \E s \in Snapshots : th'[t].from = s.id
        /\ snaps' = snaps
    BY <1>5, BeginTypes DEF files
  <2>2. /\ begun \in Nat /\ \A s \in Snapshots : s.id \in Nat /\ s.id <= begun
        /\ \A u \in Threads : /\ th[u].id \in Nat
                              /\ th[u].task \in CommandKinds => th[u].id <= begun
    <3>1. begun \in Nat /\ Snapshots \subseteq SafetySnapshot
      BY TypeParts, ConstantsOK, Sources DEF ScalarsOK
    <3>2. \A u \in Threads : th[u].id \in Nat
      BY TypeParts, ThreadParts, ConstantsOK DEF ThreadsOK, Writes
    <3> QED
      BY <3>1, <3>2, ConstantsOK DEF SafetySnapshot, Numbered, Writes
  <2>3. BelowQuota' /\ Snapshots' = Snapshots
    BY <2>1 DEF Numbered, BelowQuota, Snapshots
  <2>4. \A s \in Snapshots : s.id <= begun' /\ s.id # begun'
    BY <2>1, <2>2
  <2>5. /\ \A u \in Threads : th'[u].task \in CommandKinds => th'[u].id <= begun'
        /\ \A u \in Threads \ {t} : th[u].task \in CommandKinds => th[u].id # begun'
    BY <2>1, <2>2 DEF OthersStay
  <2>6. \A u, v \in Threads : th'[u].task \in CommandKinds /\ th'[v].task \in CommandKinds
                              /\ th'[u].id = th'[v].id => u = v
    BY <2>1, <2>5 DEF Numbered, OthersStay
  <2>7. th'[t].pc \in {"lock"} \cup RestorePCs => ~Gone(t)'
    BY <2>1, <2>3 DEF Gone, RestorePCs
  <2>8. \A u \in Threads : th'[u].pc \in {"lock"} \cup RestorePCs => ~Gone(u)'
    BY <2>1, <2>3, <2>7 DEF Numbered, Gone, OthersStay
  <2>9. \A u \in Threads : th'[u].pc \in {"lock", "snapshot"} =>
          \A s \in Snapshots' : s.id # th'[u].id
    BY <2>1, <2>3, <2>4 DEF Numbered, OthersStay
  <2>10. \A i, j \in DOMAIN snaps' : snaps'[i].id = snaps'[j].id => i = j
    BY <2>1 DEF Numbered
  <2> QED
    BY <2>3, <2>4, <2>5, <2>6, <2>8, <2>9, <2>10 DEF Numbered
<1>6. CASE Start \/ Crash
  <2>1. /\ UNCHANGED <<snaps, begun>>
        /\ \A u \in Threads : th'[u].task \notin CommandKinds
                              /\ th'[u].pc \notin {"lock"} \cup RestorePCs
    <3>1. TypeInv' /\ \A u \in Threads : th'[u].pc \in {"idle", "look"}
      BY <1>1, <1>6, StartTypes, CrashTypes DEF OthersStay, Busy, At
    <3>2. UNCHANGED <<snaps, begun>> /\ app' # "up"
      BY <1>6 DEF Start, Crash, files
    <3>3. (TypeInv /\ app # "up" => \A u \in Threads : th[u].task \notin CommandKinds)'
      BY NoCommands, PTL
    <3> QED
      BY <3>1, <3>2, <3>3 DEF RestorePCs
  <2>2. Snapshots' = Snapshots /\ BelowQuota'
    BY <2>1 DEF Numbered, Snapshots, BelowQuota
  <2>3. \A i, j \in DOMAIN snaps' : snaps'[i].id = snaps'[j].id => i = j
    BY <2>1 DEF Numbered
  <2>4. \A s \in Snapshots' : s.id <= begun'
    BY <2>1, <2>2 DEF Numbered
  <2>5. \A u \in Threads : th'[u].task \notin CommandKinds
                           /\ th'[u].pc \notin {"lock", "snapshot"} \cup RestorePCs
    BY <2>1 DEF RestorePCs
  <2> QED
    BY <2>2, <2>3, <2>4, <2>5 DEF Numbered
<1>7. CASE UNCHANGED vars
  <2>1. snaps' = snaps /\ th' = th /\ begun' = begun
    BY <1>7 DEF vars, files
  <2>2. Snapshots' = Snapshots /\ BelowQuota' /\ \A u \in Threads : Gone(u)' <=> Gone(u)
    BY <2>1 DEF Numbered, Snapshots, BelowQuota, Gone
  <2>3. \A i, j \in DOMAIN snaps' : snaps'[i].id = snaps'[j].id => i = j
    BY <2>1 DEF Numbered
  <2> QED
    BY <2>1, <2>2, <2>3 DEF Numbered
<1> QED
  BY <1>2, <1>3, <1>4, <1>5, <1>6, <1>7 DEF Next, Step

\* While fewer commands run than safety snapshots are kept, none is deleted: the
\* hypothesis of the theorems above holds by the bounds alone.
THEOREM NothingPruned == MaxCommands < Quota => (Spec => []BelowQuota)
<1> SUFFICES ASSUME MaxCommands < Quota PROVE Spec => []BelowQuota
  OBVIOUS
<1>1. Init => Numbered
  <2> SUFFICES ASSUME Init PROVE Numbered
    OBVIOUS
  <2>1. /\ snaps = <<>> /\ Snapshots = {} /\ \A t \in Threads : th[t] = Idle
        /\ Idle.pc = "idle" /\ Idle.task = "none" /\ Quota \in Nat \ {0}
    BY ThreadParts, ConstantsOK DEF Init, Snapshots
  <2> QED
    BY <2>1 DEF Numbered, BelowQuota, RestorePCs, CommandKinds
<1>2. TypeInv /\ Numbered /\ [Next]_vars => Numbered'
  BY NextNumbers
<1>3. Numbered => BelowQuota
  BY DEF Numbered
<1> QED
  BY <1>1, <1>2, <1>3, InitTypes, NextTypes, PTL DEF Spec
=============================================================================
