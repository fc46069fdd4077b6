------------------------------ MODULE DatabaseHome ------------------------------
(***************************************************************************)
(* Where the database is, and which of its files a command works on: the   *)
(* start of the program with its upgrade, the cached path and the pool of  *)
(* connections, the move to another folder, the reset of all data and the  *)
(* audit journals beside the databases.                                    *)
(*                                                                         *)
(* A database may be in the local folder or in a shared one, which may be   *)
(* unreachable.  A thread th[t] performs one access to shared state per     *)
(* step; the start runs alone, before any thread.                           *)
(***************************************************************************)
EXTENDS SchemaUpgrade, FiniteSets

CONSTANTS
  Threads,       \* command threads running at the same time
  Commands,      \* which kinds of command the run lets start
  Faults,        \* which failures the run lets happen
  MaxMishaps,    \* bound: crashes, failures of a start and lost shares
  MaxEvents      \* bound: mishaps and commands started

CommandKinds == {"write", "move", "reset"}
\* "setting": db_settings.json cannot be written.  "copy": the copy to the new
\* folder fails.  "snapshot": a safety snapshot fails.
FaultKinds == {"setting", "copy", "snapshot"}

ASSUME HomeConstantsOK ==
  /\ Commands \subseteq CommandKinds
  /\ Faults \subseteq FaultKinds
  /\ MaxMishaps \in Nat /\ MaxEvents \in Nat

Homes == {"local", "shared"}
PoolSize == 4

VARIABLES
  db,         \* the database in each home
  export,     \* homes with a leftover of an unfinished encryption
  setting,    \* db_settings.json: the home it names; "torn" while it is unreadable
  reach,      \* the homes that can be reached
  gen,        \* POOL_GENERATION
  cache,      \* CACHED_DB_PATH: a generation and a home
  pool,       \* IDLE_CONNECTIONS: generation, home and whether keys are enforced
  restoring,  \* RESTORE_IN_PROGRESS
  app,        \* "down", the step of the start, or "up"
  todo,       \* the upgrade steps still to do
  enforced,   \* the starting connection's foreign_keys
  ready,      \* DB_READY holds Ok
  trail,      \* the audit journal in each home
  th,         \* what each thread is doing
  snaps,      \* history: the databases that safety snapshots hold
  acked,      \* history: the writes whose COMMIT returned
  done,       \* history: the moves and resets recorded, with the journals they used
  strain,     \* history: what has happened beyond one command after another
  begun, mishaps

stores == <<db, export, setting, snaps>>
links == <<gen, cache, pool>>
starting == <<app, todo, enforced, ready>>
history == <<acked, done>>
bounds == <<begun, mishaps>>
vars == <<stores, reach, links, restoring, starting, trail, th, history, strain, bounds>>

None == [gen |-> 0, home |-> "none"]
NoTrail == [file |-> FALSE, broken |-> FALSE, events |-> {}]
Idle == [pc |-> "idle", task |-> "none", id |-> 0, then |-> "none", gen |-> 0, seen |-> 0,
         home |-> "none", conn |-> "none", fresh |-> FALSE, to |-> "none",
         mode |-> "none", left |-> <<>>, entries |-> 0]

At(t, pc)   == th[t].pc = pc
Goto(t, pc) == th' = [th EXCEPT ![t].pc = pc]
Done(t)     == th' = [th EXCEPT ![t] = Idle]

\* get_db_custom_path: an unreadable setting counts as none, an unreachable folder
\* falls back to the default one.
Named    == IF setting = "shared" THEN "shared" ELSE "local"
Resolved == IF Named \in reach THEN Named ELSE "local"

\* Connection::open creates a missing file.
Opened(h) == IF db[h].file THEN db ELSE [db EXCEPT ![h] = Blank]
Openable(h) == h \in reach /\ db[h].sealed

\* invalidate_db_cache.  Its three accesses are one step: what another thread adds
\* between them is either of an old generation or dropped by the next of them.
Invalidate == gen' = gen + 1 /\ pool' = <<>> /\ cache' = None

Mishap == mishaps < MaxMishaps /\ begun + mishaps < MaxEvents

Holds(d) == d.main \cup d.wal

\* reset_all_data empties the tables, and makes the search index and its triggers anew.
Emptied(d) == [d EXCEPT !.main = {}, !.wal = {}, !.index = "full", !.triggers = TRUE]

\* A journal whose last block was cut short, which no later start can read past.
Torn(j) == [j EXCEPT !.file = TRUE, !.broken = TRUE]

\* A block made after so many entries continues the chain.
Continues(j, entries) == Cardinality(j.events) = entries

-----------------------------------------------------------------------------
(* The environment. *)

Init ==
  /\ \E s \in Sources : db = [h \in Homes |-> IF h = "local" THEN s[1] ELSE s[2]]
  /\ export = {} /\ setting = "local" /\ reach = Homes
  /\ gen = 1 /\ cache = None /\ pool = <<>> /\ restoring = FALSE
  /\ app = "down" /\ todo = <<>> /\ enforced = FALSE /\ ready = FALSE
  /\ trail = [h \in Homes |-> NoTrail]
  /\ th = [t \in Threads |-> Idle]
  /\ snaps = {} /\ acked = {} /\ done = {} /\ strain = {}
  /\ begun = 0 /\ mishaps = 0

\* The home that the start has resolved.
Home == cache.home

\* The search index has been made anew, and is still to be filled.
HalfIndexed == app = "upgrade" /\ db[Home].index = "empty"
               /\ \E i \in DOMAIN todo : todo[i] = "fillIndex"

\* A crash in the middle of an append leaves a journal that never verifies again.
Crash ==
  /\ app # "down" /\ Mishap
  /\ app' = "down" /\ todo' = <<>> /\ enforced' = FALSE /\ ready' = FALSE
  /\ gen' = 1 /\ cache' = None /\ pool' = <<>> /\ restoring' = FALSE
  /\ trail' \in {trail} \cup {[trail EXCEPT ![Head(th[t].left)] = Torn(@)] :
                                t \in {u \in Threads : At(u, "append")}}
  /\ th' = [t \in Threads |-> Idle]
  /\ strain' = strain \cup {s \in {"unfilled"} : HalfIndexed}
  /\ mishaps' = mishaps + 1
  /\ UNCHANGED <<stores, reach, history, begun>>

\* The program is closed and started again, as the user does after a failed start.
Quit ==
  /\ app = "up" /\ ~ready
  /\ app' = "down"
  /\ UNCHANGED <<stores, reach, links, restoring, todo, enforced, ready, trail, th, history,
                 strain, bounds>>

Unplug ==
  /\ "shared" \in reach /\ Mishap
  /\ reach' = {"local"} /\ strain' = strain \cup {"unplugged"} /\ mishaps' = mishaps + 1
  /\ UNCHANGED <<stores, links, restoring, starting, trail, th, history, begun>>

Plug ==
  /\ "shared" \notin reach
  /\ reach' = Homes
  /\ UNCHANGED <<stores, links, restoring, starting, trail, th, history, strain, bounds>>

-----------------------------------------------------------------------------
(* ensure_database_ready, in setup(). *)

Resolve ==
  /\ app = "down"
  /\ cache' = [gen |-> gen, home |-> Resolved]
  /\ app' = IF db[Resolved].file /\ ~db[Resolved].sealed THEN "export" ELSE "open"
  /\ UNCHANGED <<stores, reach, gen, pool, todo, enforced, ready>>

\* The start gives up; the program is up without a database.
StartFails == app' = "up" /\ UNCHANGED <<stores, reach, links, todo, enforced, ready>>

\* migrate_to_encrypted exports into a second file, which must not be there yet...
Export ==
  /\ app = "export"
  /\ \/ Home \in export /\ StartFails
     \/ /\ Home \notin export
        /\ export' = export \cup {Home} /\ app' = "replace"
        /\ UNCHANGED <<db, setting, snaps, reach, links, todo, enforced, ready>>

\* ...and renames it over the first.
ReplacePlain ==
  /\ app = "replace"
  /\ db' = [db EXCEPT ![Home].sealed = TRUE] /\ export' = export \ {Home} /\ app' = "open"
  /\ UNCHANGED <<setting, snaps, reach, links, todo, enforced, ready>>

\* A database of an older release is not touched without a safety snapshot.
Open ==
  /\ app = "open"
  /\ \/ /\ Openable(Home)
        /\ db' = Opened(Home) /\ todo' = UpgradeSteps(db'[Home]) /\ enforced' = TRUE
        /\ snaps' = snaps \cup {db'[h] : h \in {g \in {Home} :
                                  /\ db'[g].version < SCHEMA_USER_VERSION
                                  /\ "tables" \in db'[g].has}}
        /\ app' = "upgrade"
        /\ UNCHANGED <<export, setting, reach, links, ready>>
     \/ ~Openable(Home) /\ StartFails

\* The snapshot before the upgrade fails.
OpenFails ==
  /\ app = "open" /\ "snapshot" \in Faults /\ Mishap
  /\ db[Home].version < SCHEMA_USER_VERSION /\ "tables" \in db[Home].has
  /\ StartFails

Upgrade ==
  /\ app = "upgrade" /\ todo # <<>>
  /\ db' = [db EXCEPT ![Home] = After(Head(todo), @)]
  /\ todo' = (IF Head(todo) = "index" THEN IndexSteps(db[Home]) ELSE <<>>) \o Tail(todo)
  /\ enforced' = CASE Head(todo) = "relax"   -> FALSE
                   [] Head(todo) = "enforce" -> TRUE
                   [] OTHER                  -> enforced
  /\ UNCHANGED <<export, setting, snaps, reach, links, app, ready>>

\* The upgraded connection is the first of the pool.
Serve ==
  /\ app = "upgrade" /\ todo = <<>>
  /\ pool' = Append(pool, [gen |-> gen, home |-> Home, keys |-> enforced])
  /\ ready' = TRUE /\ app' = "up"
  /\ UNCHANGED <<stores, reach, gen, cache, todo, enforced>>

Boot == /\ \/ (Resolve \/ Export \/ ReplacePlain \/ Open \/ Upgrade \/ Serve) /\ UNCHANGED mishaps
           \/ OpenFails /\ mishaps' = mishaps + 1
        /\ UNCHANGED <<restoring, trail, th, history, strain, begun>>

-----------------------------------------------------------------------------
(* Commands begin.  A move resolves the path before it takes the lock. *)

Begin(t) ==
  /\ app = "up" /\ ready /\ At(t, "idle") /\ begun + mishaps < MaxEvents
  /\ LET new == [Idle EXCEPT !.id = begun + 1, !.fresh = ~restoring]
     IN \/ /\ "write" \in Commands
           /\ th' = [th EXCEPT ![t] = [new EXCEPT !.task = "write", !.pc = "check"]]
        \/ /\ "reset" \in Commands
           /\ th' = [th EXCEPT ![t] = [new EXCEPT !.task = "reset", !.pc = "resolve",
                                                  !.then = "snapshot"]]
        \/ /\ "move" \in Commands
           /\ \E h \in Homes :
                th' = [th EXCEPT ![t] = [new EXCEPT !.task = "move", !.pc = "resolve",
                                                    !.then = "lock", !.to = h]]
  /\ begun' = begun + 1
  /\ strain' = strain \cup {s \in {"overlap"} : \E u \in Threads : ~At(u, "idle")}
  /\ UNCHANGED <<stores, reach, links, restoring, starting, trail, history, mishaps>>

-----------------------------------------------------------------------------
(* resolve_database_path. *)

ReadCache(t) ==
  /\ At(t, "resolve")
  /\ th' = [th EXCEPT ![t] = IF cache.gen = gen
                             THEN [@ EXCEPT !.home = cache.home, !.pc = th[t].then,
                                            !.then = "none"]
                             ELSE [@ EXCEPT !.seen = gen, !.pc = "named"]]
  /\ UNCHANGED cache

ReadSetting(t) ==
  /\ At(t, "named")
  /\ th' = [th EXCEPT ![t].home = Resolved, ![t].pc = "store"]
  /\ UNCHANGED cache

Looked(t) == th' = [th EXCEPT ![t].seen = 0, ![t].pc = th[t].then, ![t].then = "none"]

\* Mutant: the path is cached under the generation of the moment.
StoreUnderPresent(t) ==
  /\ At(t, "store")
  /\ cache' = [gen |-> gen, home |-> th[t].home]
  /\ Looked(t)

StorePath(t) ==
  /\ At(t, "store")
  /\ cache' = [gen |-> th[t].seen, home |-> th[t].home]
  /\ Looked(t)

Lookup(t) == /\ ReadCache(t) \/ ReadSetting(t) \/ StorePath(t)
             /\ UNCHANGED <<stores, gen, pool, restoring, trail, history>>

-----------------------------------------------------------------------------
(* open_runtime_connection and what writes and resets do with it. *)

Check(t) ==
  /\ At(t, "check")
  /\ IF restoring THEN Done(t) ELSE Goto(t, "generation")
  /\ UNCHANGED <<stores, links, history>>

ReadGeneration(t) ==
  /\ At(t, "generation")
  /\ th' = [th EXCEPT ![t].gen = gen, ![t].pc = "pop"]
  /\ UNCHANGED <<stores, links, history>>

\* The newest idle connection of this generation; others met on the way are dropped.
Pop(t) ==
  /\ At(t, "pop")
  /\ LET fit == {i \in DOMAIN pool : pool[i].gen = th[t].gen}
         last == CHOOSE i \in fit : \A j \in fit : j <= i
     IN \/ /\ fit # {}
           /\ pool' = SubSeq(pool, 1, last - 1)
           /\ th' = [th EXCEPT ![t].conn = pool[last].home, ![t].pc = "commit"]
        \/ /\ fit = {}
           /\ pool' = <<>>
           /\ th' = [th EXCEPT ![t].pc = "resolve", ![t].then = "connect"]
  /\ UNCHANGED <<stores, gen, cache, history>>

Connect(t) ==
  /\ At(t, "connect")
  /\ \/ /\ Openable(th[t].home)
        /\ db' = Opened(th[t].home)
        /\ th' = [th EXCEPT ![t].conn = th[t].home, ![t].home = "none",
                             ![t].pc = "commit"]
     \/ ~Openable(th[t].home) /\ Done(t) /\ UNCHANGED db
  /\ UNCHANGED <<export, setting, snaps, links, history>>

\* The transaction commits, into the log or, past a checkpoint, the main file.
Commit(t) ==
  /\ At(t, "commit")
  /\ LET h == th[t].conn
         works == h \in reach /\ "tables" \in db[h].has
     IN \/ /\ works /\ th[t].task = "write"
           /\ db' \in {[db EXCEPT ![h].main = Holds(db[h]) \cup {th[t].id}, ![h].wal = {}],
                       [db EXCEPT ![h].wal = @ \cup {th[t].id}]}
           /\ acked' = acked \cup {th[t].id} /\ Goto(t, "compare")
        \/ /\ works /\ th[t].task = "reset"
           /\ db' = [db EXCEPT ![h] = Emptied(@)]
           /\ UNCHANGED acked
           /\ th' = [th EXCEPT ![t].pc = "resolve", ![t].then = "journal"]
        \/ ~works /\ Goto(t, "compare") /\ UNCHANGED <<db, acked>>
  /\ UNCHANGED <<export, setting, snaps, links, done>>

\* Drop compares generations...
Compare(t) ==
  /\ At(t, "compare")
  /\ IF th[t].gen = gen THEN Goto(t, "push") ELSE Done(t)
  /\ UNCHANGED <<stores, links, history>>

\* ...and then returns the connection to a pool that is not full.
Push(t) ==
  /\ At(t, "push")
  /\ pool' = IF Len(pool) < PoolSize
             THEN Append(pool, [gen |-> th[t].gen, home |-> th[t].conn, keys |-> TRUE])
             ELSE pool
  /\ Done(t)
  /\ UNCHANGED <<stores, gen, cache, history>>

Use(t) == /\ \/ Check(t) \/ ReadGeneration(t) \/ Pop(t) \/ Connect(t) \/ Commit(t)
             \/ Compare(t) \/ Push(t)
          /\ UNCHANGED <<restoring, trail>>

-----------------------------------------------------------------------------
(* reset_all_data. *)

ResetSnapshot(t) ==
  /\ At(t, "snapshot")
  /\ \/ /\ Openable(th[t].home)
        /\ db' = Opened(th[t].home) /\ snaps' = snaps \cup {db'[th[t].home]}
        /\ Goto(t, "check")
     \/ /\ ~Openable(th[t].home) \/ "snapshot" \in Faults
        /\ Done(t) /\ UNCHANGED <<db, snaps>>
  /\ UNCHANGED <<export, setting, links, restoring, trail, history>>

\* The journal is the one beside the path as it resolves by now.
ResetJournal(t) ==
  /\ At(t, "journal")
  /\ th' = [th EXCEPT ![t].left = <<th[t].home>>, ![t].pc = "verify"]
  /\ UNCHANGED <<stores, links, restoring, trail, history>>

ResetEnds(t) ==
  /\ At(t, "recorded") /\ th[t].task = "reset"
  /\ Invalidate
  /\ done' = done \cup {[id |-> th[t].id, homes |-> {th[t].home}]}
  /\ Goto(t, "compare")
  /\ UNCHANGED <<stores, restoring, trail, acked>>

Reset(t) == ResetSnapshot(t) \/ ResetJournal(t) \/ ResetEnds(t)

-----------------------------------------------------------------------------
(* move_database_to. *)

From(t) == th[t].home
Journals(t) == <<From(t)>> \o (IF th[t].to \in reach THEN <<th[t].to>> ELSE <<>>)

\* Only one restore or move holds the lock.
Lock(t) ==
  /\ At(t, "lock")
  /\ \/ restoring /\ Done(t) /\ UNCHANGED restoring
     \/ /\ ~restoring
        /\ restoring' = TRUE
        /\ th' = [u \in Threads |-> IF u = t THEN [th[u] EXCEPT !.pc = "target"]
                                    ELSE [th[u] EXCEPT !.fresh = FALSE]]
  /\ UNCHANGED <<stores, links, trail, history>>

Failed(t) ==
  th' = [th EXCEPT ![t].mode = "failed", ![t].left = Journals(t), ![t].pc = "verify"]

\* LINK when the target has a database that opens, COPY when it has none and its
\* disk has the room.
Target(t) ==
  /\ At(t, "target")
  /\ LET to == th[t].to
         elsewhere == to # From(t) /\ to \in reach
     IN \/ ~elsewhere /\ Goto(t, "unlock")
        \/ elsewhere /\ ~db[to].file /\ Goto(t, "checkpoint")
        \/ elsewhere /\ ~db[to].file /\ "copy" \in Faults /\ Failed(t)
        \/ /\ elsewhere /\ db[to].file /\ db[to].sealed
           /\ th' = [th EXCEPT ![t].mode = "link", ![t].pc = "setting"]
        \/ elsewhere /\ db[to].file /\ ~db[to].sealed /\ Failed(t)
  /\ UNCHANGED <<stores, links, restoring, trail, history>>

\* Mutant: the log is not written back before the file is copied.
CheckpointNothing(t) ==
  /\ At(t, "checkpoint")
  /\ db' = Opened(From(t))
  /\ Invalidate /\ Goto(t, "copy")
  /\ UNCHANGED <<export, setting, snaps, restoring, trail, history>>

\* The checkpoint moves the log into the main file, but for what a connection in
\* a transaction keeps it from; then the pool is dropped.
Checkpoint(t) ==
  /\ At(t, "checkpoint")
  /\ LET busy == \E u \in Threads : th[u].conn = From(t)
     IN \/ /\ Openable(From(t))
           /\ \E kept \in SUBSET db[From(t)].wal :
                /\ kept # {} => busy
                /\ db' = [Opened(From(t)) EXCEPT
                            ![From(t)].main = @ \cup (db[From(t)].wal \ kept),
                            ![From(t)].wal = kept]
           /\ Invalidate /\ Goto(t, "copy")
        \/ ~Openable(From(t)) /\ Goto(t, "unlock") /\ UNCHANGED <<db, links>>
  /\ UNCHANGED <<export, setting, snaps, restoring, trail, history>>

\* The main file only, by way of a staged copy that is opened and checked.
Copy(t) ==
  /\ At(t, "copy")
  /\ \/ /\ {From(t), th[t].to} \subseteq reach
        /\ db' = [db EXCEPT ![th[t].to] = [db[From(t)] EXCEPT !.wal = {}]]
        /\ th' = [th EXCEPT ![t].mode = "copy", ![t].pc = "setting"]
     \/ /\ "copy" \in Faults \/ ~({From(t), th[t].to} \subseteq reach)
        /\ Failed(t) /\ UNCHANGED db
  /\ UNCHANGED <<export, setting, snaps, links, restoring, trail, history>>

\* set_db_custom_path reads the settings file, truncates it and writes it anew.
ReadForSetting(t) ==
  /\ At(t, "setting")
  /\ Goto(t, IF setting = "torn" THEN "abandon" ELSE "truncate")
  /\ UNCHANGED <<stores, links, restoring, trail, history>>

Truncate(t) ==
  /\ At(t, "truncate")
  /\ \/ setting' = "torn" /\ Goto(t, "fill")
     \/ "setting" \in Faults /\ Goto(t, "switchBack") /\ UNCHANGED setting
  /\ UNCHANGED <<db, export, snaps, links, restoring, trail, history>>

\* The file is complete, or not; then the cached path and the idle connections go.
Fill(t) ==
  /\ At(t, "fill")
  /\ \/ setting' = th[t].to /\ Goto(t, "switch")
     \/ "setting" \in Faults /\ Goto(t, "switchBack") /\ UNCHANGED setting
  /\ UNCHANGED <<db, export, snaps, links, restoring, trail, history>>

Switch(t) ==
  /\ Invalidate
  /\ \/ At(t, "switchBack") /\ Goto(t, "abandon")
     \/ At(t, "switch") /\ th' = [th EXCEPT ![t].left = Journals(t), ![t].pc = "verify"]
  /\ UNCHANGED <<stores, restoring, trail, history>>

\* The setting could not be changed: a copy is removed again.
Abandon(t) ==
  /\ At(t, "abandon")
  /\ db' = IF th[t].mode = "copy" /\ th[t].to \in reach
           THEN [db EXCEPT ![th[t].to] = Missing] ELSE db
  /\ Failed(t)
  /\ UNCHANGED <<export, setting, snaps, links, restoring, trail, history>>

MoveEnds(t) ==
  /\ \/ At(t, "recorded") /\ th[t].task = "move"
        /\ done' = done \cup {[id |-> th[t].id, homes |-> {From(t), th[t].to}]}
     \/ At(t, "unlock") /\ UNCHANGED done
  /\ restoring' = FALSE /\ Done(t)
  /\ UNCHANGED <<stores, links, trail, acked>>

Move(t) == \/ Lock(t) \/ Target(t) \/ Checkpoint(t) \/ Copy(t) \/ ReadForSetting(t)
           \/ Truncate(t) \/ Fill(t) \/ Switch(t) \/ Abandon(t) \/ MoveEnds(t)

-----------------------------------------------------------------------------
(* record_critical_audit_event, for each journal a command writes to.  It takes no
   lock, and its errors are ignored. *)

NextJournal(t) == th' = [th EXCEPT ![t].left = Tail(@)]

\* Mutant: only the first journal is written.
VerifyFirstOnly(t) ==
  /\ At(t, "verify")
  /\ \/ /\ th[t].left # <<>>
        /\ th' = [th EXCEPT ![t].entries = Cardinality(trail[Head(th[t].left)].events),
                            ![t].left = <<Head(@)>>, ![t].pc = "append"]
     \/ th[t].left = <<>> /\ Goto(t, "recorded")
  /\ UNCHANGED trail

\* open_or_create: a journal that does not verify refuses the event.
VerifyJournal(t) ==
  /\ At(t, "verify")
  /\ \/ th[t].left = <<>> /\ Goto(t, "recorded")
     \/ /\ th[t].left # <<>>
        /\ LET h == Head(th[t].left)
           IN IF trail[h].broken \/ h \notin reach THEN NextJournal(t)
              ELSE th' = [th EXCEPT ![t].entries = Cardinality(trail[h].events),
                                    ![t].pc = "append"]
  /\ UNCHANGED trail

\* The block is appended to whatever is there by now: after another one it does
\* not continue the chain.
AppendJournal(t) ==
  /\ At(t, "append")
  /\ LET h == Head(th[t].left)
         j == trail[h]
     IN \/ /\ h \in reach
           /\ trail' = [trail EXCEPT ![h] =
                [file |-> TRUE, events |-> j.events \cup {th[t].id},
                 broken |-> j.broken \/ ~Continues(j, th[t].entries)]]
        \/ h \notin reach /\ UNCHANGED trail
  /\ th' = [th EXCEPT ![t].left = Tail(@), ![t].entries = 0, ![t].pc = "verify"]

Record(t) == /\ VerifyJournal(t) \/ AppendJournal(t)
             /\ UNCHANGED <<stores, links, restoring, history>>

-----------------------------------------------------------------------------
Step(t) == /\ Lookup(t) \/ Use(t) \/ Reset(t) \/ Move(t) \/ Record(t)
           /\ UNCHANGED <<reach, starting, strain, bounds>>

Next == Crash \/ Quit \/ Unplug \/ Plug \/ Boot \/ \E t \in Threads : Begin(t) \/ Step(t)

Spec == Init /\ [][Next]_vars

-----------------------------------------------------------------------------
(* The upgrade. *)

\* Wherever starts were cut short, a database that is stamped as upgraded has been
\* through every step: its tables, columns and rules are there but for the columns
\* of Signing, nothing of the older release is left, the triggers of the search
\* index are there, and the index is of the present form and filled - unless a
\* start ended between making an index and filling it: the next one takes the empty
\* index for a good one.  The connections kept for commands enforce references.
UpgradesAreWhole ==
  /\ \A h \in Homes : db[h].version = SCHEMA_USER_VERSION =>
       /\ Required \ Signing \subseteq db[h].has
       /\ db[h].has \cap {"oldField", "cascade", "assetComputerNames"} = {}
       /\ db[h].triggers
       /\ db[h].index = "full" \/ (db[h].index = "empty" /\ "unfilled" \in strain)
  /\ \A i \in DOMAIN pool : pool[i].keys

\* Whatever step a start stops at, and however often it is repeated, every
\* employee is known by the same account as before, and a database of an older
\* release that has changed is in a safety snapshot as it was.
UpgradesKeepTheOld ==
  \A h \in Homes : db[h].origin = "old" =>
    /\ \A e \in Staff : Known(db[h], e) = Known(Old, e)
    /\ db[h].has = Old.has \/ \E s \in snaps : s.has = Old.has /\ s.azure = Old.azure

\* A database that is stamped as upgraded has every column that the program's
\* queries name.
UpgradesAreComplete ==
  \A h \in Homes : db[h].version = SCHEMA_USER_VERSION => Required \subseteq db[h].has

-----------------------------------------------------------------------------
(* Moving. *)

\* A write that begins with no move running, and meets none, goes to the database
\* that the setting names, whatever moves before it left in the cache and in the
\* pool and however far another thread had got with them - unless the shared
\* folder has been lost.
FreshCommandsFollow ==
  [][\A t \in Threads : /\ th[t].fresh /\ ~restoring
                        /\ At(t, "commit") /\ Commit(t)
                        /\ "unplugged" \notin strain
                        => th[t].conn = Named]_vars

\* While commands run one after another, no write is lost by a move or a reset,
\* done, failed or interrupted: it is in one of the databases or in a safety
\* snapshot; and a database that has just been copied holds what its source held.
NothingDestroyed ==
  "overlap" \notin strain =>
    /\ \A w \in acked : \/ \E h \in Homes : w \in Holds(db[h])
                        \/ \E s \in snaps : w \in Holds(s)
    /\ \A t \in Threads : th[t].mode = "copy" /\ At(t, "setting") =>
         Holds(db[From(t)]) = Holds(db[th[t].to])

\* As long as both folders can be reached, every move and reset that has ended is
\* in each journal it concerns, unless an append to that journal was cut short or
\* met another one.
TrailIsComplete ==
  "unplugged" \notin strain => \A e \in done : \A h \in e.homes : trail[h].broken \/ e.id \in trail[h].events
=============================================================================
