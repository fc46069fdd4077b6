---------------------------- MODULE DatabasePromise ----------------------------
(***************************************************************************)
(* What a restore promises a user, with no files, threads or crash: there  *)
(* is one database at all times.  Writes go into it, it is saved, and it   *)
(* is exchanged as a whole, in one step, for the backup or for a database  *)
(* saved before - and never unless it is itself saved or the backup.       *)
(***************************************************************************)
CONSTANTS
  Installed, Backup,  \* the first database, and the one in the user's file
  Ids                 \* of writes

VARIABLES
  db,     \* the user's database
  kept,   \* the databases saved
  acked   \* the writes that were acknowledged

promiseVars == <<db, kept, acked>>

Init == db = Installed /\ kept = {} /\ acked = {}

\* A write is acknowledged as it takes effect.
Write(w) ==
  /\ db' = [db EXCEPT !.writes = @ \cup {w}]
  /\ acked' = acked \cup {w}
  /\ UNCHANGED kept

Save ==
  /\ kept' = kept \cup {db}
  /\ UNCHANGED <<db, acked>>

\* A restore, and the undoing of one whose database does not pass the test.
Exchange ==
  /\ {db, db'} \subseteq kept \cup {Backup}
  /\ UNCHANGED <<kept, acked>>

Next == (\E w \in Ids : Write(w)) \/ Save \/ Exchange

Spec == Init /\ [][Next]_promiseVars
=============================================================================
