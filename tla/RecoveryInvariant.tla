--------------------------- MODULE RecoveryInvariant ---------------------------
(***************************************************************************)
(* The inductive invariants behind RecoveryLedger's theorems.              *)
(***************************************************************************)
EXTENDS RecoveryLedger

\* What the fields of a command hold at each of its steps.
CommandShape(c) ==
  /\ c.pc # "idle" => c.acct \in Accounts
  /\ c.pc \notin {"idle", "gate", "match"} => c.op \in Ops
  /\ c.pc \in {"stage", "stageRename", "mark", "markRename", "finalize"}
       => c.op \in {"activate", "burn"}
  /\ c.op = "activate" => c.batch \in Batches /\ c.row = NoRow
  /\ c.op = "burn" => c.batch \in Batches /\ c.row \in Rows
  /\ c.op = "legacy" \/ c.pc \in {"gate", "match"} => c.row = NoRow

EntryShape(j) ==
  j # NoEntry => /\ j.op = "activate" => j.row = NoRow
                 /\ j.op = "burn" => j.row \in Rows

FilesInv == /\ ledger \in File(Event) /\ mirror \in File(Event)
            /\ mirrorTmp \in File(Event)
            /\ usb \in {"off", "in", "out"}

DbInv == /\ rows \in [Accounts -> [batch : Batches \cup {NoBatch}, gen : Nat,
                                   used : SUBSET Codes]]
         /\ nextGen \in Nat \ {0}
         /\ legacy \in SUBSET Accounts
         /\ committed \in SUBSET Event
         /\ \A a \in Accounts : rows[a].batch # NoBatch => rows[a].gen \in Nat \ {0}

RamInv == /\ pending \in [Accounts -> [batch : Batches \cup {NoBatch}, fresh : BOOLEAN]]
          /\ \A a \in Accounts : pending[a].fresh => pending[a].batch \in Batches
          /\ issued \in 0..MaxBatches

JournalInv == /\ journal \in Entry \cup {NoEntry} /\ EntryShape(journal)
              /\ journalTmp \in Entry \cup {NoEntry} /\ EntryShape(journalTmp)

CmdInv == /\ cmd \in [Threads -> Command]
          /\ \A t \in Threads : CommandShape(cmd[t])

BootInv == /\ boot \in [pc : BootPCs, handle : Seq(Event)]
           /\ boot.pc = "append" => journal # NoEntry

BoundsInv == begun \in Nat /\ crashes \in Nat

TypeInv == FilesInv /\ DbInv /\ RamInv /\ JournalInv /\ CmdInv /\ BootInv /\ BoundsInv

\* A command that is past its transaction.
PastTx(c) == \/ c.pc \in {"mark", "markRename", "append"}
             \/ c.pc = "open" /\ c.op = "legacy"

\* Whoever is about to append a block has its transaction behind it, and the
\* rows in the database have the events that explain them.
ThreadsExplained == \A t \in Threads : PastTx(cmd[t]) => EventOf(cmd[t]) \in committed
BootExplained    == boot.pc = "append" => EventOf(journal) \in committed
RowsExplained    ==
  \A a \in Accounts : /\ rows[a].batch # NoBatch => ActivatedEvent(a) \in committed
                      /\ \A c \in rows[a].used : BurnedEvent(a, c) \in committed

RecordInv == /\ TypeInv
             /\ NoPhantomRecords /\ ThreadsExplained /\ BootExplained /\ RowsExplained

\* A burn that committed left its row consumed; row ids are not reused, so the
\* row stays consumed for as long as it exists.
BurnsMarked ==
  /\ \A a \in Accounts : rows[a].gen < nextGen
  /\ \A e \in committed : e.type = "CodeBurned" /\ e.row \in Rows =>
       /\ e.row.gen < nextGen
       /\ rows[e.acct].gen = e.row.gen => e.row.code \in rows[e.acct].used

BurnInv == TypeInv /\ BurnsMarked

\* Commands that hold an open ledger (the legacy path opens it after its
\* transaction, the others before).
HoldsLedger(c) == \/ c.pc \in {"stage", "stageRename", "mark", "markRename", "append"}
                  \/ c.pc = "tx" /\ c.op # "legacy"

\* The blocks of f are an initial part of those of g.
PrefixOf(f, g) == /\ Len(f.blocks) <= Len(g.blocks)
                  /\ \A i \in 1..Len(f.blocks) : f.blocks[i] = g.blocks[i]

\* No file has no blocks, nobody appends without a file, and both files on the
\* drive are behind the ledger.
MirrorInv ==
  /\ TypeInv
  /\ \A t \in Threads : HoldsLedger(cmd[t]) => ledger.made
  /\ boot.pc = "append" => ledger.made
  /\ ~ledger.made => ledger.blocks = <<>>
  /\ PrefixOf(mirror, ledger) /\ PrefixOf(mirrorTmp, ledger)

-----------------------------------------------------------------------------
(* One command after another, and appends do not fail. *)

OneAtATime == /\ \A t, u \in Threads : t = u
              /\ "append" \notin Faults /\ "tear" \notin Faults

ActivationOf(a, b) == [type |-> "BatchActivated", acct |-> a, batch |-> b, row |-> NoRow]

\* A command that has looked up what its transaction will do.
BeforeTx(c) == \/ c.op \in {"activate", "burn"} /\ c.pc \in {"open", "stage", "stageRename", "tx"}
               \/ c.op = "legacy" /\ c.pc = "tx"
\* From the transaction of an activation on its batch is about to leave pending.
Activating(c) ==
  c.op = "activate" /\ c.pc \in {"mark", "markRename", "append", "copy", "copyRename",
                                  "finalize", "drop"}
Journalled(c) == c.op \in {"activate", "burn"}

\* The entry is that of command c, and the next block is its target.
Stands(j, c) == /\ j # NoEntry /\ j.op = c.op /\ EventOf(j) = EventOf(c)
                /\ j.target = Len(ledger.blocks) + 1

\* The reconciler would append the journal's event if it ran now.
Owed == journal # NoEntry /\ IsDbCommitted(journal) /\ ~Recorded(journal)

\* What a command has of the ledger is the ledger; what it is about to commit is
\* not committed, what it is about to append is not there; and the journal is its own.
Informed(c) ==
  /\ HoldsLedger(c) => c.handle = Chain(ledger.blocks)
  /\ c.pc = "open" /\ c.op \in {"activate", "revoke"} => c.handle = <<>>
  /\ BeforeTx(c) => EventOf(c) \notin committed
  /\ PastTx(c) /\ c.op # "revoke" => EventOf(c) \notin EventsIn(ledger)
  /\ c.op = "activate" => c.batch <= issued
  /\ c.op = "legacy" \/ c.pc \in {"gate", "match"} => c.batch = NoBatch
  /\ Journalled(c) /\ c.pc \in {"tx", "mark", "markRename", "append"} => Stands(journal, c)
  /\ c.pc \in {"stageRename", "markRename"} => Stands(journalTmp, c)

\* While the program starts nothing else goes on.
StartsAlone ==
  boot.pc # "up" => /\ \A t \in Threads : cmd[t].pc = "idle"
                    /\ \A a \in Accounts : pending[a].batch = NoBatch

\* A batch that is pending has not been activated, but for the one being activated.
PendingNew ==
  \A a \in Accounts :
    /\ pending[a].batch <= issued
    /\ pending[a].batch # NoBatch /\ ActivationOf(a, pending[a].batch) \in committed =>
         \E t \in Threads : Activating(cmd[t]) /\ cmd[t].acct = a

\* What has been committed: batches once generated, the burns of their rows, and
\* legacy burns of codes that are gone.
CommittedOf(e) ==
  /\ e.type = "BatchActivated" => e.row = NoRow /\ e.batch <= issued
  /\ e.type = "CodeBurned" /\ e.row = NoRow => e.batch = NoBatch /\ e.acct \notin legacy
  /\ e.type = "CodeBurned" /\ e.row # NoRow =>
       /\ e.row \in Rows /\ e.batch # NoBatch /\ ActivationOf(e.acct, e.batch) \in committed
       /\ rows[e.acct].batch = e.batch => e.row.gen = rows[e.acct].gen
CommittedSound == \A e \in committed : CommittedOf(e)

\* The journal's target is not beyond the next block, and reached when the event of a
\* burn is in the ledger.
TargetReached ==
  journal # NoEntry =>
    /\ journal.target <= Len(ledger.blocks) + 1
    /\ journal.op = "burn" /\ EventOf(journal) \in EventsIn(ledger) =>
         Len(ledger.blocks) >= journal.target

\* The ledger owes a block only from a transaction to its append, or until the
\* next start.
Debts ==
  /\ Owed => \/ boot.pc \in {"down", "read", "append"}
             \/ \E t \in Threads : PastTx(cmd[t]) /\ Journalled(cmd[t])
  /\ boot.pc = "append" => Owed /\ boot.handle = Chain(ledger.blocks)

\* What a command is about to append is in the database: nothing replaced its rows
\* between its transaction and its append.
TookEffect(c) == PastTx(c) /\ Journalled(c) => IsDbCommitted(c)

JournalNeedsLedger == journal # NoEntry \/ journalTmp # NoEntry => ledger.made

SerialInv ==
  /\ RecordInv /\ BurnInv /\ MirrorInv
  /\ LedgerVerifies /\ RecordedOnce
  /\ StartsAlone
  /\ \A t \in Threads : Informed(cmd[t]) /\ TookEffect(cmd[t])
  /\ PendingNew /\ CommittedSound /\ TargetReached /\ Debts
  /\ JournalNeedsLedger
=============================================================================
