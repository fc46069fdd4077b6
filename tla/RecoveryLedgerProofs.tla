------------------------- MODULE RecoveryLedgerProofs -------------------------
(***************************************************************************)
(* Theorems about RecoveryLedger for any accounts, codes, threads, kinds   *)
(* of command, faults and bounds.                                          *)
(***************************************************************************)
EXTENDS RecoveryInvariant, RecoveryRefinement, SequenceTheorems, TLAPS

-----------------------------------------------------------------------------
(* The hash-chained file, for every set of events. *)

\* One block more, through any handle, and the file keeps its shape.
LEMMA ExtendType ==
  ASSUME NEW E, NEW f \in File(E), NEW h \in Seq(E), NEW e \in E
  PROVE  Extend(f, h, e) \in File(E)
<1> DEFINE b == [seq |-> Len(h) + 1, prev |-> h, event |-> e]
<1>1. f.blocks \in Seq(Block(E)) /\ b \in Block(E)
  BY DEF File, Block
<1> HIDE DEF b
<1>2. Append(f.blocks, b) \in Seq(Block(E))
  BY <1>1
<1>3. Extend(f, h, e) = [f EXCEPT !.blocks = Append(f.blocks, b)]
  BY DEF Extend, b
<1> QED
  BY <1>2, <1>3 DEF File

\* Every block that was there stays where it was.
LEMMA ExtendPrefix ==
  ASSUME NEW E, NEW f \in File(E), NEW h \in Seq(E), NEW e \in E
  PROVE  /\ Extend(f, h, e).made = f.made
         /\ Extend(f, h, e).torn = f.torn
         /\ Len(Extend(f, h, e).blocks) = Len(f.blocks) + 1
         /\ \A i \in 1..Len(f.blocks) : Extend(f, h, e).blocks[i] = f.blocks[i]
<1> DEFINE b == [seq |-> Len(h) + 1, prev |-> h, event |-> e]
<1> HIDE DEF b
<1>1. f.blocks \in Seq(Block(E))
  BY DEF File
<1>2. Extend(f, h, e) = [f EXCEPT !.blocks = Append(f.blocks, b)]
  BY DEF Extend, b
<1>3. /\ Extend(f, h, e).made = f.made
      /\ Extend(f, h, e).torn = f.torn
      /\ Extend(f, h, e).blocks = Append(f.blocks, b)
  BY <1>2 DEF File
<1> QED
  BY <1>1, <1>3

\* The new block's fields.
LEMMA ExtendLast ==
  ASSUME NEW E, NEW f \in File(E), NEW h \in Seq(E), NEW e \in E
  PROVE  /\ Extend(f, h, e).blocks[Len(f.blocks) + 1].seq = Len(h) + 1
         /\ Extend(f, h, e).blocks[Len(f.blocks) + 1].prev = h
         /\ Extend(f, h, e).blocks[Len(f.blocks) + 1].event = e
<1> DEFINE b == [seq |-> Len(h) + 1, prev |-> h, event |-> e]
<1>1. f.blocks \in Seq(Block(E)) /\ b \in Block(E)
  BY DEF File, Block
<1>2. b.seq = Len(h) + 1 /\ b.prev = h /\ b.event = e
  OBVIOUS
<1>3. Extend(f, h, e) = [f EXCEPT !.blocks = Append(f.blocks, b)]
  BY DEF Extend
<1> HIDE DEF b
<1>4. Extend(f, h, e).blocks = Append(f.blocks, b)
  BY <1>3 DEF File
<1>5. Append(f.blocks, b)[Len(f.blocks) + 1] = b
  BY <1>1
<1> QED
  BY <1>2, <1>4, <1>5

\* append_event adds exactly the event it was given.
LEMMA ExtendEvents ==
  ASSUME NEW E, NEW f \in File(E), NEW h \in Seq(E), NEW e \in E
  PROVE  EventsIn(Extend(f, h, e)) = EventsIn(f) \cup {e}
<1> DEFINE g == Extend(f, h, e)
<1> HIDE DEF g
<1>1. f.blocks \in Seq(Block(E)) /\ Len(f.blocks) \in Nat
  BY DEF File
<1>2. /\ Len(g.blocks) = Len(f.blocks) + 1
      /\ \A i \in 1..Len(f.blocks) : g.blocks[i] = f.blocks[i]
      /\ g.blocks[Len(f.blocks) + 1].event = e
  BY ExtendPrefix, ExtendLast DEF g
<1>3. EventsIn(g) \subseteq EventsIn(f) \cup {e}
  <2> SUFFICES ASSUME NEW i \in 1..Len(g.blocks)
               PROVE  g.blocks[i].event \in EventsIn(f) \cup {e}
    BY DEF EventsIn
  <2>1. CASE i \in 1..Len(f.blocks)
    BY <2>1, <1>2 DEF EventsIn
  <2>2. CASE i = Len(f.blocks) + 1
    BY <2>2, <1>2
  <2> QED
    BY <1>1, <1>2, <2>1, <2>2
<1>4. EventsIn(f) \subseteq EventsIn(g)
  <2> SUFFICES ASSUME NEW i \in 1..Len(f.blocks)
               PROVE  f.blocks[i].event \in EventsIn(g)
    BY DEF EventsIn
  <2>1. i \in 1..Len(g.blocks) /\ g.blocks[i] = f.blocks[i]
    BY <1>1, <1>2
  <2> QED
    BY <2>1 DEF EventsIn
<1>5. e \in EventsIn(g)
  <2>1. Len(f.blocks) + 1 \in 1..Len(g.blocks)
    BY <1>1, <1>2
  <2> QED
    BY <1>2, <2>1 DEF EventsIn
<1> QED
  BY <1>3, <1>4, <1>5 DEF g

\* A file that does not verify is not mended by appending to it.
LEMMA ExtendKeepsBroken ==
  ASSUME NEW E, NEW f \in File(E), NEW h \in Seq(E), NEW e \in E,
         ~Verifies(f)
  PROVE  ~Verifies(Extend(f, h, e))
<1> DEFINE g == Extend(f, h, e)
<1> HIDE DEF g
<1>1. /\ g.made = f.made /\ g.torn = f.torn
      /\ Len(g.blocks) = Len(f.blocks) + 1
      /\ \A i \in 1..Len(f.blocks) : g.blocks[i] = f.blocks[i]
  BY ExtendPrefix DEF g
<1>2. Len(f.blocks) \in Nat
  BY DEF File
<1> SUFFICES ASSUME Linked(g.blocks)
             PROVE  Linked(f.blocks)
  BY <1>1 DEF Verifies, g
<1> SUFFICES ASSUME NEW i \in 1..Len(f.blocks)
             PROVE  /\ f.blocks[i].seq = i
                    /\ f.blocks[i].prev = [j \in 1..(i - 1) |-> f.blocks[j].event]
  BY DEF Linked
<1>3. /\ i \in 1..Len(g.blocks)
      /\ g.blocks[i] = f.blocks[i]
      /\ \A j \in 1..(i - 1) : g.blocks[j] = f.blocks[j]
  BY <1>1, <1>2
<1>4. g.blocks[i].seq = i /\ g.blocks[i].prev = [j \in 1..(i - 1) |-> g.blocks[j].event]
  BY <1>3 DEF Linked
<1> QED
  BY <1>3, <1>4

\* Through a handle that covers the whole file, the chain stays sound.
LEMMA ExtendVerifies ==
  ASSUME NEW E, NEW f \in File(E), NEW e \in E,
         Verifies(f)
  PROVE  /\ Verifies(Extend(f, Chain(f.blocks), e))
         /\ Chain(Extend(f, Chain(f.blocks), e).blocks) = Append(Chain(f.blocks), e)
<1> DEFINE h == Chain(f.blocks)
           g == Extend(f, h, e)
           n == Len(f.blocks)
<1> HIDE DEF h, g
<1>1. f.blocks \in Seq(Block(E)) /\ n \in Nat
  BY DEF File
<1>2. h \in Seq(E) /\ Len(h) = n /\ \A i \in 1..n : h[i] = f.blocks[i].event
  <2>1. \A i \in 1..n : f.blocks[i].event \in E
    <3>1. \A i \in 1..n : f.blocks[i] \in Block(E)
      BY <1>1, ElementOfSeq
    <3> QED
      BY <3>1 DEF Block
  <2>2. h = [i \in 1..n |-> f.blocks[i].event]
    BY DEF Chain, h
  <2> QED
    BY <1>1, <2>1, <2>2
<1>3. /\ g.made = f.made /\ g.torn = f.torn
      /\ Len(g.blocks) = n + 1
      /\ \A i \in 1..n : g.blocks[i] = f.blocks[i]
      /\ g.blocks[n + 1].seq = n + 1 /\ g.blocks[n + 1].prev = h
      /\ g.blocks[n + 1].event = e
  <2>1. /\ g.made = f.made /\ g.torn = f.torn
        /\ Len(g.blocks) = Len(f.blocks) + 1
        /\ \A i \in 1..Len(f.blocks) : g.blocks[i] = f.blocks[i]
    BY <1>2, ExtendPrefix DEF g
  <2>2. /\ g.blocks[Len(f.blocks) + 1].seq = Len(h) + 1
        /\ g.blocks[Len(f.blocks) + 1].prev = h
        /\ g.blocks[Len(f.blocks) + 1].event = e
    BY <1>2, ExtendLast DEF g
  <2> QED
    BY <1>2, <2>1, <2>2
<1>4. Linked(g.blocks)
  <2> SUFFICES ASSUME NEW i \in 1..Len(g.blocks)
               PROVE  /\ g.blocks[i].seq = i
                      /\ g.blocks[i].prev = [j \in 1..(i - 1) |-> g.blocks[j].event]
    BY DEF Linked
  <2>1. CASE i \in 1..n
    <3>1. g.blocks[i] = f.blocks[i] /\ \A j \in 1..(i - 1) : g.blocks[j] = f.blocks[j]
      BY <1>1, <1>3, <2>1
    <3>2. f.blocks[i].seq = i /\ f.blocks[i].prev = [j \in 1..(i - 1) |-> f.blocks[j].event]
      BY <2>1 DEF Verifies, Linked
    <3> QED
      BY <3>1, <3>2
  <2>2. CASE i = n + 1
    <3>1. h = [j \in 1..n |-> f.blocks[j].event]
      BY DEF h, Chain
    <3>2. (n + 1) - 1 = n
      BY <1>1
    <3>3. \A j \in 1..n : g.blocks[j].event = f.blocks[j].event
      BY <1>3
    <3>4. h = [j \in 1..(i - 1) |-> g.blocks[j].event]
      BY <2>2, <3>1, <3>2, <3>3
    <3> QED
      BY <1>3, <2>2, <3>4
  <2> QED
    BY <1>1, <1>3, <2>1, <2>2
<1>5. Chain(g.blocks) = Append(h, e)
  <2> DEFINE k == Chain(g.blocks)
  <2>1. k = [i \in 1..(n + 1) |-> g.blocks[i].event]
    BY <1>3 DEF Chain
  <2>2. \A i \in 1..(n + 1) : g.blocks[i].event = IF i \in 1..n THEN h[i] ELSE e
    BY <1>1, <1>2, <1>3
  <2>3. \A i \in 1..(n + 1) : g.blocks[i].event \in E
    BY <1>1, <1>2, <2>2
  <2> HIDE DEF k
  <2>4. k \in Seq(E) /\ Len(k) = n + 1 /\ \A i \in 1..(n + 1) : k[i] = g.blocks[i].event
    BY <1>1, <2>1, <2>3
  <2>5. /\ Append(h, e) \in Seq(E) /\ Len(Append(h, e)) = n + 1
        /\ \A i \in 1..(n + 1) : Append(h, e)[i] = IF i \in 1..n THEN h[i] ELSE e
    BY <1>1, <1>2
  <2> QED
    BY <2>2, <2>4, <2>5, SeqEqual DEF k
<1> QED
  BY <1>3, <1>4, <1>5 DEF Verifies, g, h

-----------------------------------------------------------------------------
(* Types: values the model builds. *)

\* The files that the program creates.
LEMMA NewFiles == NoFile \in File(Event) /\ NewFile \in File(Event)
<1>1. << >> \in Seq(Block(Event))
  OBVIOUS
<1> QED
  BY <1>1 DEF File, NoFile, NewFile

\* A thread at rest.
LEMMA IdleCommand == Idle \in Command /\ CommandShape(Idle)
<1>1. << >> \in Seq(Event)
  OBVIOUS
<1> QED
  BY <1>1 DEF Idle, Command, PCs, CommandShape, Ops

\* A command that records something records an event.
LEMMA EventOfType ==
  ASSUME NEW c, c.op \in Ops, c.acct \in Accounts,
         c.batch \in Batches \cup {NoBatch}, c.row \in Rows \cup {NoRow}
  PROVE  EventOf(c) \in Event
  BY DEF EventOf, Event, EventType, Ops

\* The handle of an opened ledger is a sequence of events.
LEMMA ChainType ==
  ASSUME FilesInv
  PROVE  Chain(ledger.blocks) \in Seq(Event)
<1>1. ledger.blocks \in Seq(Block(Event)) /\ Len(ledger.blocks) \in Nat
  BY DEF FilesInv, File
<1>2. \A i \in 1..Len(ledger.blocks) : ledger.blocks[i] \in Block(Event)
  BY <1>1, ElementOfSeq
<1>3. \A i \in 1..Len(ledger.blocks) : ledger.blocks[i].event \in Event
  BY <1>2 DEF Block
<1> QED
  BY <1>1, <1>3 DEF Chain

\* What a step leaves alone keeps its type.
LEMMA Frames ==
  /\ FilesInv /\ UNCHANGED <<ledger, mirror, mirrorTmp, usb>> => FilesInv'
  /\ DbInv /\ UNCHANGED <<rows, nextGen, legacy, committed>> => DbInv'
  /\ RamInv /\ UNCHANGED <<pending, issued>> => RamInv'
  /\ JournalInv /\ UNCHANGED <<journal, journalTmp>> => JournalInv'
  /\ CmdInv /\ UNCHANGED cmd => CmdInv'
  /\ BootInv /\ UNCHANGED <<boot, journal>> => BootInv'
  /\ BootInv /\ boot.pc = "up" /\ UNCHANGED boot => BootInv'
  /\ BoundsInv /\ UNCHANGED <<begun, crashes>> => BoundsInv'
<1>1. FilesInv /\ UNCHANGED <<ledger, mirror, mirrorTmp, usb>> => FilesInv'
  BY DEF FilesInv
<1>2. DbInv /\ UNCHANGED <<rows, nextGen, legacy, committed>> => DbInv'
  BY DEF DbInv
<1>3. RamInv /\ UNCHANGED <<pending, issued>> => RamInv'
  BY DEF RamInv
<1>4. JournalInv /\ UNCHANGED <<journal, journalTmp>> => JournalInv'
  BY DEF JournalInv
<1>5. CmdInv /\ UNCHANGED cmd => CmdInv'
  BY DEF CmdInv
<1>6. BootInv /\ UNCHANGED <<boot, journal>> => BootInv'
  BY DEF BootInv
<1>7. BootInv /\ boot.pc = "up" /\ UNCHANGED boot => BootInv'
  BY DEF BootInv
<1>8. BoundsInv /\ UNCHANGED <<begun, crashes>> => BoundsInv'
  BY DEF BoundsInv
<1> QED
  BY <1>1, <1>2, <1>3, <1>4, <1>5, <1>6, <1>7, <1>8

\* A command moves to the next step of its kind.
LEMMA GotoInv ==
  ASSUME CmdInv, NEW t \in Threads, NEW p \in PCs, Goto(t, p),
         cmd[t].pc # "idle",
         p \notin {"idle", "gate", "match"} => cmd[t].op \in Ops,
         p \in {"stage", "stageRename", "mark", "markRename", "finalize"}
           => cmd[t].op \in {"activate", "burn"},
         p \in {"gate", "match"} => cmd[t].row = NoRow
  PROVE  CmdInv'
<1> DEFINE d == [cmd[t] EXCEPT !.pc = p]
<1>1. cmd[t] \in Command /\ CommandShape(cmd[t])
  BY DEF CmdInv
<1>2. /\ d \in Command
      /\ d.pc = p /\ d.op = cmd[t].op /\ d.acct = cmd[t].acct
      /\ d.batch = cmd[t].batch /\ d.row = cmd[t].row
  BY <1>1 DEF Command
<1> HIDE DEF d
<1>3. CommandShape(d)
  BY <1>1, <1>2 DEF CommandShape
<1>4. cmd' = [cmd EXCEPT ![t] = d]
  BY DEF Goto, d
<1> QED
  BY <1>2, <1>3, <1>4 DEF CmdInv

\* A command that ends leaves a thread at rest.
LEMMA DoneInv ==
  ASSUME CmdInv, NEW t \in Threads, Done(t)
  PROVE  CmdInv'
<1> QED
  BY IdleCommand DEF CmdInv, Done

\* A thread replaces its command by one of the right shape.
LEMMA PutInv ==
  ASSUME CmdInv, NEW t \in Threads, NEW d \in Command, CommandShape(d),
         cmd' = [cmd EXCEPT ![t] = d]
  PROVE  CmdInv'
<1> QED
  BY DEF CmdInv

\* The command that a successful lookup leaves.
LEMMA MatchCmd ==
  ASSUME CmdInv, DbInv, NEW t \in Threads, MatchBatchCode(t) \/ MatchLegacy(t)
  PROVE  \E d \in Command :
           /\ cmd' = [cmd EXCEPT ![t] = d]
           /\ CommandShape(d)
           /\ \/ d.pc = "open" /\ d.op = "burn"
              \/ d.pc = "tx" /\ d.op = "legacy"
<1> USE DEF At
<1>1. cmd[t] \in Command /\ cmd[t].acct \in Accounts /\ cmd[t].row = NoRow
  BY DEF MatchBatchCode, MatchLegacy, CmdInv, CommandShape
<1>2. CASE MatchBatchCode(t)
  <2>1. PICK c \in Codes :
          cmd' = [cmd EXCEPT ![t].pc = "open", ![t].op = "burn",
                             ![t].batch = rows[cmd[t].acct].batch,
                             ![t].row = [gen |-> rows[cmd[t].acct].gen, code |-> c]]
    BY <1>2 DEF MatchBatchCode
  <2> DEFINE r == [gen |-> rows[cmd[t].acct].gen, code |-> c]
             d == [cmd[t] EXCEPT !.pc = "open", !.op = "burn",
                                 !.batch = rows[cmd[t].acct].batch, !.row = r]
  <2>2. rows[cmd[t].acct].batch \in Batches /\ r \in Rows
    BY <1>1, <1>2 DEF MatchBatchCode, DbInv, Rows
  <2> HIDE DEF r
  <2>3. /\ d \in Command /\ d.pc = "open" /\ d.op = "burn"
        /\ d.acct = cmd[t].acct /\ d.batch = rows[cmd[t].acct].batch /\ d.row = r
    BY <1>1, <2>2 DEF Command, PCs, Ops
  <2>4. cmd' = [cmd EXCEPT ![t] = d]
    BY <2>1 DEF r, CmdInv
  <2> HIDE DEF d
  <2>5. CommandShape(d)
    BY <1>1, <2>2, <2>3 DEF CommandShape, Ops
  <2> QED
    BY <2>3, <2>4, <2>5
<1>3. CASE MatchLegacy(t)
  <2> DEFINE d == [cmd[t] EXCEPT !.pc = "tx", !.op = "legacy"]
  <2>1. /\ d \in Command /\ d.pc = "tx" /\ d.op = "legacy"
        /\ d.acct = cmd[t].acct /\ d.row = cmd[t].row
    BY <1>1 DEF Command, PCs, Ops
  <2>2. cmd' = [cmd EXCEPT ![t] = d]
    BY <1>3 DEF MatchLegacy, CmdInv
  <2> HIDE DEF d
  <2>3. CommandShape(d)
    BY <1>1, <2>1 DEF CommandShape, Ops
  <2> QED
    BY <2>1, <2>2, <2>3
<1> QED
  BY <1>2, <1>3

\* The command that has opened the ledger.
LEMMA OpenCmd ==
  ASSUME CmdInv, FilesInv, NEW t \in Threads, OpenLedger(t)
  PROVE  \E d \in Command :
           /\ cmd' = [cmd EXCEPT ![t] = d]
           /\ CommandShape(d)
           /\ d.pc = AfterOpen(cmd[t].op) /\ d.handle = Chain(ledger.blocks)
           /\ d.op = cmd[t].op /\ d.acct = cmd[t].acct
           /\ d.batch = cmd[t].batch /\ d.row = cmd[t].row
<1> DEFINE p == AfterOpen(cmd[t].op)
           h == Chain(ledger.blocks)
           d == [cmd[t] EXCEPT !.handle = h, !.pc = p]
<1>1. cmd[t] \in Command /\ CommandShape(cmd[t]) /\ cmd[t].pc = "open" /\ cmd[t].op \in Ops
  BY DEF OpenLedger, At, CmdInv, CommandShape
<1>2. /\ p \in {"stage", "tx", "append"}
      /\ p = "stage" => cmd[t].op \in {"activate", "burn"}
      /\ h \in Seq(Event)
  BY <1>1, ChainType DEF AfterOpen, Ops
<1> HIDE DEF p, h
<1>3. /\ d \in Command /\ d.pc = p /\ d.handle = h
      /\ d.op = cmd[t].op /\ d.acct = cmd[t].acct
      /\ d.batch = cmd[t].batch /\ d.row = cmd[t].row
  BY <1>1, <1>2 DEF Command, PCs
<1>4. cmd' = [cmd EXCEPT ![t] = d]
  BY DEF OpenLedger, CmdInv, p, h
<1> HIDE DEF d
<1>5. CommandShape(d)
  BY <1>1, <1>2, <1>3 DEF CommandShape
<1> QED
  BY <1>3, <1>4, <1>5 DEF p, h

\* Finalizing the journal, whether or not the removal works.
LEMMA FinalizeInv ==
  ASSUME JournalInv, FinalizeJournal
  PROVE  JournalInv'
<1> QED
  BY DEF JournalInv, FinalizeJournal, EntryShape, jVars

\* The commands that only touch the pending batches keep the types.
LEMMA TypePending ==
  ASSUME TypeInv, NEW a \in Accounts, Generate(a) \/ Cancel(a) \/ Expire(a)
  PROVE  TypeInv'
<1> USE DEF diskVars, dbVars, ramVars, jVars, bounds, TypeInv, At
<1>1. CASE Generate(a)
  <2>1. RamInv'
    BY <1>1, ConstantsOK DEF Generate, RamInv, Batches
  <2> QED
    BY <1>1, <2>1, Frames DEF Generate
<1>2. CASE Cancel(a)
  <2>1. RamInv'
    BY <1>2 DEF Cancel, RamInv, NoPending
  <2> QED
    BY <1>2, <2>1, Frames DEF Cancel
<1>3. CASE Expire(a)
  <2>1. RamInv'
    BY <1>3 DEF Expire, RamInv
  <2> QED
    BY <1>3, <2>1, Frames DEF Expire
<1> QED
  BY <1>1, <1>2, <1>3

\* The start of a command keeps the types.
LEMMA TypeBegin ==
  ASSUME TypeInv, NEW t \in Threads, NEW a \in Accounts,
         \/ BeginActivate(t, a) \/ RejectExpired(t, a)
         \/ BeginRevoke(t, a) \/ BeginForgot(t, a)
  PROVE  TypeInv'
<1> USE DEF diskVars, dbVars, ramVars, jVars, bounds, TypeInv, At
<1>1. CASE BeginActivate(t, a)
  <2>1. CmdInv'
    BY <1>1, PutInv, IdleCommand DEF BeginActivate, CanBegin, Idle, Command, CommandShape, PCs, Ops, RamInv
  <2>2. BoundsInv'
    BY <1>1 DEF BeginActivate, CanBegin, BoundsInv
  <2> QED
    BY <1>1, <2>1, <2>2, Frames DEF BeginActivate, CanBegin
<1>2. CASE RejectExpired(t, a)
  <2>1. RamInv'
    BY <1>2 DEF RejectExpired, CanBegin, RamInv, NoPending
  <2>2. BoundsInv'
    BY <1>2 DEF RejectExpired, CanBegin, BoundsInv
  <2> QED
    BY <1>2, <2>1, <2>2, Frames DEF RejectExpired, CanBegin
<1>3. CASE BeginRevoke(t, a)
  <2>1. RamInv'
    BY <1>3 DEF BeginRevoke, CanBegin, RamInv, NoPending
  <2>2. CmdInv'
    BY <1>3, PutInv, IdleCommand DEF BeginRevoke, CanBegin, Idle, Command, CommandShape, PCs, Ops
  <2>3. BoundsInv'
    BY <1>3 DEF BeginRevoke, CanBegin, BoundsInv
  <2> QED
    BY <1>3, <2>1, <2>2, <2>3, Frames DEF BeginRevoke, CanBegin
<1>4. CASE BeginForgot(t, a)
  <2>1. CmdInv'
    BY <1>4, PutInv, IdleCommand DEF BeginForgot, CanBegin, Idle, Command, CommandShape, PCs, Ops
  <2>2. BoundsInv'
    BY <1>4 DEF BeginForgot, CanBegin, BoundsInv
  <2> QED
    BY <1>4, <2>1, <2>2, Frames DEF BeginForgot, CanBegin
<1> QED
  BY <1>1, <1>2, <1>3, <1>4

\* The lookup, the open and the journal keep the types.
LEMMA TypeToJournal ==
  ASSUME TypeInv, NEW t \in Threads,
         \/ Gate(t) \/ MatchBatchCode(t) \/ MatchLegacy(t) \/ MatchNothing(t)
         \/ CreateLedger(t) \/ OpenLedger(t) \/ OpenLedgerFails(t)
         \/ WriteJournalTmp(t) \/ RenameJournalTmp(t) \/ JournalWriteFails(t)
  PROVE  TypeInv'
<1> USE DEF diskVars, dbVars, ramVars, jVars, bounds, TypeInv, At
<1>1. CASE Gate(t)
  <2>1. CmdInv'
    BY <1>1, GotoInv, DoneInv DEF Gate, PCs, Ops, CmdInv, CommandShape
  <2> QED
    BY <1>1, <2>1, Frames DEF Gate
<1>2. CASE MatchBatchCode(t)
  <2>1. CmdInv'
    BY <1>2, MatchCmd, PutInv
  <2> QED
    BY <1>2, <2>1, Frames DEF MatchBatchCode
<1>3. CASE MatchLegacy(t)
  <2>1. CmdInv'
    BY <1>3, MatchCmd, PutInv
  <2> QED
    BY <1>3, <2>1, Frames DEF MatchLegacy
<1>4. CASE MatchNothing(t)
  <2>1. CmdInv'
    BY <1>4, DoneInv DEF MatchNothing
  <2> QED
    BY <1>4, <2>1, Frames DEF MatchNothing
<1>5. CASE CreateLedger(t)
  <2>1. CmdInv'
    BY <1>5, GotoInv DEF CreateLedger, AfterOpen, PCs, Ops, CmdInv, CommandShape
  <2>2. FilesInv'
    BY <1>5, NewFiles DEF CreateLedger, FilesInv
  <2> QED
    BY <1>5, <2>1, <2>2, Frames DEF CreateLedger
<1>6. CASE OpenLedger(t)
  <2>1. CmdInv'
    BY <1>6, OpenCmd, PutInv DEF OpenLedger
  <2> QED
    BY <1>6, <2>1, Frames DEF OpenLedger
<1>7. CASE OpenLedgerFails(t)
  <2>1. CmdInv'
    BY <1>7, DoneInv DEF OpenLedgerFails
  <2> QED
    BY <1>7, <2>1, Frames DEF OpenLedgerFails
<1>8. CASE WriteJournalTmp(t)
  <2>1. CmdInv'
    BY <1>8, GotoInv DEF WriteJournalTmp, PCs, Ops, CmdInv, CommandShape
  <2>2. JournalInv'
    BY <1>8 DEF WriteJournalTmp, JournalInv, EntryOf, Entry, EntryShape, CmdInv, CommandShape, Command
  <2> QED
    BY <1>8, <2>1, <2>2, Frames DEF WriteJournalTmp
<1>9. CASE RenameJournalTmp(t)
  <2>1. CmdInv'
    BY <1>9, GotoInv DEF RenameJournalTmp, PCs, Ops, CmdInv, CommandShape
  <2>2. JournalInv'
    BY <1>9 DEF RenameJournalTmp, JournalInv, EntryShape
  <2> QED
    BY <1>9, <2>1, <2>2, Frames DEF RenameJournalTmp
<1>10. CASE JournalWriteFails(t)
  <2>1. CmdInv'
    BY <1>10, GotoInv, DoneInv DEF JournalWriteFails, PCs, Ops, CmdInv, CommandShape
  <2> QED
    BY <1>10, <2>1, Frames DEF JournalWriteFails
<1> QED
  BY <1>1, <1>2, <1>3, <1>4, <1>5, <1>6, <1>7, <1>8, <1>9, <1>10

\* The transactions keep the types.
LEMMA TypeTransactions ==
  ASSUME TypeInv, NEW t \in Threads,
         \/ TxActivate(t) \/ TxRevoke(t) \/ TxBurn(t)
         \/ TxBurnRejected(t) \/ TxLegacy(t) \/ TxFails(t)
  PROVE  TypeInv'
<1> USE DEF diskVars, dbVars, ramVars, jVars, bounds, TypeInv, At
<1>1. CASE TxActivate(t)
  <2>1. CmdInv'
    BY <1>1, GotoInv DEF TxActivate, PCs, Ops, CmdInv, CommandShape
  <2>2. EventOf(cmd[t]) \in Event
    BY <1>1, EventOfType DEF TxActivate, CmdInv, CommandShape, Command, Ops
  <2>3. DbInv'
    BY <1>1, <2>2 DEF TxActivate, Commit, DbInv, CmdInv, CommandShape, Command, NoRows, Batches
  <2> QED
    BY <1>1, <2>1, <2>2, <2>3, Frames DEF TxActivate
<1>2. CASE TxRevoke(t)
  <2>1. CmdInv'
    BY <1>2, GotoInv DEF TxRevoke, PCs, Ops, CmdInv, CommandShape
  <2>2. EventOf(cmd[t]) \in Event
    BY <1>2, EventOfType DEF TxRevoke, CmdInv, CommandShape, Command, Ops
  <2>3. DbInv'
    BY <1>2, <2>2 DEF TxRevoke, Commit, DbInv, CmdInv, CommandShape, Command, NoRows, Batches
  <2> QED
    BY <1>2, <2>1, <2>2, <2>3, Frames DEF TxRevoke
<1>3. CASE TxBurn(t)
  <2>1. CmdInv'
    BY <1>3, GotoInv DEF TxBurn, PCs, Ops, CmdInv, CommandShape
  <2>2. EventOf(cmd[t]) \in Event
    BY <1>3, EventOfType DEF TxBurn, CmdInv, CommandShape, Command, Ops
  <2>3. DbInv'
    <3> DEFINE a == cmd[t].acct
               c == cmd[t].row.code
    <3>1. a \in Accounts /\ cmd[t].row \in Rows
      BY <1>3 DEF TxBurn, CmdInv, CommandShape
    <3>2. c \in Codes
      BY <3>1 DEF Rows
    <3>3. rows' = [rows EXCEPT ![a].used = rows[a].used \cup {c}]
      BY <1>3, <3>1 DEF TxBurn, DbInv
    <3> HIDE DEF a, c
    <3>4. /\ rows' \in [Accounts -> [batch : Batches \cup {NoBatch}, gen : Nat, used : SUBSET Codes]]
          /\ \A b \in Accounts : rows'[b].batch = rows[b].batch /\ rows'[b].gen = rows[b].gen
      BY <3>1, <3>2, <3>3 DEF DbInv
    <3>5. committed' \in SUBSET Event
      BY <1>3, <2>2 DEF TxBurn, Commit, DbInv
    <3> QED
      BY <1>3, <3>4, <3>5 DEF TxBurn, DbInv
  <2> QED
    BY <1>3, <2>1, <2>2, <2>3, Frames DEF TxBurn
<1>4. CASE TxBurnRejected(t)
  <2>1. CmdInv'
    BY <1>4, DoneInv DEF TxBurnRejected
  <2>2. JournalInv'
    BY <1>4, FinalizeInv DEF TxBurnRejected
  <2> QED
    BY <1>4, <2>1, <2>2, Frames DEF TxBurnRejected
<1>5. CASE TxLegacy(t)
  <2>1. CmdInv'
    BY <1>5, GotoInv DEF TxLegacy, PCs, Ops, CmdInv, CommandShape
  <2>2. EventOf(cmd[t]) \in Event
    BY <1>5, EventOfType DEF TxLegacy, CmdInv, CommandShape, Command, Ops
  <2>3. DbInv'
    BY <1>5, <2>2 DEF TxLegacy, Commit, DbInv, CmdInv, CommandShape, Command, NoRows, Batches
  <2> QED
    BY <1>5, <2>1, <2>2, <2>3, Frames DEF TxLegacy
<1>6. CASE TxFails(t)
  <2>1. CmdInv'
    BY <1>6, DoneInv DEF TxFails
  <2>2. JournalInv'
    BY <1>6, FinalizeInv, Frames DEF TxFails
  <2> QED
    BY <1>6, <2>1, <2>2, Frames DEF TxFails
<1> QED
  BY <1>1, <1>2, <1>3, <1>4, <1>5, <1>6

\* The steps after the transaction keep the types.
LEMMA TypeAfterTx ==
  ASSUME TypeInv, NEW t \in Threads,
         \/ AppendBlock(t) \/ AppendFails(t) \/ CopyToMirror(t)
         \/ RenameMirror(t) \/ Finalize(t) \/ DropPending(t)
  PROVE  TypeInv'
<1> USE DEF diskVars, dbVars, ramVars, jVars, bounds, TypeInv, At
<1>1. CASE AppendBlock(t)
  <2>1. CmdInv'
    BY <1>1, GotoInv DEF AppendBlock, PCs, Ops, CmdInv, CommandShape
  <2>2. EventOf(cmd[t]) \in Event
    BY <1>1, EventOfType DEF AppendBlock, CmdInv, CommandShape, Command, Ops
  <2>3. FilesInv'
    BY <1>1, <2>2, ExtendType DEF AppendBlock, FilesInv, CmdInv, Command
  <2> QED
    BY <1>1, <2>1, <2>2, <2>3, Frames DEF AppendBlock
<1>2. CASE AppendFails(t)
  <2>1. CmdInv'
    BY <1>2, GotoInv, DoneInv DEF AppendFails, PCs, Ops, CmdInv, CommandShape
  <2>2. EventOf(cmd[t]) \in Event /\ cmd[t].handle \in Seq(Event)
    BY <1>2, EventOfType DEF AppendFails, CmdInv, CommandShape, Command, Ops
  <2>3. Extend(ledger, cmd[t].handle, EventOf(cmd[t])) \in File(Event)
    BY <2>2, ExtendType DEF FilesInv
  <2>4. FilesInv'
    BY <1>2, <2>3 DEF AppendFails, FilesInv, File
  <2> QED
    BY <1>2, <2>1, <2>4, Frames DEF AppendFails
<1>3. CASE CopyToMirror(t)
  <2>1. CmdInv'
    BY <1>3, GotoInv, DoneInv DEF CopyToMirror, AfterMirror, PCs, Ops, CmdInv, CommandShape
  <2>2. FilesInv'
    BY <1>3 DEF CopyToMirror, FilesInv
  <2> QED
    BY <1>3, <2>1, <2>2, Frames DEF CopyToMirror
<1>4. CASE RenameMirror(t)
  <2>1. CmdInv'
    BY <1>4, GotoInv, DoneInv DEF RenameMirror, AfterMirror, PCs, Ops, CmdInv, CommandShape
  <2>2. FilesInv'
    BY <1>4, NewFiles DEF RenameMirror, FilesInv
  <2> QED
    BY <1>4, <2>1, <2>2, Frames DEF RenameMirror
<1>5. CASE Finalize(t)
  <2>1. CmdInv'
    BY <1>5, GotoInv, DoneInv DEF Finalize, PCs, Ops, CmdInv, CommandShape
  <2>2. JournalInv'
    BY <1>5, FinalizeInv DEF Finalize
  <2> QED
    BY <1>5, <2>1, <2>2, Frames DEF Finalize
<1>6. CASE DropPending(t)
  <2>1. CmdInv'
    BY <1>6, DoneInv DEF DropPending
  <2>2. RamInv'
    BY <1>6 DEF DropPending, RamInv, NoPending
  <2> QED
    BY <1>6, <2>1, <2>2, Frames DEF DropPending
<1> QED
  BY <1>1, <1>2, <1>3, <1>4, <1>5, <1>6

\* A crash, a start, the reconciler and the USB drive keep the types.
LEMMA TypeBoot ==
  ASSUME TypeInv, Crash \/ Start \/ Reconcile \/ UsbChanges
  PROVE  TypeInv'
<1> USE DEF diskVars, dbVars, ramVars, jVars, bounds, TypeInv, At
<1>1. CASE Crash
  <2>1. CmdInv'
    BY <1>1, IdleCommand DEF Crash, CmdInv
  <2>2. BootInv'
    BY <1>1, EmptySeq DEF Crash, BootInv, BootPCs
  <2>3. RamInv'
    BY <1>1 DEF Crash, RamInv, NoPending
  <2>4. FilesInv'
    BY <1>1 DEF Crash, FilesInv, File
  <2>5. BoundsInv'
    BY <1>1 DEF Crash, BoundsInv
  <2> QED
    BY <1>1, <2>1, <2>2, <2>3, <2>4, <2>5, Frames DEF Crash
<1>2. CASE Start
  <2>1. BootInv'
    BY <1>2, EmptySeq DEF Start, BootTo, BootInv, BootPCs
  <2> QED
    BY <1>2, <2>1, Frames DEF Start, BootTo
<1>3. CASE ReconcileNothing
  <2>1. BootInv'
    BY <1>3, EmptySeq DEF ReconcileNothing, BootTo, BootInv, BootPCs
  <2>2. JournalInv'
    BY <1>3, FinalizeInv DEF ReconcileNothing, BootTo, JournalInv, EntryShape
  <2> QED
    BY <1>3, <2>1, <2>2, Frames DEF ReconcileNothing, BootTo
<1>4. CASE ReconcileGivesUp
  <2>1. BootInv'
    BY <1>4, EmptySeq DEF ReconcileGivesUp, BootTo, BootInv, BootPCs
  <2> QED
    BY <1>4, <2>1, Frames DEF ReconcileGivesUp, BootTo
<1>5. CASE ReconcileOpen
  <2>1. BootInv'
    BY <1>5, ChainType DEF ReconcileOpen, BootTo, BootInv, BootPCs
  <2> QED
    BY <1>5, <2>1, Frames DEF ReconcileOpen, BootTo
<1>6. CASE ReconcileAppend
  <2>1. BootInv'
    BY <1>6, EmptySeq DEF ReconcileAppend, BootTo, BootInv, BootPCs
  <2>2. EventOf(journal) \in Event
    BY <1>6, EventOfType DEF ReconcileAppend, BootTo, BootInv, JournalInv, Entry, Ops
  <2>3. FilesInv'
    BY <1>6, <2>2, ExtendType DEF ReconcileAppend, BootTo, FilesInv, BootInv
  <2> QED
    BY <1>6, <2>1, <2>2, <2>3, Frames DEF ReconcileAppend, BootTo
<1>7. CASE ReconcileAppendFails
  <2>1. BootInv'
    BY <1>7, EmptySeq DEF ReconcileAppendFails, BootTo, BootInv, BootPCs
  <2>2. EventOf(journal) \in Event /\ boot.handle \in Seq(Event)
    BY <1>7, EventOfType DEF ReconcileAppendFails, BootInv, JournalInv, Entry, Ops
  <2>3. Extend(ledger, boot.handle, EventOf(journal)) \in File(Event)
    BY <2>2, ExtendType DEF FilesInv
  <2>4. FilesInv'
    BY <1>7, <2>3 DEF ReconcileAppendFails, BootTo, FilesInv, File
  <2> QED
    BY <1>7, <2>1, <2>4, Frames DEF ReconcileAppendFails, BootTo
<1>8. CASE ReconcileCopy
  <2>1. BootInv'
    <3>1. \/ boot' = [pc |-> "copyRename", handle |-> << >>]
          \/ boot' = [pc |-> "finalize", handle |-> << >>]
      BY <1>8 DEF ReconcileCopy, BootTo
    <3>2. [pc |-> "copyRename", handle |-> << >>] \in [pc : BootPCs, handle : Seq(Event)]
      BY EmptySeq DEF BootPCs
    <3>3. [pc |-> "finalize", handle |-> << >>] \in [pc : BootPCs, handle : Seq(Event)]
      BY EmptySeq DEF BootPCs
    <3>4. boot' \in [pc : BootPCs, handle : Seq(Event)]
      BY <3>1, <3>2, <3>3, Zenon
    <3>5. CASE boot' = [pc |-> "copyRename", handle |-> << >>]
      BY <3>4, <3>5 DEF BootInv
    <3>6. CASE boot' = [pc |-> "finalize", handle |-> << >>]
      BY <3>4, <3>6 DEF BootInv
    <3> QED
      BY <3>1, <3>5, <3>6
  <2>2. FilesInv'
    BY <1>8 DEF ReconcileCopy, BootTo, FilesInv
  <2> QED
    BY <1>8, <2>1, <2>2, Frames DEF ReconcileCopy, BootTo
<1>9. CASE ReconcileRename
  <2>1. BootInv'
    BY <1>9, EmptySeq DEF ReconcileRename, BootTo, BootInv, BootPCs
  <2>2. FilesInv'
    BY <1>9, NewFiles DEF ReconcileRename, BootTo, FilesInv
  <2> QED
    BY <1>9, <2>1, <2>2, Frames DEF ReconcileRename, BootTo
<1>10. CASE ReconcileFinalize
  <2>1. BootInv'
    BY <1>10, EmptySeq DEF ReconcileFinalize, BootTo, BootInv, BootPCs
  <2>2. JournalInv'
    BY <1>10, FinalizeInv DEF ReconcileFinalize, BootTo
  <2> QED
    BY <1>10, <2>1, <2>2, Frames DEF ReconcileFinalize, BootTo
<1>11. CASE UsbChanges
  <2>1. FilesInv'
    BY <1>11 DEF UsbChanges, FilesInv
  <2> QED
    BY <1>11, <2>1, Frames DEF UsbChanges
<1> QED
  BY <1>1, <1>2, <1>3, <1>4, <1>5, <1>6, <1>7, <1>8, <1>9, <1>10, <1>11 DEF Reconcile

\* Every step keeps the types.
LEMMA TypeStep == TypeInv /\ [Next]_vars => TypeInv'
<1> SUFFICES ASSUME TypeInv, [Next]_vars
             PROVE  TypeInv'
  OBVIOUS
<1>1. ASSUME NEW a \in Accounts, Generate(a) \/ Cancel(a) \/ Expire(a)
      PROVE  TypeInv'
  BY <1>1, TypePending
<1>2. ASSUME NEW t \in Threads, Begin(t)
      PROVE  TypeInv'
  BY <1>2, TypeBegin DEF Begin
<1>3. ASSUME NEW t \in Threads, Step(t)
      PROVE  TypeInv'
  BY <1>3, TypeToJournal, TypeTransactions, TypeAfterTx DEF Step
<1>4. CASE Crash \/ Start \/ Reconcile \/ UsbChanges
  BY <1>4, TypeBoot
<1>5. CASE UNCHANGED vars
  BY <1>5, Frames DEF TypeInv, vars, diskVars, dbVars, ramVars, jVars, bounds
<1> QED
  BY <1>1, <1>2, <1>3, <1>4, <1>5 DEF Next

\* The initial state has the types.
LEMMA TypeInit == Init => TypeInv
<1> SUFFICES ASSUME Init
             PROVE  TypeInv
  OBVIOUS
<1>1. FilesInv
  BY NewFiles DEF Init, FilesInv
<1>2. DbInv
  BY DEF Init, DbInv, NoRows
<1>3. RamInv
  BY ConstantsOK DEF Init, RamInv, NoPending
<1>4. JournalInv
  BY DEF Init, JournalInv, EntryShape
<1>5. CmdInv
  BY IdleCommand DEF Init, CmdInv
<1>6. BootInv
  <2>1. [pc |-> "up", handle |-> << >>] \in [pc : BootPCs, handle : Seq(Event)]
    BY EmptySeq DEF BootPCs
  <2>2. boot.pc = "up"
    BY DEF Init
  <2> QED
    BY <2>1, <2>2 DEF Init, BootInv
<1>7. BoundsInv
  BY DEF Init, BoundsInv
<1> QED
  BY <1>1, <1>2, <1>3, <1>4, <1>5, <1>6, <1>7 DEF TypeInv

\* All types, with the shapes of commands and journal entries.
LEMMA TypeInvariant == Spec => []TypeInv
<1> QED
  BY TypeInit, TypeStep, PTL DEF Spec

\* Type correctness: every variable of the recovery-code commands, the journal
\* and the reconciler keeps its type in every behaviour.
THEOREM TypeCorrect == Spec => []TypeOK
<1>1. TypeInv => TypeOK
  BY DEF TypeInv, FilesInv, DbInv, RamInv, JournalInv, CmdInv, BootInv, BoundsInv, TypeOK
<1> QED
  BY <1>1, TypeInvariant, PTL

-----------------------------------------------------------------------------
(* The ledger never runs ahead of the database. *)

\* What a step leaves alone stays explained.
LEMMA RecordFrames ==
  /\ NoPhantomRecords /\ ledger' = ledger /\ committed \subseteq committed'
       => NoPhantomRecords'
  /\ ThreadsExplained /\ cmd' = cmd /\ committed \subseteq committed'
       => ThreadsExplained'
  /\ BootExplained /\ boot.pc = "up" /\ boot' = boot => BootExplained'
  /\ BootExplained /\ UNCHANGED <<boot, journal>> /\ committed \subseteq committed'
       => BootExplained'
  /\ boot'.pc # "append" => BootExplained'
  /\ RowsExplained /\ UNCHANGED rows /\ committed \subseteq committed' => RowsExplained'
<1>1. NoPhantomRecords /\ ledger' = ledger /\ committed \subseteq committed'
        => NoPhantomRecords'
  BY DEF NoPhantomRecords
<1>2. ThreadsExplained /\ cmd' = cmd /\ committed \subseteq committed' => ThreadsExplained'
  BY DEF ThreadsExplained
<1>3. /\ BootExplained /\ boot.pc = "up" /\ boot' = boot => BootExplained'
      /\ BootExplained /\ UNCHANGED <<boot, journal>> /\ committed \subseteq committed'
           => BootExplained'
      /\ boot'.pc # "append" => BootExplained'
  BY DEF BootExplained
<1>4. RowsExplained /\ UNCHANGED rows /\ committed \subseteq committed' => RowsExplained'
  BY DEF RowsExplained, ActivatedEvent, BurnedEvent
<1> QED
  BY <1>1, <1>2, <1>3, <1>4

\* An open or a torn block adds no event.
LEMMA SameEvents ==
  ASSUME FilesInv
  PROVE  /\ EventsIn([ledger EXCEPT !.torn = TRUE]) = EventsIn(ledger)
         /\ EventsIn(NewFile) = {}
<1>1. [ledger EXCEPT !.torn = TRUE].blocks = ledger.blocks
  BY DEF FilesInv, File
<1>2. NewFile.blocks = << >> /\ Len(NewFile.blocks) = 0
  BY DEF NewFile
<1> QED
  BY <1>1, <1>2 DEF EventsIn

\* A thread whose command becomes d: d is explained if it is past its transaction.
LEMMA PutExplained ==
  ASSUME CmdInv, ThreadsExplained, NEW t \in Threads, NEW d,
         cmd' = [cmd EXCEPT ![t] = d],
         committed \subseteq committed',
         PastTx(d) => EventOf(d) \in committed'
  PROVE  ThreadsExplained'
<1> QED
  BY DEF CmdInv, ThreadsExplained

\* Moving on within a command keeps what explains its block.
LEMMA GotoExplained ==
  ASSUME CmdInv, ThreadsExplained, NEW t \in Threads, NEW p, Goto(t, p),
         committed \subseteq committed',
         (p \in {"mark", "markRename", "append"} \/ (p = "open" /\ cmd[t].op = "legacy"))
           => EventOf(cmd[t]) \in committed'
  PROVE  ThreadsExplained'
<1> DEFINE d == [cmd[t] EXCEPT !.pc = p]
<1>1. /\ d.pc = p /\ d.op = cmd[t].op /\ d.acct = cmd[t].acct
      /\ d.batch = cmd[t].batch /\ d.row = cmd[t].row
  BY DEF CmdInv, Command
<1>2. cmd' = [cmd EXCEPT ![t] = d]
  BY DEF Goto
<1> HIDE DEF d
<1>3. EventOf(d) = EventOf(cmd[t])
  BY <1>1 DEF EventOf
<1>4. PastTx(d) => EventOf(d) \in committed'
  BY <1>1, <1>3 DEF PastTx
<1> QED
  BY <1>2, <1>4, PutExplained

\* Ending a command does, too.
LEMMA DoneExplained ==
  ASSUME CmdInv, ThreadsExplained, NEW t \in Threads, Done(t),
         committed \subseteq committed'
  PROVE  ThreadsExplained'
<1>1. ~PastTx(Idle)
  BY DEF PastTx, Idle
<1> QED
  BY <1>1, PutExplained DEF Done

\* The start of a command, its lookup, the open and the journal record nothing.
LEMMA RecordToJournal ==
  ASSUME RecordInv, NEW t \in Threads,
         \/ Gate(t) \/ MatchBatchCode(t) \/ MatchLegacy(t) \/ MatchNothing(t)
         \/ CreateLedger(t) \/ OpenLedger(t) \/ OpenLedgerFails(t)
         \/ WriteJournalTmp(t) \/ RenameJournalTmp(t) \/ JournalWriteFails(t)
  PROVE  (NoPhantomRecords /\ ThreadsExplained /\ BootExplained /\ RowsExplained)'
<1> USE DEF diskVars, dbVars, ramVars, jVars, bounds, TypeInv, At, RecordInv
<1>1. CASE Gate(t)
  <2>1. ThreadsExplained'
    BY <1>1, GotoExplained, DoneExplained DEF Gate
  <2> QED
    BY <1>1, <2>1, RecordFrames DEF Gate
<1>2. CASE MatchBatchCode(t)
  <2>1. ThreadsExplained'
    BY <1>2, MatchCmd, PutExplained DEF MatchBatchCode, PastTx
  <2> QED
    BY <1>2, <2>1, RecordFrames DEF MatchBatchCode
<1>3. CASE MatchLegacy(t)
  <2>1. ThreadsExplained'
    BY <1>3, MatchCmd, PutExplained DEF MatchLegacy, PastTx
  <2> QED
    BY <1>3, <2>1, RecordFrames DEF MatchLegacy
<1>4. CASE MatchNothing(t)
  <2>1. ThreadsExplained'
    BY <1>4, GotoExplained, DoneExplained DEF MatchNothing
  <2> QED
    BY <1>4, <2>1, RecordFrames DEF MatchNothing
<1>5. CASE CreateLedger(t)
  <2>1. ThreadsExplained'
    BY <1>5, GotoExplained DEF CreateLedger, AfterOpen
  <2>2. NoPhantomRecords'
    BY <1>5, SameEvents DEF CreateLedger, NoPhantomRecords
  <2> QED
    BY <1>5, <2>1, <2>2, RecordFrames DEF CreateLedger
<1>6. CASE OpenLedger(t)
  <2>1. ThreadsExplained'
    <3>1. PICK d \in Command :
            /\ cmd' = [cmd EXCEPT ![t] = d]
            /\ d.pc = AfterOpen(cmd[t].op)
            /\ d.op = cmd[t].op /\ d.acct = cmd[t].acct
            /\ d.batch = cmd[t].batch /\ d.row = cmd[t].row
      BY <1>6, OpenCmd, Zenon
    <3>2. cmd[t].pc = "open" /\ cmd[t].op \in Ops
      BY <1>6 DEF OpenLedger, CmdInv, CommandShape
    <3>3. EventOf(d) = EventOf(cmd[t])
      BY <3>1 DEF EventOf
    <3>4. PastTx(d) => PastTx(cmd[t])
      BY <3>1, <3>2 DEF PastTx, AfterOpen, Ops
    <3> QED
      BY <1>6, <3>1, <3>3, <3>4, PutExplained DEF OpenLedger, ThreadsExplained
  <2> QED
    BY <1>6, <2>1, RecordFrames DEF OpenLedger
<1>7. CASE OpenLedgerFails(t)
  <2>1. ThreadsExplained'
    BY <1>7, GotoExplained, DoneExplained DEF OpenLedgerFails
  <2> QED
    BY <1>7, <2>1, RecordFrames DEF OpenLedgerFails
<1>8. CASE WriteJournalTmp(t)
  <2>1. ThreadsExplained'
    BY <1>8, GotoExplained, DoneExplained DEF WriteJournalTmp, ThreadsExplained, PastTx
  <2> QED
    BY <1>8, <2>1, RecordFrames DEF WriteJournalTmp
<1>9. CASE RenameJournalTmp(t)
  <2>1. ThreadsExplained'
    BY <1>9, GotoExplained, DoneExplained DEF RenameJournalTmp, ThreadsExplained, PastTx
  <2> QED
    BY <1>9, <2>1, RecordFrames DEF RenameJournalTmp
<1>10. CASE JournalWriteFails(t)
  <2>1. ThreadsExplained'
    BY <1>10, GotoExplained, DoneExplained DEF JournalWriteFails, ThreadsExplained, PastTx
  <2> QED
    BY <1>10, <2>1, RecordFrames DEF JournalWriteFails
<1> QED
  BY <1>1, <1>2, <1>3, <1>4, <1>5, <1>6, <1>7, <1>8, <1>9, <1>10

\* A transaction explains the rows it writes, and its own command.
LEMMA RecordTransactions ==
  ASSUME RecordInv, NEW t \in Threads,
         \/ TxActivate(t) \/ TxRevoke(t) \/ TxBurn(t)
         \/ TxBurnRejected(t) \/ TxLegacy(t) \/ TxFails(t)
  PROVE  (NoPhantomRecords /\ ThreadsExplained /\ BootExplained /\ RowsExplained)'
<1> USE DEF diskVars, dbVars, ramVars, jVars, bounds, TypeInv, At, RecordInv
<1>1. CASE TxActivate(t)
  <2>1. committed' = committed \cup {EventOf(cmd[t])}
    BY <1>1 DEF TxActivate, Commit
  <2>2. ThreadsExplained'
    BY <1>1, <2>1, GotoExplained DEF TxActivate
  <2>3. RowsExplained'
    <3>1. PICK a \in Accounts : a = cmd[t].acct /\ cmd[t].row = NoRow
      BY <1>1 DEF TxActivate, CmdInv, CommandShape
    <3>2. /\ \A b \in Accounts : b # a => rows'[b] = rows[b]
          /\ rows'[a].batch = cmd[t].batch /\ rows'[a].used = {}
      BY <1>1, <3>1 DEF TxActivate, DbInv
    <3>3. ActivatedEvent(a)' = EventOf(cmd[t])
      BY <1>1, <3>1, <3>2 DEF TxActivate, ActivatedEvent, EventOf, EventType
    <3>4. \A b \in Accounts : b # a =>
            /\ rows'[b].batch # NoBatch => ActivatedEvent(b)' \in committed
            /\ \A c \in rows'[b].used : BurnedEvent(b, c)' \in committed
      BY <3>2 DEF RowsExplained, ActivatedEvent, BurnedEvent
    <3> QED
      BY <2>1, <3>2, <3>3, <3>4 DEF RowsExplained
  <2> QED
    BY <1>1, <2>1, <2>2, <2>3, RecordFrames DEF TxActivate
<1>2. CASE TxRevoke(t)
  <2>1. committed' = committed \cup {EventOf(cmd[t])}
    BY <1>2 DEF TxRevoke, Commit
  <2>2. ThreadsExplained'
    BY <1>2, <2>1, GotoExplained DEF TxRevoke
  <2>3. RowsExplained'
    <3> DEFINE a == cmd[t].acct
    <3>1. a \in Accounts
      BY <1>2 DEF TxRevoke, CmdInv, CommandShape
    <3>2. /\ \A b \in Accounts : b # a => rows'[b] = rows[b]
          /\ rows'[a].batch = NoBatch /\ rows'[a].used = {}
      BY <1>2, <3>1 DEF TxRevoke, DbInv, NoRows
    <3>3. \A b \in Accounts : b # a =>
            /\ rows'[b].batch # NoBatch => ActivatedEvent(b)' \in committed
            /\ \A c \in rows'[b].used : BurnedEvent(b, c)' \in committed
      BY <3>2 DEF RowsExplained, ActivatedEvent, BurnedEvent
    <3> QED
      BY <2>1, <3>2, <3>3 DEF RowsExplained
  <2> QED
    BY <1>2, <2>1, <2>2, <2>3, RecordFrames DEF TxRevoke
<1>3. CASE TxBurn(t)
  <2>1. committed' = committed \cup {EventOf(cmd[t])}
    BY <1>3 DEF TxBurn, Commit
  <2>2. ThreadsExplained'
    BY <1>3, <2>1, GotoExplained DEF TxBurn
  <2>3. RowsExplained'
    <3> DEFINE a == cmd[t].acct
    <3>1. a \in Accounts /\ cmd[t].row \in Rows
      BY <1>3 DEF TxBurn, CmdInv, CommandShape
    <3>2. /\ \A b \in Accounts : rows'[b].batch = rows[b].batch /\ rows'[b].gen = rows[b].gen
          /\ \A b \in Accounts : b # a => rows'[b].used = rows[b].used
          /\ rows'[a].used = rows[a].used \cup {cmd[t].row.code}
      BY <1>3, <3>1 DEF TxBurn, DbInv
    <3>3. BurnedEvent(a, cmd[t].row.code) = EventOf(cmd[t])
      <4>1. rows[a].batch = cmd[t].batch /\ rows[a].gen = cmd[t].row.gen
        BY <1>3 DEF TxBurn, Unconsumed, HasRow
      <4>2. cmd[t].row = [gen |-> cmd[t].row.gen, code |-> cmd[t].row.code]
        BY <3>1 DEF Rows
      <4> QED
        BY <1>3, <4>1, <4>2 DEF TxBurn, BurnedEvent, EventOf, EventType
    <3>4. \A b \in Accounts : ActivatedEvent(b)' = ActivatedEvent(b)
      BY <3>2 DEF ActivatedEvent
    <3>5. \A b \in Accounts : \A c \in rows'[b].used : BurnedEvent(b, c)' = BurnedEvent(b, c)
      BY <3>2 DEF BurnedEvent
    <3>6. \A b \in Accounts : \A c \in rows'[b].used :
            BurnedEvent(b, c) \in committed \cup {EventOf(cmd[t])}
      BY <3>2, <3>3 DEF RowsExplained
    <3> QED
      BY <2>1, <3>2, <3>4, <3>5, <3>6 DEF RowsExplained
  <2> QED
    BY <1>3, <2>1, <2>2, <2>3, RecordFrames DEF TxBurn
<1>4. CASE TxBurnRejected(t)
  <2>1. ThreadsExplained'
    BY <1>4, GotoExplained, DoneExplained DEF TxBurnRejected
  <2> QED
    BY <1>4, <2>1, RecordFrames DEF TxBurnRejected
<1>5. CASE TxLegacy(t)
  <2>1. committed' = committed \cup {EventOf(cmd[t])}
    BY <1>5 DEF TxLegacy, Commit
  <2>2. ThreadsExplained'
    BY <1>5, <2>1, GotoExplained DEF TxLegacy
  <2> QED
    BY <1>5, <2>1, <2>2, RecordFrames DEF TxLegacy
<1>6. CASE TxFails(t)
  <2>1. ThreadsExplained'
    BY <1>6, GotoExplained, DoneExplained DEF TxFails
  <2> QED
    BY <1>6, <2>1, RecordFrames DEF TxFails
<1> QED
  BY <1>1, <1>2, <1>3, <1>4, <1>5, <1>6

\* A block is appended for a committed event; the rest records nothing.
LEMMA RecordAfterTx ==
  ASSUME RecordInv, NEW t \in Threads,
         \/ AppendBlock(t) \/ AppendFails(t) \/ CopyToMirror(t)
         \/ RenameMirror(t) \/ Finalize(t) \/ DropPending(t)
  PROVE  (NoPhantomRecords /\ ThreadsExplained /\ BootExplained /\ RowsExplained)'
<1> USE DEF diskVars, dbVars, ramVars, jVars, bounds, TypeInv, At, RecordInv
<1>1. CASE AppendBlock(t)
  <2>1. ThreadsExplained'
    BY <1>1, GotoExplained, DoneExplained DEF AppendBlock
  <2>2. NoPhantomRecords'
    <3>1. /\ ledger \in File(Event) /\ cmd[t].handle \in Seq(Event)
          /\ EventOf(cmd[t]) \in Event /\ EventOf(cmd[t]) \in committed
      BY <1>1 DEF AppendBlock, FilesInv, DbInv, CmdInv, Command, ThreadsExplained, PastTx
    <3>2. EventsIn(ledger') = EventsIn(ledger) \cup {EventOf(cmd[t])}
      BY <1>1, <3>1, ExtendEvents DEF AppendBlock
    <3> QED
      BY <1>1, <3>1, <3>2 DEF AppendBlock, NoPhantomRecords
  <2> QED
    BY <1>1, <2>1, <2>2, RecordFrames DEF AppendBlock
<1>2. CASE AppendFails(t)
  <2>1. ThreadsExplained'
    BY <1>2, GotoExplained, DoneExplained DEF AppendFails
  <2>2. /\ ledger \in File(Event) /\ cmd[t].handle \in Seq(Event)
        /\ EventOf(cmd[t]) \in Event /\ EventOf(cmd[t]) \in committed
    BY <1>2 DEF AppendFails, FilesInv, DbInv, CmdInv, Command, ThreadsExplained, PastTx
  <2>3. EventsIn(Extend(ledger, cmd[t].handle, EventOf(cmd[t])))
          = EventsIn(ledger) \cup {EventOf(cmd[t])}
    BY <2>2, ExtendEvents
  <2>4. NoPhantomRecords'
    BY <1>2, <2>2, <2>3, SameEvents DEF AppendFails, NoPhantomRecords
  <2> QED
    BY <1>2, <2>1, <2>4, RecordFrames DEF AppendFails
<1>3. CASE CopyToMirror(t)
  <2>1. ThreadsExplained'
    BY <1>3, GotoExplained, DoneExplained DEF CopyToMirror, AfterMirror
  <2> QED
    BY <1>3, <2>1, RecordFrames DEF CopyToMirror
<1>4. CASE RenameMirror(t)
  <2>1. ThreadsExplained'
    BY <1>4, GotoExplained, DoneExplained DEF RenameMirror, AfterMirror
  <2> QED
    BY <1>4, <2>1, RecordFrames DEF RenameMirror
<1>5. CASE Finalize(t)
  <2>1. ThreadsExplained'
    BY <1>5, GotoExplained, DoneExplained DEF Finalize
  <2> QED
    BY <1>5, <2>1, RecordFrames DEF Finalize
<1>6. CASE DropPending(t)
  <2>1. ThreadsExplained'
    BY <1>6, GotoExplained, DoneExplained DEF DropPending
  <2> QED
    BY <1>6, <2>1, RecordFrames DEF DropPending
<1> QED
  BY <1>1, <1>2, <1>3, <1>4, <1>5, <1>6

\* A crash, and the reconciler: it appends only what it found in the database.
LEMMA RecordBoot ==
  ASSUME RecordInv, Crash \/ Start \/ Reconcile \/ UsbChanges
  PROVE  (NoPhantomRecords /\ ThreadsExplained /\ BootExplained /\ RowsExplained)'
<1> USE DEF diskVars, dbVars, ramVars, jVars, bounds, TypeInv, At, RecordInv
<1>1. CASE Crash
  <2>1. boot'.pc # "append"
    BY <1>1 DEF Crash
  <2>2. ThreadsExplained'
    BY <1>1 DEF Crash, ThreadsExplained, PastTx, Idle
  <2>3. NoPhantomRecords'
    BY <1>1, SameEvents DEF Crash, NoPhantomRecords
  <2> QED
    BY <1>1, <2>1, <2>2, <2>3, RecordFrames DEF Crash
<1>2. CASE Start
  <2>1. boot'.pc # "append"
    BY <1>2 DEF Start, BootTo
  <2> QED
    BY <1>2, <2>1, RecordFrames DEF Start, BootTo
<1>3. CASE ReconcileNothing
  <2>1. boot'.pc # "append"
    BY <1>3 DEF ReconcileNothing, BootTo
  <2> QED
    BY <1>3, <2>1, RecordFrames DEF ReconcileNothing, BootTo
<1>4. CASE ReconcileGivesUp
  <2>1. boot'.pc # "append"
    BY <1>4 DEF ReconcileGivesUp, BootTo
  <2> QED
    BY <1>4, <2>1, RecordFrames DEF ReconcileGivesUp, BootTo
<1>5. CASE ReconcileOpen
  <2>1. EventOf(journal) \in committed
    <3> DEFINE a == journal.acct
    <3>1. /\ a \in Accounts /\ journal.batch \in Batches
          /\ \/ journal.op = "activate" /\ journal.row = NoRow
             \/ journal.op = "burn" /\ journal.row \in Rows
      BY <1>5 DEF ReconcileOpen, BootTo, JournalInv, Entry, EntryShape
    <3>2. CASE journal.op = "activate"
      <4>1. rows[a].batch = journal.batch /\ journal.row = NoRow /\ rows[a].batch # NoBatch
        BY <1>5, <3>1, <3>2 DEF ReconcileOpen, BootTo, IsDbCommitted, Batches, NoBatch
      <4>2. EventOf(journal) = ActivatedEvent(a)
        BY <3>2, <4>1 DEF EventOf, EventType, ActivatedEvent
      <4> QED
        BY <3>1, <4>1, <4>2 DEF RowsExplained
    <3>3. CASE journal.op = "burn"
      <4>1. /\ rows[a].batch = journal.batch /\ rows[a].gen = journal.row.gen
            /\ journal.row.code \in rows[a].used
        BY <1>5, <3>3 DEF ReconcileOpen, BootTo, IsDbCommitted, HasRow
      <4>2. journal.row = [gen |-> journal.row.gen, code |-> journal.row.code]
        BY <3>1, <3>3 DEF Rows
      <4>3. EventOf(journal) = BurnedEvent(a, journal.row.code)
        BY <3>3, <4>1, <4>2 DEF EventOf, EventType, BurnedEvent
      <4> QED
        BY <3>1, <4>1, <4>3 DEF RowsExplained
    <3> QED
      BY <3>1, <3>2, <3>3
  <2>2. BootExplained'
    BY <1>5, <2>1 DEF ReconcileOpen, BootTo, BootExplained, EventOf
  <2> QED
    BY <1>5, <2>1, <2>2, RecordFrames DEF ReconcileOpen, BootTo
<1>6. CASE ReconcileAppend
  <2>1. boot'.pc # "append"
    BY <1>6 DEF ReconcileAppend, BootTo
  <2>2. NoPhantomRecords'
    <3>1. /\ ledger \in File(Event) /\ boot.handle \in Seq(Event)
          /\ EventOf(journal) \in Event /\ EventOf(journal) \in committed
      BY <1>6 DEF ReconcileAppend, BootTo, FilesInv, DbInv, BootInv, BootExplained
    <3>2. EventsIn(ledger') = EventsIn(ledger) \cup {EventOf(journal)}
      BY <1>6, <3>1, ExtendEvents DEF ReconcileAppend, BootTo
    <3> QED
      BY <1>6, <3>1, <3>2 DEF ReconcileAppend, BootTo, NoPhantomRecords
  <2> QED
    BY <1>6, <2>1, <2>2, RecordFrames DEF ReconcileAppend, BootTo
<1>7. CASE ReconcileAppendFails
  <2>1. boot'.pc # "append"
    BY <1>7 DEF ReconcileAppendFails, BootTo
  <2>2. /\ ledger \in File(Event) /\ boot.handle \in Seq(Event)
        /\ EventOf(journal) \in Event /\ EventOf(journal) \in committed
    BY <1>7 DEF ReconcileAppendFails, FilesInv, DbInv, BootInv, BootExplained
  <2>3. EventsIn(Extend(ledger, boot.handle, EventOf(journal)))
          = EventsIn(ledger) \cup {EventOf(journal)}
    BY <2>2, ExtendEvents
  <2>4. NoPhantomRecords'
    BY <1>7, <2>2, <2>3, SameEvents DEF ReconcileAppendFails, BootTo, NoPhantomRecords
  <2> QED
    BY <1>7, <2>1, <2>4, RecordFrames DEF ReconcileAppendFails, BootTo
<1>8. CASE ReconcileCopy
  <2>1. boot'.pc # "append"
    <3>1. \/ boot' = [pc |-> "copyRename", handle |-> << >>]
          \/ boot' = [pc |-> "finalize", handle |-> << >>]
      BY <1>8 DEF ReconcileCopy, BootTo
    <3> QED
      BY <3>1
  <2> QED
    BY <1>8, <2>1, RecordFrames DEF ReconcileCopy, BootTo
<1>9. CASE ReconcileRename
  <2>1. boot'.pc # "append"
    BY <1>9 DEF ReconcileRename, BootTo
  <2> QED
    BY <1>9, <2>1, RecordFrames DEF ReconcileRename, BootTo
<1>10. CASE ReconcileFinalize
  <2>1. boot'.pc # "append"
    BY <1>10 DEF ReconcileFinalize, BootTo
  <2> QED
    BY <1>10, <2>1, RecordFrames DEF ReconcileFinalize, BootTo
<1>11. CASE UsbChanges
  BY <1>11, RecordFrames DEF UsbChanges
<1> QED
  BY <1>1, <1>2, <1>3, <1>4, <1>5, <1>6, <1>7, <1>8, <1>9, <1>10, <1>11 DEF Reconcile

\* Handling the pending batches records nothing.
LEMMA RecordPending ==
  ASSUME RecordInv, NEW a \in Accounts, Generate(a) \/ Cancel(a) \/ Expire(a)
  PROVE  (NoPhantomRecords /\ ThreadsExplained /\ BootExplained /\ RowsExplained)'
<1> USE DEF diskVars, dbVars, ramVars, jVars, bounds, TypeInv, At, RecordInv
<1>1. CASE Generate(a)
  BY <1>1, RecordFrames DEF Generate
<1>2. CASE Cancel(a)
  BY <1>2, RecordFrames DEF Cancel
<1>3. CASE Expire(a)
  BY <1>3, RecordFrames DEF Expire
<1> QED
  BY <1>1, <1>2, <1>3

\* Starting a command records nothing.
LEMMA RecordBegin ==
  ASSUME RecordInv, NEW t \in Threads, NEW a \in Accounts,
         \/ BeginActivate(t, a) \/ RejectExpired(t, a)
         \/ BeginRevoke(t, a) \/ BeginForgot(t, a)
  PROVE  (NoPhantomRecords /\ ThreadsExplained /\ BootExplained /\ RowsExplained)'
<1> USE DEF diskVars, dbVars, ramVars, jVars, bounds, TypeInv, At, RecordInv
<1>1. CASE BeginActivate(t, a)
  <2>1. ThreadsExplained'
    BY <1>1, PutExplained DEF BeginActivate, CanBegin, PastTx, Idle
  <2> QED
    BY <1>1, <2>1, RecordFrames DEF BeginActivate, CanBegin
<1>2. CASE RejectExpired(t, a)
  BY <1>2, RecordFrames DEF RejectExpired, CanBegin
<1>3. CASE BeginRevoke(t, a)
  <2>1. ThreadsExplained'
    BY <1>3, PutExplained DEF BeginRevoke, CanBegin, PastTx, Idle
  <2> QED
    BY <1>3, <2>1, RecordFrames DEF BeginRevoke, CanBegin
<1>4. CASE BeginForgot(t, a)
  <2>1. ThreadsExplained'
    BY <1>4, PutExplained DEF BeginForgot, CanBegin, PastTx, Idle
  <2> QED
    BY <1>4, <2>1, RecordFrames DEF BeginForgot, CanBegin
<1> QED
  BY <1>1, <1>2, <1>3, <1>4

\* Every step keeps each block explained by a committed transaction.
LEMMA RecordStep == RecordInv /\ [Next]_vars => RecordInv'
<1> SUFFICES ASSUME RecordInv, [Next]_vars
             PROVE  (NoPhantomRecords /\ ThreadsExplained /\ BootExplained /\ RowsExplained)'
  BY TypeStep DEF RecordInv
<1>1. ASSUME NEW a \in Accounts, Generate(a) \/ Cancel(a) \/ Expire(a)
      PROVE  (NoPhantomRecords /\ ThreadsExplained /\ BootExplained /\ RowsExplained)'
  BY <1>1, RecordPending
<1>2. ASSUME NEW t \in Threads, Begin(t)
      PROVE  (NoPhantomRecords /\ ThreadsExplained /\ BootExplained /\ RowsExplained)'
  BY <1>2, RecordBegin DEF Begin
<1>3. ASSUME NEW t \in Threads, Step(t)
      PROVE  (NoPhantomRecords /\ ThreadsExplained /\ BootExplained /\ RowsExplained)'
  BY <1>3, RecordToJournal, RecordTransactions, RecordAfterTx DEF Step
<1>4. CASE Crash \/ Start \/ Reconcile \/ UsbChanges
  BY <1>4, RecordBoot
<1>5. CASE UNCHANGED vars
  BY <1>5, RecordFrames DEF RecordInv, vars, diskVars, dbVars, ramVars, jVars, bounds
<1> QED
  BY <1>1, <1>2, <1>3, <1>4, <1>5 DEF Next

\* Every block of the ledger, written by a command or by the reconciler after a
\* crash, records a transaction that committed, however many threads run and
\* whatever fails.
THEOREM NoPhantoms == Spec => []NoPhantomRecords
<1>1. Init => RecordInv
  <2> SUFFICES ASSUME Init
               PROVE  NoPhantomRecords /\ ThreadsExplained /\ BootExplained /\ RowsExplained
    BY TypeInit DEF RecordInv
  <2>1. NoPhantomRecords
    BY DEF Init, NoPhantomRecords, EventsIn, NoFile
  <2>2. ThreadsExplained /\ BootExplained
    BY DEF Init, ThreadsExplained, PastTx, Idle, BootExplained
  <2>3. RowsExplained
    BY DEF Init, RowsExplained, NoRows
  <2> QED
    BY <2>1, <2>2, <2>3
<1>2. RecordInv => NoPhantomRecords
  BY DEF RecordInv
<1> QED
  BY <1>1, <1>2, RecordStep, PTL DEF Spec

-----------------------------------------------------------------------------
(* A row is consumed once. *)

\* Only the transactions change what the database holds.
LEMMA DbSteps ==
  ASSUME [Next]_vars
  PROVE  \/ UNCHANGED dbVars
         \/ \E t \in Threads : TxActivate(t) \/ TxRevoke(t) \/ TxBurn(t) \/ TxLegacy(t)
<1>1. ASSUME NEW a \in Accounts, Generate(a) \/ Cancel(a) \/ Expire(a)
      PROVE  UNCHANGED dbVars
  BY <1>1 DEF Generate, Cancel, Expire
<1>2. ASSUME NEW t \in Threads, Begin(t)
      PROVE  UNCHANGED dbVars
  BY <1>2 DEF Begin, BeginActivate, RejectExpired, BeginRevoke, BeginForgot
<1>3. ASSUME NEW t \in Threads, Step(t)
      PROVE  \/ UNCHANGED dbVars
             \/ TxActivate(t) \/ TxRevoke(t) \/ TxBurn(t) \/ TxLegacy(t)
  BY <1>3 DEF Step, Gate, MatchBatchCode, MatchLegacy, MatchNothing, CreateLedger,
     OpenLedger, OpenLedgerFails, WriteJournalTmp, RenameJournalTmp,
     JournalWriteFails, TxBurnRejected, TxFails, AppendBlock, AppendFails,
     CopyToMirror, RenameMirror, Finalize, DropPending
<1>4. CASE Crash \/ Start \/ Reconcile \/ UsbChanges
  BY <1>4 DEF Crash, Start, Reconcile, ReconcileNothing, ReconcileGivesUp,
     ReconcileOpen, ReconcileAppend, ReconcileAppendFails, ReconcileCopy,
     ReconcileRename, ReconcileFinalize, UsbChanges
<1>5. CASE UNCHANGED vars
  BY <1>5 DEF vars
<1> QED
  BY <1>1, <1>2, <1>3, <1>4, <1>5 DEF Next

\* Every step keeps consumed rows consumed.
LEMMA BurnStep == BurnInv /\ [Next]_vars => BurnInv'
<1> SUFFICES ASSUME BurnInv, [Next]_vars
             PROVE  BurnsMarked'
  BY TypeStep DEF BurnInv
<1> USE DEF BurnInv, TypeInv
<1>1. CASE UNCHANGED dbVars
  BY <1>1 DEF dbVars, BurnsMarked
<1>2. ASSUME NEW t \in Threads, TxActivate(t)
      PROVE  BurnsMarked'
  <2>1. PICK a \in Accounts : a = cmd[t].acct
    BY <1>2 DEF TxActivate, At, CmdInv, CommandShape
  <2>2. /\ rows'[a].gen = nextGen /\ nextGen' = nextGen + 1
        /\ \A b \in Accounts : b # a => rows'[b] = rows[b]
    BY <1>2, <2>1 DEF TxActivate, DbInv
  <2>3. \A e \in committed' : e.type = "CodeBurned" => e \in committed
    BY <1>2 DEF TxActivate, Commit, EventOf, EventType
  <2>4. \A b \in Accounts : rows'[b].gen < nextGen'
    BY <2>2 DEF BurnsMarked, DbInv
  <2>5. ASSUME NEW e \in committed, e.type = "CodeBurned", e.row \in Rows
        PROVE  /\ e.row.gen < nextGen'
               /\ rows'[e.acct].gen = e.row.gen => e.row.code \in rows'[e.acct].used
    <3>1. /\ e.acct \in Accounts /\ e.row.gen \in Nat /\ nextGen \in Nat
          /\ e.row.gen < nextGen
          /\ rows[e.acct].gen = e.row.gen => e.row.code \in rows[e.acct].used
      BY <2>5 DEF BurnsMarked, DbInv, Event, Rows
    <3> QED
      BY <2>2, <3>1
  <2> QED
    BY <2>3, <2>4, <2>5 DEF BurnsMarked
<1>3. ASSUME NEW t \in Threads, TxRevoke(t)
      PROVE  BurnsMarked'
  <2>1. PICK a \in Accounts : a = cmd[t].acct
    BY <1>3 DEF TxRevoke, At, CmdInv, CommandShape
  <2>2. /\ rows'[a].gen = 0 /\ nextGen' = nextGen
        /\ \A b \in Accounts : b # a => rows'[b] = rows[b]
    BY <1>3, <2>1 DEF TxRevoke, DbInv, NoRows
  <2>3. \A e \in committed' : e.type = "CodeBurned" => e \in committed
    BY <1>3 DEF TxRevoke, Commit, EventOf, EventType
  <2>4. \A b \in Accounts : rows'[b].gen < nextGen'
    BY <2>2 DEF BurnsMarked, DbInv
  <2>5. ASSUME NEW e \in committed, e.type = "CodeBurned", e.row \in Rows
        PROVE  /\ e.row.gen < nextGen'
               /\ rows'[e.acct].gen = e.row.gen => e.row.code \in rows'[e.acct].used
    <3>1. /\ e.acct \in Accounts /\ e.row.gen \in Nat \ {0}
          /\ e.row.gen < nextGen
          /\ rows[e.acct].gen = e.row.gen => e.row.code \in rows[e.acct].used
      BY <2>5 DEF BurnsMarked, DbInv, Event, Rows
    <3> QED
      BY <2>2, <3>1
  <2> QED
    BY <2>3, <2>4, <2>5 DEF BurnsMarked
<1>4. ASSUME NEW t \in Threads, TxBurn(t)
      PROVE  BurnsMarked'
  <2>1. PICK a \in Accounts : a = cmd[t].acct /\ cmd[t].row \in Rows
    BY <1>4 DEF TxBurn, At, CmdInv, CommandShape
  <2>2. /\ \A b \in Accounts : rows'[b].gen = rows[b].gen /\ rows[b].used \subseteq rows'[b].used
        /\ cmd[t].row.code \in rows'[a].used
        /\ rows[a].gen = cmd[t].row.gen /\ nextGen' = nextGen
    BY <1>4, <2>1 DEF TxBurn, DbInv, Unconsumed, HasRow
  <2>3. \A e \in committed' :
          e \in committed \/ (e.acct = a /\ e.row = cmd[t].row)
    BY <1>4, <2>1 DEF TxBurn, Commit, EventOf
  <2>4. \A b \in Accounts : rows'[b].gen < nextGen'
    BY <2>2 DEF BurnsMarked
  <2>5. ASSUME NEW e \in committed, e.type = "CodeBurned", e.row \in Rows
        PROVE  /\ e.row.gen < nextGen'
               /\ rows'[e.acct].gen = e.row.gen => e.row.code \in rows'[e.acct].used
    <3>1. e.acct \in Accounts
      BY DEF DbInv, Event
    <3> QED
      BY <2>2, <2>5, <3>1 DEF BurnsMarked
  <2>6. cmd[t].row.gen < nextGen'
    BY <2>2 DEF BurnsMarked
  <2> QED
    BY <2>2, <2>3, <2>4, <2>5, <2>6 DEF BurnsMarked
<1>5. ASSUME NEW t \in Threads, TxLegacy(t)
      PROVE  BurnsMarked'
  <2>1. cmd[t].row = NoRow /\ UNCHANGED <<rows, nextGen>>
    BY <1>5 DEF TxLegacy, At, CmdInv, CommandShape
  <2>2. NoRow \notin Rows
    BY DEF NoRow, Rows
  <2>3. \A e \in committed' : e.row \in Rows => e \in committed
    BY <1>5, <2>1, <2>2 DEF TxLegacy, Commit, EventOf
  <2> QED
    BY <2>1, <2>3 DEF BurnsMarked
<1> QED
  BY <1>1, <1>2, <1>3, <1>4, <1>5, DbSteps

\* However many threads matched the same code row, the transaction of one of
\* them consumes it, and no later step makes that row usable again.
THEOREM RowsBurnedOnce == Spec => RowBurnedOnce
<1>1. Init => BurnInv
  BY TypeInit DEF Init, BurnInv, BurnsMarked, NoRows
<1>2. BurnInv => \A t \in Threads : TxBurn(t) => EventOf(cmd[t]) \notin committed
  <2> SUFFICES ASSUME BurnInv, NEW t \in Threads, TxBurn(t), EventOf(cmd[t]) \in committed
               PROVE  FALSE
    OBVIOUS
  <2>1. cmd[t].row \in Rows /\ cmd[t].op = "burn"
    BY DEF BurnInv, TypeInv, TxBurn, At, CmdInv, CommandShape
  <2>2. /\ EventOf(cmd[t]).type = "CodeBurned"
        /\ EventOf(cmd[t]).row = cmd[t].row /\ EventOf(cmd[t]).acct = cmd[t].acct
    BY <2>1 DEF EventOf, EventType
  <2>3. /\ rows[cmd[t].acct].gen = cmd[t].row.gen
        /\ cmd[t].row.code \notin rows[cmd[t].acct].used
    BY DEF TxBurn, Unconsumed, HasRow
  <2> QED
    BY <2>1, <2>2, <2>3 DEF BurnInv, BurnsMarked
<1> QED
  BY <1>1, <1>2, BurnStep, PTL DEF Spec, RowBurnedOnce

-----------------------------------------------------------------------------
(* Damage to the ledger is permanent. *)

\* The four things that can happen to the ledger file.
LEMMA LedgerSteps ==
  ASSUME TypeInv, [Next]_vars
  PROVE  \/ ledger' = ledger
         \/ ~ledger.made /\ ledger' = NewFile
         \/ ledger' = [ledger EXCEPT !.torn = TRUE]
         \/ /\ Appending
            /\ \E h \in Seq(Event), e \in Event : ledger' = Extend(ledger, h, e)
<1> USE DEF TypeInv
<1> DEFINE Goal == \/ ledger' = ledger
                   \/ ~ledger.made /\ ledger' = NewFile
                   \/ ledger' = [ledger EXCEPT !.torn = TRUE]
                   \/ /\ Appending
                      /\ \E h \in Seq(Event), e \in Event : ledger' = Extend(ledger, h, e)
<1>1. ASSUME NEW a \in Accounts, Generate(a) \/ Cancel(a) \/ Expire(a)
      PROVE  ledger' = ledger
  BY <1>1 DEF Generate, Cancel, Expire, diskVars
<1>2. ASSUME NEW t \in Threads, Begin(t)
      PROVE  ledger' = ledger
  BY <1>2 DEF Begin, BeginActivate, RejectExpired, BeginRevoke, BeginForgot, diskVars
<1>3. ASSUME NEW t \in Threads, AppendBlock(t) \/ AppendFails(t)
      PROVE  Goal
  <2>1. cmd[t].handle \in Seq(Event) /\ EventOf(cmd[t]) \in Event
    BY <1>3, EventOfType DEF AppendBlock, AppendFails, At, CmdInv, CommandShape, Command, Ops
  <2> QED
    BY <1>3, <2>1 DEF AppendBlock, AppendFails, Appending
<1>4. ASSUME NEW t \in Threads, Step(t), ~AppendBlock(t), ~AppendFails(t)
      PROVE  \/ ledger' = ledger
             \/ ~ledger.made /\ ledger' = NewFile
             \/ ledger' = [ledger EXCEPT !.torn = TRUE]
  BY <1>4 DEF Step, diskVars, Gate, MatchBatchCode, MatchLegacy, MatchNothing,
     CreateLedger, OpenLedger, OpenLedgerFails, WriteJournalTmp, RenameJournalTmp,
     JournalWriteFails, TxActivate, TxRevoke, TxBurn, TxBurnRejected, TxLegacy,
     TxFails, CopyToMirror, RenameMirror, Finalize, DropPending
<1>5. CASE ReconcileAppend \/ ReconcileAppendFails
  <2>1. boot.handle \in Seq(Event) /\ EventOf(journal) \in Event
    BY <1>5, EventOfType DEF ReconcileAppend, ReconcileAppendFails, BootInv, JournalInv,
       Entry, Ops
  <2> QED
    BY <1>5, <2>1 DEF ReconcileAppend, ReconcileAppendFails, Appending
<1>6. CASE /\ Crash \/ Start \/ Reconcile \/ UsbChanges
           /\ ~ReconcileAppend /\ ~ReconcileAppendFails
  BY <1>6 DEF diskVars, Crash, Start, Reconcile, ReconcileNothing, ReconcileGivesUp,
     ReconcileOpen, ReconcileCopy, ReconcileRename, ReconcileFinalize, UsbChanges
<1>7. CASE UNCHANGED vars
  BY <1>7 DEF vars, diskVars
<1> QED
  BY <1>1, <1>2, <1>3, <1>4, <1>5, <1>6, <1>7 DEF Next

\* Once ledger.rev fails verification nothing the program does makes it verify
\* again: not an append, not the reconciler, not opening or creating a ledger.
THEOREM DamageIsPermanent == Spec => BrokenStaysBroken
<1>1. ASSUME TypeInv, [Next]_vars, ledger.made, ~Verifies(ledger)
      PROVE  ~Verifies(ledger)'
  <2>1. ledger \in File(Event)
    BY <1>1 DEF TypeInv, FilesInv
  <2>2. CASE ledger' = ledger
    BY <1>1, <2>2 DEF Verifies, Linked
  <2>3. CASE ledger' = [ledger EXCEPT !.torn = TRUE]
    BY <2>1, <2>3 DEF Verifies, File
  <2>4. ASSUME NEW h \in Seq(Event), NEW e \in Event, ledger' = Extend(ledger, h, e)
        PROVE  ~Verifies(ledger')
    BY <1>1, <2>1, <2>4, ExtendKeepsBroken
  <2> QED
    BY <1>1, <2>2, <2>3, <2>4, LedgerSteps
<1> QED
  BY <1>1, TypeInvariant, PTL DEF Spec, BrokenStaysBroken
-----------------------------------------------------------------------------
(* The mirror follows the ledger. *)

\* A ledger file never goes away and never loses a block it has.
LEMMA LedgerGrows ==
  ASSUME MirrorInv, [Next]_vars
  PROVE  /\ ledger.made => ledger'.made
         /\ ~ledger'.made => ledger'.blocks = <<>>
         /\ PrefixOf(ledger, ledger')
<1>1. ledger \in File(Event) /\ Len(ledger.blocks) \in Nat
  BY DEF MirrorInv, TypeInv, FilesInv, File
<1>2. CASE ledger' = ledger
  BY <1>1, <1>2 DEF MirrorInv, PrefixOf
<1>3. CASE ~ledger.made /\ ledger' = NewFile
  BY <1>1, <1>3 DEF MirrorInv, PrefixOf, NewFile
<1>4. CASE ledger' = [ledger EXCEPT !.torn = TRUE]
  <2>1. ledger'.made = ledger.made /\ ledger'.blocks = ledger.blocks
    BY <1>1, <1>4 DEF File
  <2> QED
    BY <1>1, <2>1 DEF MirrorInv, PrefixOf
<1>5. ASSUME Appending, NEW h \in Seq(Event), NEW e \in Event,
             ledger' = Extend(ledger, h, e)
      PROVE  /\ ledger.made => ledger'.made
             /\ ~ledger'.made => ledger'.blocks = <<>>
             /\ PrefixOf(ledger, ledger')
  <2>1. ledger.made
    BY <1>5 DEF MirrorInv, Appending, At, HoldsLedger
  <2>2. /\ ledger'.made = ledger.made
        /\ Len(ledger'.blocks) = Len(ledger.blocks) + 1
        /\ \A i \in 1..Len(ledger.blocks) : ledger'.blocks[i] = ledger.blocks[i]
    BY <1>1, <1>5, ExtendPrefix
  <2> QED
    BY <1>1, <2>1, <2>2 DEF PrefixOf
<1> QED
  BY <1>2, <1>3, <1>4, <1>5, LedgerSteps DEF MirrorInv

\* An initial part of an initial part is an initial part.
LEMMA PrefixTrans ==
  ASSUME NEW f \in File(Event), NEW g \in File(Event), NEW h,
         Len(h.blocks) \in Nat, PrefixOf(f, g), PrefixOf(g, h)
  PROVE  PrefixOf(f, h)
<1>1. Len(f.blocks) \in Nat /\ Len(g.blocks) \in Nat
  BY DEF File
<1> QED
  BY <1>1 DEF PrefixOf

\* The two files on the drive only take over each other's or the ledger's blocks.
LEMMA MirrorSteps ==
  ASSUME [Next]_vars
  PROVE  /\ mirror' = mirror \/ mirror' = mirrorTmp
         /\ mirrorTmp' = mirrorTmp \/ mirrorTmp' = NoFile \/ mirrorTmp' = ledger
<1>1. ASSUME NEW a \in Accounts, Generate(a) \/ Cancel(a) \/ Expire(a)
      PROVE  UNCHANGED <<mirror, mirrorTmp>>
  BY <1>1 DEF Generate, Cancel, Expire, diskVars
<1>2. ASSUME NEW t \in Threads, Begin(t)
      PROVE  UNCHANGED <<mirror, mirrorTmp>>
  BY <1>2 DEF Begin, BeginActivate, RejectExpired, BeginRevoke, BeginForgot, diskVars
<1>3. ASSUME NEW t \in Threads, Step(t), ~CopyToMirror(t), ~RenameMirror(t)
      PROVE  UNCHANGED <<mirror, mirrorTmp>>
  BY <1>3 DEF Step, diskVars, Gate, MatchBatchCode, MatchLegacy, MatchNothing,
     CreateLedger, OpenLedger, OpenLedgerFails, WriteJournalTmp, RenameJournalTmp,
     JournalWriteFails, TxActivate, TxRevoke, TxBurn, TxBurnRejected, TxLegacy,
     TxFails, AppendBlock, AppendFails, Finalize, DropPending
<1>4. ASSUME NEW t \in Threads, CopyToMirror(t) \/ RenameMirror(t)
      PROVE  /\ mirror' = mirror \/ mirror' = mirrorTmp
             /\ mirrorTmp' = mirrorTmp \/ mirrorTmp' = NoFile \/ mirrorTmp' = ledger
  BY <1>4 DEF CopyToMirror, RenameMirror
<1>5. CASE ReconcileCopy \/ ReconcileRename
  BY <1>5 DEF ReconcileCopy, ReconcileRename
<1>6. CASE (Crash \/ Start \/ Reconcile \/ UsbChanges) /\ ~(ReconcileCopy \/ ReconcileRename)
  BY <1>6 DEF diskVars, Crash, Start, Reconcile, ReconcileNothing, ReconcileGivesUp,
     ReconcileOpen, ReconcileAppend, ReconcileAppendFails, ReconcileFinalize, UsbChanges
<1>7. CASE UNCHANGED vars
  BY <1>7 DEF vars, diskVars
<1> QED
  BY <1>1, <1>2, <1>3, <1>4, <1>5, <1>6, <1>7 DEF Next

\* Nobody comes to hold an open ledger without a ledger file being there.
LEMMA HolderSteps ==
  ASSUME TypeInv, [Next]_vars, NEW t \in Threads, HoldsLedger(cmd'[t])
  PROVE  HoldsLedger(cmd[t]) \/ ledger.made \/ ledger'.made
<1> USE DEF TypeInv
<1>1. cmd \in [Threads -> Command] /\ CommandShape(cmd[t])
  BY DEF CmdInv
<1>2. ~HoldsLedger(Idle)
  BY DEF HoldsLedger, Idle
<1>3. ASSUME NEW a \in Accounts, Generate(a) \/ Cancel(a) \/ Expire(a)
      PROVE  cmd' = cmd
  BY <1>3 DEF Generate, Cancel, Expire
<1>4. ASSUME NEW u \in Threads, Begin(u)
      PROVE  cmd'[t] = cmd[t] \/ ~HoldsLedger(cmd'[t])
  <2>1. CASE u # t
    BY <1>1, <1>4, <2>1 DEF Begin, BeginActivate, RejectExpired, BeginRevoke, BeginForgot
  <2>2. cmd' = cmd \/ cmd'[u].pc \in {"open", "gate"}
    <3>1. ASSUME NEW a \in Accounts, BeginActivate(u, a)
          PROVE  cmd'[u].pc = "open"
      BY <1>1, <3>1 DEF BeginActivate, Idle
    <3>2. ASSUME NEW a \in Accounts, BeginRevoke(u, a)
          PROVE  cmd'[u].pc = "open"
      BY <1>1, <3>2 DEF BeginRevoke, Idle
    <3>3. ASSUME NEW a \in Accounts, BeginForgot(u, a)
          PROVE  cmd'[u].pc = "gate"
      BY <1>1, <3>3 DEF BeginForgot, Idle
    <3>4. ASSUME NEW a \in Accounts, RejectExpired(u, a)
          PROVE  cmd' = cmd
      BY <3>4 DEF RejectExpired
    <3> QED
      BY <1>4, <3>1, <3>2, <3>3, <3>4 DEF Begin
  <2> QED
    BY <2>1, <2>2 DEF HoldsLedger
<1>5. ASSUME NEW u \in Threads, CreateLedger(u) \/ OpenLedger(u)
      PROVE  ledger.made \/ ledger'.made
  BY <1>5 DEF CreateLedger, OpenLedger, Verifies, NewFile
<1>6. ASSUME NEW u \in Threads, Step(u), u # t
      PROVE  cmd'[t] = cmd[t]
  BY <1>1, <1>6 DEF Step, Goto, Done, AfterMirror, Gate, MatchBatchCode, MatchLegacy,
     MatchNothing, CreateLedger, OpenLedger, OpenLedgerFails, WriteJournalTmp,
     RenameJournalTmp, JournalWriteFails, TxActivate, TxRevoke, TxBurn,
     TxBurnRejected, TxLegacy, TxFails, AppendBlock, AppendFails, CopyToMirror,
     RenameMirror, Finalize, DropPending
<1>7. ASSUME Gate(t) \/ MatchBatchCode(t) \/ MatchLegacy(t) \/ MatchNothing(t)
             \/ OpenLedgerFails(t)
      PROVE  ~HoldsLedger(cmd'[t])
  BY <1>1, <1>2, <1>7 DEF Gate, MatchBatchCode, MatchLegacy, MatchNothing,
     OpenLedgerFails, Goto, Done, HoldsLedger, Command
<1>8. ASSUME WriteJournalTmp(t) \/ RenameJournalTmp(t) \/ JournalWriteFails(t)
      PROVE  HoldsLedger(cmd[t])
  BY <1>8 DEF WriteJournalTmp, RenameJournalTmp, JournalWriteFails, At, HoldsLedger
<1>9. ASSUME TxActivate(t) \/ TxRevoke(t) \/ TxBurn(t) \/ TxBurnRejected(t)
      PROVE  HoldsLedger(cmd[t])
  BY <1>9 DEF TxActivate, TxRevoke, TxBurn, TxBurnRejected, At, HoldsLedger
<1>10. ASSUME TxLegacy(t) \/ TxFails(t) \/ AppendBlock(t) \/ AppendFails(t)
       PROVE  ~HoldsLedger(cmd'[t]) 
  BY <1>1, <1>2, <1>10 DEF TxLegacy, TxFails, AppendBlock, AppendFails, Goto, Done,
     HoldsLedger, Command
<1>11. ASSUME CopyToMirror(t) \/ RenameMirror(t) \/ Finalize(t) \/ DropPending(t)
       PROVE  ~HoldsLedger(cmd'[t])
  BY <1>1, <1>2, <1>11 DEF CopyToMirror, RenameMirror, Finalize, DropPending,
     AfterMirror, Goto, Done, HoldsLedger, Command
<1>12. CASE Crash
  BY <1>2, <1>12 DEF Crash
<1>13. CASE Start \/ Reconcile \/ UsbChanges
  BY <1>13 DEF Start, Reconcile, ReconcileNothing, ReconcileGivesUp, ReconcileOpen,
     ReconcileAppend, ReconcileAppendFails, ReconcileCopy, ReconcileRename,
     ReconcileFinalize, UsbChanges
<1>14. CASE UNCHANGED vars
  BY <1>14 DEF vars
<1>15. ASSUME NEW u \in Threads, Step(u)
       PROVE  HoldsLedger(cmd[t]) \/ ledger.made \/ ledger'.made
  BY <1>5, <1>6, <1>7, <1>8, <1>9, <1>10, <1>11, <1>15 DEF Step
<1> QED
  BY <1>3, <1>4, <1>12, <1>13, <1>14, <1>15 DEF Next

\* The reconciler gets to its append only with a ledger that verifies.
LEMMA BootHolds ==
  ASSUME [Next]_vars, boot'.pc = "append"
  PROVE  boot.pc = "append" \/ ledger.made
<1>1. ASSUME NEW a \in Accounts, Generate(a) \/ Cancel(a) \/ Expire(a)
      PROVE  boot' = boot
  BY <1>1 DEF Generate, Cancel, Expire
<1>2. ASSUME NEW t \in Threads, Begin(t)
      PROVE  boot' = boot
  BY <1>2 DEF Begin, BeginActivate, RejectExpired, BeginRevoke, BeginForgot
<1>3. ASSUME NEW t \in Threads, Step(t)
      PROVE  boot' = boot
  BY <1>3 DEF Step, Gate, MatchBatchCode, MatchLegacy, MatchNothing,
     CreateLedger, OpenLedger, OpenLedgerFails, WriteJournalTmp, RenameJournalTmp,
     JournalWriteFails, TxActivate, TxRevoke, TxBurn, TxBurnRejected, TxLegacy,
     TxFails, AppendBlock, AppendFails, CopyToMirror, RenameMirror, Finalize, DropPending
<1>4. CASE Crash \/ Start \/ Reconcile \/ UsbChanges
  BY <1>4 DEF Crash, Start, Reconcile, BootTo, ReconcileNothing, ReconcileGivesUp,
     ReconcileOpen, ReconcileAppend, ReconcileAppendFails, ReconcileCopy,
     ReconcileRename, ReconcileFinalize, UsbChanges, Verifies
<1>5. CASE UNCHANGED vars
  BY <1>5 DEF vars
<1> QED
  BY <1>1, <1>2, <1>3, <1>4, <1>5 DEF Next

\* Every step keeps the mirror and its temporary file behind the ledger.
LEMMA MirrorStep == MirrorInv /\ [Next]_vars => MirrorInv'
<1> SUFFICES ASSUME MirrorInv, [Next]_vars
             PROVE  MirrorInv'
  OBVIOUS
<1>1. TypeInv /\ TypeInv'
  BY TypeStep DEF MirrorInv
<1>2. /\ ledger \in File(Event) /\ mirror \in File(Event) /\ mirrorTmp \in File(Event)
      /\ ledger' \in File(Event)
  BY <1>1 DEF TypeInv, FilesInv
<1>3. Len(ledger'.blocks) \in Nat
  BY <1>2 DEF File
<1>4. /\ ledger.made => ledger'.made
      /\ ~ledger'.made => ledger'.blocks = <<>>
      /\ PrefixOf(ledger, ledger')
  BY LedgerGrows
<1>5. \A t \in Threads : HoldsLedger(cmd'[t]) => ledger'.made
  BY <1>1, <1>4, HolderSteps DEF MirrorInv
<1>6. boot'.pc = "append" => ledger'.made
  BY <1>4, BootHolds DEF MirrorInv
<1>7. PrefixOf(mirror, ledger') /\ PrefixOf(mirrorTmp, ledger')
  BY <1>2, <1>3, <1>4, PrefixTrans DEF MirrorInv
<1>8. PrefixOf(NoFile, ledger')
  BY <1>3 DEF PrefixOf, NoFile
<1>9. PrefixOf(mirror', ledger') /\ PrefixOf(mirrorTmp', ledger')
  BY <1>4, <1>7, <1>8, MirrorSteps
<1> QED
  BY <1>1, <1>4, <1>5, <1>6, <1>9 DEF MirrorInv, PrefixOf, HoldsLedger

\* Whatever syncs are cut short, interleave, or are lost with the drive, the
\* mirror on the USB volume holds an initial part of the ledger's blocks.
THEOREM MirrorNeverDiverges == Spec => []MirrorIsPrefix
<1>1. Init => MirrorInv
  BY TypeInit DEF Init, MirrorInv, HoldsLedger, Idle, PrefixOf, NoFile
<1>2. MirrorInv => MirrorIsPrefix
  BY DEF MirrorInv, PrefixOf, MirrorIsPrefix
<1> QED
  BY <1>1, <1>2, MirrorStep, PTL DEF Spec

-----------------------------------------------------------------------------
(* Commands one after another, and appends that do not fail. *)

\* No two of the blocks record the same activation or burn.
OnceEach(bs) == \A i, j \in 1..Len(bs) :
  bs[i].event = bs[j].event /\ bs[i].event.type # "BatchRevoked" => i = j

\* Through a handle that is current the ledger keeps verifying, and what was not in
\* it is there once.
LEMMA ExtendOnce ==
  ASSUME NEW f \in File(Event), NEW e \in Event, NEW g, Verifies(f),
         g = Extend(f, Chain(f.blocks), e),
         e.type = "BatchRevoked" \/ e \notin EventsIn(f), OnceEach(f.blocks)
  PROVE  /\ Verifies(g) /\ g \in File(Event)
         /\ Len(g.blocks) = Len(f.blocks) + 1
         /\ Chain(g.blocks) = Append(Chain(f.blocks), e)
         /\ EventsIn(g) = EventsIn(f) \cup {e}
         /\ OnceEach(g.blocks)
<1> DEFINE n == Len(f.blocks)
           h == Chain(f.blocks)
<1>1. f.blocks \in Seq(Block(Event)) /\ n \in Nat
  BY DEF File
<1>2. \A i \in 1..n : f.blocks[i].event \in Event
  <2>1. \A i \in 1..n : f.blocks[i] \in Block(Event)
    BY <1>1, ElementOfSeq
  <2> QED
    BY <2>1 DEF Block
<1>3. h \in Seq(Event)
  BY <1>1, <1>2 DEF Chain
<1>4. Verifies(g) /\ Chain(g.blocks) = Append(h, e)
  BY ExtendVerifies
<1>5. EventsIn(g) = EventsIn(f) \cup {e} /\ g \in File(Event)
  BY <1>3, ExtendEvents, ExtendType
<1> HIDE DEF h
<1>0. g = Extend(f, h, e)
  BY DEF h
<1>6. /\ Len(g.blocks) = n + 1 /\ \A i \in 1..n : g.blocks[i] = f.blocks[i]
      /\ g.blocks[n + 1].event = e
  BY <1>0, <1>3, ExtendPrefix, ExtendLast
<1>7. ASSUME NEW i \in 1..Len(g.blocks), NEW j \in 1..Len(g.blocks),
             g.blocks[i].event = g.blocks[j].event,
             g.blocks[i].event.type # "BatchRevoked"
      PROVE  i = j
  <2>1. CASE i \in 1..n /\ j \in 1..n
    BY <1>6, <1>7, <2>1 DEF OnceEach
  <2>2. CASE i = n + 1 /\ j \in 1..n
    BY <1>6, <1>7, <2>2 DEF EventsIn
  <2>3. CASE j = n + 1 /\ i \in 1..n
    BY <1>6, <1>7, <2>3 DEF EventsIn
  <2> QED
    BY <1>1, <1>6, <2>1, <2>2, <2>3
<1> QED
  BY <1>4, <1>5, <1>6, <1>7 DEF OnceEach, h

\* Only one thread runs commands.
LEMMA OnlyThread ==
  ASSUME OneAtATime, NEW t \in Threads
  PROVE  \A u \in Threads : u = t
  BY DEF OneAtATime

\* What the ledger takes while commands run one after another.
LEMMA LedgerTakes ==
  ASSUME SerialInv, OneAtATime, [Next]_vars
  PROVE  \/ ledger' = ledger
         \/ ~ledger.made /\ ledger' = NewFile
         \/ /\ Verifies(ledger)
            /\ \E e \in Event : /\ ledger' = Extend(ledger, Chain(ledger.blocks), e)
                                /\ e.type = "BatchRevoked" \/ e \notin EventsIn(ledger)
<1> DEFINE Goal == \/ ledger' = ledger
                   \/ ~ledger.made /\ ledger' = NewFile
                   \/ /\ Verifies(ledger)
                      /\ \E e \in Event : /\ ledger' = Extend(ledger, Chain(ledger.blocks), e)
                                          /\ e.type = "BatchRevoked" \/ e \notin EventsIn(ledger)
<1> USE DEF diskVars
<1>0. TypeInv /\ MirrorInv /\ LedgerVerifies
  BY DEF SerialInv, MirrorInv
<1>1. ASSUME NEW a \in Accounts, Generate(a) \/ Cancel(a) \/ Expire(a)
      PROVE  ledger' = ledger
  BY <1>1 DEF Generate, Cancel, Expire
<1>2. ASSUME NEW t \in Threads, Begin(t)
      PROVE  ledger' = ledger
  BY <1>2 DEF Begin, BeginActivate, RejectExpired, BeginRevoke, BeginForgot
<1>3. ASSUME NEW t \in Threads, AppendBlock(t)
      PROVE  Goal
  <2>1. EventOf(cmd[t]) \in Event /\ cmd[t].pc = "append" /\ cmd[t].op \in Ops
    BY <1>0, <1>3, EventOfType DEF AppendBlock, At, TypeInv, CmdInv, CommandShape, Command, Ops
  <2>2. cmd[t].handle = Chain(ledger.blocks) /\ ledger.made
    BY <1>0, <2>1 DEF SerialInv, Informed, HoldsLedger, MirrorInv
  <2>3. cmd[t].op # "revoke" => EventOf(cmd[t]) \notin EventsIn(ledger)
    BY <2>1 DEF SerialInv, Informed, PastTx
  <2>4. cmd[t].op = "revoke" => EventOf(cmd[t]).type = "BatchRevoked"
    BY DEF EventOf, EventType
  <2> QED
    BY <1>0, <1>3, <2>1, <2>2, <2>3, <2>4 DEF AppendBlock, LedgerVerifies
<1>4. ASSUME NEW t \in Threads, Step(t), ~AppendBlock(t)
      PROVE  ledger' = ledger \/ (~ledger.made /\ ledger' = NewFile)
  BY <1>4 DEF OneAtATime, Step, Gate, MatchBatchCode, MatchLegacy, MatchNothing,
     CreateLedger, OpenLedger, OpenLedgerFails, WriteJournalTmp, RenameJournalTmp,
     JournalWriteFails, TxActivate, TxRevoke, TxBurn, TxBurnRejected, TxLegacy,
     TxFails, AppendFails, CopyToMirror, RenameMirror, Finalize, DropPending
<1>5. CASE ReconcileAppend
  <2>1. EventOf(journal) \in Event /\ journal \in Entry /\ EntryShape(journal)
    BY <1>0, <1>5, EventOfType DEF ReconcileAppend, TypeInv, BootInv, JournalInv, Entry, Ops
  <2>2. boot.handle = Chain(ledger.blocks) /\ Owed /\ ledger.made
    BY <1>0, <1>5 DEF ReconcileAppend, SerialInv, Debts, MirrorInv
  <2>3. EventOf(journal) \notin EventsIn(ledger)
    <3>1. CASE journal.op = "activate"
      <4>1. /\ EventOf(journal).type = "BatchActivated" /\ EventOf(journal).acct = journal.acct
            /\ EventOf(journal).batch = journal.batch
        BY <3>1 DEF EventOf, EventType
      <4> QED
        BY <2>2, <3>1, <4>1 DEF Owed, Recorded, EventsIn
    <3>2. CASE journal.op = "burn"
      <4>1. Len(ledger.blocks) \in Nat /\ journal.target \in Nat
        BY <1>0, <2>1 DEF TypeInv, FilesInv, File, Entry
      <4> QED
        BY <2>2, <3>2, <4>1 DEF Owed, Recorded, SerialInv, TargetReached
    <3> QED
      BY <2>1, <3>1, <3>2 DEF Entry
  <2> QED
    BY <1>0, <1>5, <2>1, <2>2, <2>3 DEF ReconcileAppend, LedgerVerifies
<1>6. CASE (Crash \/ Start \/ Reconcile \/ UsbChanges) /\ ~ReconcileAppend
  BY <1>6 DEF OneAtATime, Crash, Start, Reconcile, ReconcileNothing, ReconcileGivesUp,
     ReconcileOpen, ReconcileAppendFails, ReconcileCopy, ReconcileRename,
     ReconcileFinalize, UsbChanges
<1>7. CASE UNCHANGED vars
  BY <1>7 DEF vars
<1> QED
  BY <1>1, <1>2, <1>3, <1>4, <1>5, <1>6, <1>7 DEF Next

\* The ledger keeps verifying and repeats nothing.
LEMMA ChainStep ==
  ASSUME SerialInv, OneAtATime, [Next]_vars
  PROVE  LedgerVerifies' /\ RecordedOnce'
<1>1. ledger \in File(Event)
  BY DEF SerialInv, RecordInv, TypeInv, FilesInv
<1>2. CASE ledger' = ledger
  <2>1. LedgerVerifies /\ RecordedOnce
    BY DEF SerialInv
  <2>2. LedgerVerifies'
    BY <1>2, <2>1 DEF LedgerVerifies, Verifies, Linked
  <2>3. RecordedOnce'
    BY <1>2, <2>1 DEF RecordedOnce
  <2> QED
    BY <2>2, <2>3
<1>3. CASE ledger' = NewFile
  BY <1>3 DEF LedgerVerifies, RecordedOnce, Verifies, Linked, NewFile
<1>4. ASSUME NEW e \in Event, Verifies(ledger),
             ledger' = Extend(ledger, Chain(ledger.blocks), e),
             e.type = "BatchRevoked" \/ e \notin EventsIn(ledger)
      PROVE  LedgerVerifies' /\ RecordedOnce'
  <2>1. Verifies(ledger') /\ OnceEach(ledger'.blocks)
    BY <1>1, <1>4, ExtendOnce DEF SerialInv, RecordedOnce, OnceEach
  <2> QED
    BY <2>1 DEF LedgerVerifies, RecordedOnce, Verifies, Linked, OnceEach
<1> QED
  BY <1>2, <1>3, <1>4, LedgerTakes

\* While the program starts, no command runs and nothing is pending.
LEMMA AloneStep ==
  ASSUME TypeInv, StartsAlone, [Next]_vars
  PROVE  StartsAlone'
<1>1. ASSUME NEW a \in Accounts, Generate(a) \/ Cancel(a)
      PROVE  boot'.pc = "up"
  BY <1>1 DEF Generate, Cancel
<1>2. ASSUME NEW a \in Accounts, Expire(a)
      PROVE  /\ UNCHANGED <<boot, cmd>>
             /\ \A b \in Accounts : pending'[b].batch = pending[b].batch
  BY <1>2 DEF Expire, TypeInv, RamInv
<1>3. ASSUME NEW t \in Threads, Begin(t) \/ Step(t)
      PROVE  boot'.pc = "up"
  BY <1>3 DEF Begin, BeginActivate, RejectExpired, BeginRevoke, BeginForgot, CanBegin, At,
     Step, Gate, MatchBatchCode, MatchLegacy, MatchNothing,
     CreateLedger, OpenLedger, OpenLedgerFails, WriteJournalTmp, RenameJournalTmp,
     JournalWriteFails, TxActivate, TxRevoke, TxBurn, TxBurnRejected, TxLegacy,
     TxFails, AppendBlock, AppendFails, CopyToMirror, RenameMirror, Finalize, DropPending
<1>4. CASE Crash
  BY <1>4 DEF Crash, StartsAlone, Idle, NoPending
<1>5. CASE Start \/ Reconcile \/ UsbChanges
  <2>1. UNCHANGED <<cmd, pending>> /\ (boot.pc # "up" \/ boot' = boot)
    BY <1>5 DEF Start, Reconcile, ReconcileNothing, ReconcileGivesUp, ReconcileOpen,
       ReconcileAppend, ReconcileAppendFails, ReconcileCopy, ReconcileRename,
       ReconcileFinalize, UsbChanges, ramVars
  <2> QED
    BY <2>1 DEF StartsAlone
<1>6. CASE UNCHANGED vars
  BY <1>6 DEF vars, StartsAlone, ramVars
<1> QED
  BY <1>1, <1>2, <1>3, <1>4, <1>5, <1>6 DEF Next, StartsAlone

\* Batches are numbered upwards.
LEMMA IssuedGrows ==
  ASSUME TypeInv, [Next]_vars
  PROVE  /\ issued \in Nat /\ issued' \in Nat /\ issued <= issued'
         /\ (\A a \in Accounts : ~Generate(a)) => issued' = issued
<1>1. issued \in Nat
  BY ConstantsOK DEF TypeInv, RamInv
<1>2. ASSUME NEW a \in Accounts, Generate(a)
      PROVE  issued' = issued + 1
  BY <1>2 DEF Generate
<1>3. ASSUME NEW a \in Accounts, Cancel(a) \/ Expire(a)
      PROVE  issued' = issued
  BY <1>3 DEF Cancel, Expire
<1>4. ASSUME NEW t \in Threads, Begin(t) \/ Step(t)
      PROVE  issued' = issued
  BY <1>4 DEF Begin, BeginActivate, RejectExpired, BeginRevoke, BeginForgot, ramVars,
     Step, Gate, MatchBatchCode, MatchLegacy, MatchNothing,
     CreateLedger, OpenLedger, OpenLedgerFails, WriteJournalTmp, RenameJournalTmp,
     JournalWriteFails, TxActivate, TxRevoke, TxBurn, TxBurnRejected, TxLegacy,
     TxFails, AppendBlock, AppendFails, CopyToMirror, RenameMirror, Finalize, DropPending
<1>5. ASSUME Crash \/ Start \/ Reconcile \/ UsbChanges
      PROVE  issued' = issued
  BY <1>5 DEF Crash, Start, Reconcile, ReconcileNothing, ReconcileGivesUp, ReconcileOpen,
     ReconcileAppend, ReconcileAppendFails, ReconcileCopy, ReconcileRename,
     ReconcileFinalize, UsbChanges, ramVars
<1>6. ASSUME UNCHANGED vars
      PROVE  issued' = issued
  BY <1>6 DEF vars, ramVars
<1> QED
  BY <1>1, <1>2, <1>3, <1>4, <1>5, <1>6 DEF Next

\* What each kind of command records.
LEMMA EventFields ==
  ASSUME NEW c
  PROVE  /\ EventOf(c).type = EventType[c.op] /\ EventOf(c).acct = c.acct
         /\ EventOf(c).batch = c.batch /\ EventOf(c).row = c.row
         /\ c.op = "activate" => EventOf(c).type = "BatchActivated"
         /\ c.op \in {"burn", "legacy"} => EventOf(c).type = "CodeBurned"
         /\ c.op = "revoke" => EventOf(c).type = "BatchRevoked"
         /\ c.op = "activate" /\ c.row = NoRow => EventOf(c) = ActivationOf(c.acct, c.batch)
  BY DEF EventOf, EventType, ActivationOf

\* What has been committed stays sound.
LEMMA CommittedStep ==
  ASSUME SerialInv, [Next]_vars
  PROVE  CommittedSound'
<1>0. TypeInv /\ CommittedSound /\ RowsExplained
  BY DEF SerialInv, RecordInv
<1>1. /\ issued \in Nat /\ issued' \in Nat /\ issued <= issued'
      /\ \A e \in committed : e \in Event
      /\ rows \in [Accounts -> [batch : Batches \cup {NoBatch}, gen : Nat, used : SUBSET Codes]]
  BY <1>0, IssuedGrows DEF TypeInv, DbInv
<1>2. NoRow \notin Rows /\ \A b \in Batches : b \in Nat /\ b # NoBatch
  BY ConstantsOK DEF NoRow, Rows, Batches, NoBatch
<1>3. \A e \in committed : e.batch \in Nat /\ e.acct \in Accounts
  BY <1>1, <1>2 DEF Event, NoBatch
<1>4. CASE UNCHANGED dbVars
  BY <1>0, <1>1, <1>3, <1>4 DEF dbVars, CommittedSound, CommittedOf
<1> SUFFICES ASSUME NEW t \in Threads,
                    TxActivate(t) \/ TxRevoke(t) \/ TxBurn(t) \/ TxLegacy(t)
             PROVE  CommittedSound'
  BY <1>4, DbSteps
<1> PICK c, a, ev : c = cmd[t] /\ a = cmd[t].acct /\ ev = EventOf(cmd[t])
  OBVIOUS
<1> PICK b : b = c.batch
  OBVIOUS
<1> PICK r : r = c.row
  OBVIOUS
<1>5. /\ c.pc = "tx" /\ a \in Accounts /\ c.op \in Ops
      /\ c.op = "activate" => c.batch \in Batches /\ c.row = NoRow
      /\ c.op = "burn" => c.batch \in Batches /\ c.row \in Rows
      /\ c.op = "legacy" => c.row = NoRow
  BY <1>0 DEF TxActivate, TxRevoke, TxBurn, TxLegacy, At, TypeInv, CmdInv, CommandShape
<1>6. /\ c.op # "revoke" => ev \notin committed
      /\ c.op = "activate" => c.batch <= issued
      /\ c.op = "legacy" => c.batch = NoBatch
  BY <1>5 DEF SerialInv, Informed, BeforeTx, Ops
<1>7. committed' = committed \cup {ev}
  BY DEF TxActivate, TxRevoke, TxBurn, TxLegacy, Commit
<1>8. legacy' \subseteq legacy
  BY DEF TxActivate, TxRevoke, TxBurn, TxLegacy
<1>9. ASSUME NEW e \in committed,
             e.type = "CodeBurned" /\ e.row # NoRow =>
               (rows'[e.acct].batch = e.batch => e.row.gen = rows'[e.acct].gen)
      PROVE  CommittedOf(e)'
  BY <1>0, <1>1, <1>3, <1>7, <1>8, <1>9 DEF CommittedSound, CommittedOf
<1>10. CASE TxActivate(t)
  <2>1. c.op = "activate" /\ ev = ActivationOf(a, b)
    BY <1>5, <1>10, EventFields DEF TxActivate
  <2>2. /\ rows'[a].batch = b
        /\ \A x \in Accounts : x # a => rows'[x] = rows[x]
    BY <1>1, <1>5, <1>10 DEF TxActivate
  <2>3. ASSUME NEW e \in committed, e.type = "CodeBurned", e.row # NoRow,
               rows'[e.acct].batch = e.batch
        PROVE  e.row.gen = rows'[e.acct].gen
    BY <1>0, <1>3, <1>6, <2>1, <2>2, <2>3 DEF CommittedSound, CommittedOf
  <2>4. CommittedOf(ev)'
    <3>1. ev.type = "BatchActivated" /\ ev.row = NoRow /\ ev.batch <= issued'
      BY <1>1, <1>2, <1>5, <1>6, <2>1 DEF ActivationOf
    <3> QED
      BY <3>1 DEF CommittedOf
  <2> QED
    BY <1>7, <1>9, <2>3, <2>4 DEF CommittedSound
<1>11. CASE TxRevoke(t)
  <2>1. ev.type = "BatchRevoked"
    BY <1>11, EventFields DEF TxRevoke
  <2>2. /\ rows'[a].batch = NoBatch
        /\ \A x \in Accounts : x # a => rows'[x] = rows[x]
    BY <1>1, <1>5, <1>11 DEF TxRevoke, NoRows
  <2>3. ASSUME NEW e \in committed, e.type = "CodeBurned", e.row # NoRow,
               rows'[e.acct].batch = e.batch
        PROVE  e.row.gen = rows'[e.acct].gen
    BY <1>0, <1>3, <2>2, <2>3 DEF CommittedSound, CommittedOf
  <2>4. CommittedOf(ev)'
    BY <2>1 DEF CommittedOf
  <2> QED
    BY <1>7, <1>9, <2>3, <2>4 DEF CommittedSound
<1>12. CASE TxBurn(t)
  <2>1. c.op = "burn" /\ HasRow(a, c.batch, c.row)
    BY <1>12 DEF TxBurn, Unconsumed
  <2>2. \A x \in Accounts : rows'[x].batch = rows[x].batch /\ rows'[x].gen = rows[x].gen
    BY <1>1, <1>5, <1>12 DEF TxBurn
  <2>3. ASSUME NEW e \in committed, e.type = "CodeBurned", e.row # NoRow,
               rows'[e.acct].batch = e.batch
        PROVE  e.row.gen = rows'[e.acct].gen
    BY <1>0, <1>3, <2>2, <2>3 DEF CommittedSound, CommittedOf
  <2>4. ActivationOf(a, b) \in committed /\ rows[a].batch = b /\ rows[a].gen = r.gen
    BY <1>0, <1>2, <1>5, <2>1 DEF RowsExplained, ActivatedEvent, ActivationOf, HasRow
  <2>5. CommittedOf(ev)'
    <3>1. ev.type = "CodeBurned" /\ ev.row = r /\ ev.acct = a /\ ev.batch = b
      BY <2>1, EventFields
    <3>2. r \in Rows /\ b # NoBatch /\ ActivationOf(a, b) \in committed'
      BY <1>2, <1>5, <1>7, <2>1, <2>4
    <3> QED
      BY <1>2, <1>5, <2>2, <2>4, <3>1, <3>2 DEF CommittedOf
  <2> QED
    BY <1>7, <1>9, <2>3, <2>5 DEF CommittedSound
<1>13. CASE TxLegacy(t)
  <2>1. c.op = "legacy" /\ a \notin legacy' /\ rows' = rows
    BY <1>13 DEF TxLegacy
  <2>2. CommittedOf(ev)'
    <3>1. ev.type = "CodeBurned" /\ ev.row = NoRow /\ ev.acct = a /\ ev.batch = NoBatch
      BY <1>5, <1>6, <2>1, EventFields
    <3> QED
      BY <2>1, <3>1 DEF CommittedOf
  <2>3. ASSUME NEW e \in committed, e.type = "CodeBurned", e.row # NoRow,
               rows'[e.acct].batch = e.batch
        PROVE  e.row.gen = rows'[e.acct].gen
    BY <1>0, <2>1, <2>3 DEF CommittedSound, CommittedOf
  <2> QED
    BY <1>7, <1>9, <2>2, <2>3 DEF CommittedSound
<1> QED
  BY <1>10, <1>11, <1>12, <1>13

-----------------------------------------------------------------------------
(* What a command is informed of. *)

\* A step within a command changes where it is and nothing else of it.
LEMMA GotoFields ==
  ASSUME CmdInv, NEW t \in Threads, NEW p, Goto(t, p)
  PROVE  /\ cmd'[t].pc = p /\ cmd'[t].op = cmd[t].op /\ cmd'[t].acct = cmd[t].acct
         /\ cmd'[t].batch = cmd[t].batch /\ cmd'[t].row = cmd[t].row
         /\ cmd'[t].handle = cmd[t].handle /\ EventOf(cmd'[t]) = EventOf(cmd[t])
<1>1. cmd'[t] = [cmd[t] EXCEPT !.pc = p] /\ cmd[t] \in Command
  BY DEF CmdInv, Goto
<1> HIDE DEF Goto
<1>2. /\ cmd'[t].pc = p /\ cmd'[t].op = cmd[t].op /\ cmd'[t].acct = cmd[t].acct
      /\ cmd'[t].batch = cmd[t].batch /\ cmd'[t].row = cmd[t].row
      /\ cmd'[t].handle = cmd[t].handle
  BY <1>1 DEF Command
<1> QED
  BY <1>2 DEF EventOf

\* A command that is done, or past its append, has nothing to be informed of.
LEMMA PassiveInformed ==
  ASSUME CmdInv, NEW t \in Threads, Informed(cmd[t]), issued' = issued,
         \/ Done(t)
         \/ \E p \in {"copy", "copyRename", "finalize", "drop"} : Goto(t, p)
  PROVE  Informed(cmd[t])'
<1>1. CASE Done(t)
  <2>1. cmd'[t] = Idle
    BY <1>1 DEF CmdInv, Done
  <2> QED
    BY <2>1 DEF Informed, Idle, HoldsLedger, BeforeTx, PastTx, Journalled
<1>2. ASSUME NEW p \in {"copy", "copyRename", "finalize", "drop"}, Goto(t, p)
      PROVE  Informed(cmd[t])'
  <2>1. cmd'[t].pc = p /\ cmd'[t].op = cmd[t].op /\ cmd'[t].batch = cmd[t].batch
    BY <1>2, GotoFields
  <2> QED
    BY <1>2, <2>1 DEF Informed, HoldsLedger, BeforeTx, PastTx, Journalled
<1> QED
  BY <1>1, <1>2

\* A command that stands still while nothing it is informed of changes.
LEMMA StillInformed ==
  ASSUME TypeInv, [Next]_vars, NEW t \in Threads, Informed(cmd[t]), cmd'[t] = cmd[t],
         \/ UNCHANGED <<ledger, committed, jVars>>
         \/ cmd[t].pc = "idle"
  PROVE  Informed(cmd[t])'
<1>1. /\ issued \in Nat /\ issued' \in Nat /\ issued <= issued' /\ cmd[t].batch \in Nat
  BY ConstantsOK, IssuedGrows DEF TypeInv, CmdInv, Command, Batches, NoBatch
<1>2. CASE UNCHANGED <<ledger, committed, jVars>>
  BY <1>1, <1>2 DEF Informed, Stands, jVars
<1>3. CASE cmd[t].pc = "idle"
  BY <1>1, <1>3 DEF Informed, HoldsLedger, BeforeTx, PastTx, Journalled
<1> QED
  BY <1>2, <1>3

\* The start of a command.
LEMMA BeginInformed ==
  ASSUME SerialInv, OneAtATime, NEW t \in Threads, Begin(t)
  PROVE  Informed(cmd[t])'
<1>0. TypeInv /\ CmdInv /\ Informed(cmd[t]) /\ cmd \in [Threads -> Command]
  BY DEF SerialInv, RecordInv, TypeInv, CmdInv
<1>1. ASSUME NEW a \in Accounts, BeginActivate(t, a)
      PROVE  Informed(cmd[t])'
  <2>1. /\ cmd'[t] = [Idle EXCEPT !.pc = "open", !.op = "activate", !.acct = a,
                                  !.batch = pending[a].batch]
        /\ cmd[t].pc = "idle" /\ pending[a].fresh /\ committed' = committed /\ issued' = issued
    BY <1>0, <1>1 DEF BeginActivate, CanBegin, At, dbVars, ramVars
  <2>2. pending[a].batch \in Batches /\ pending[a].batch # NoBatch
    BY <1>0, <2>1, ConstantsOK DEF TypeInv, RamInv, Batches, NoBatch
  <2>3. /\ cmd'[t].pc = "open" /\ cmd'[t].op = "activate" /\ cmd'[t].handle = <<>>
        /\ cmd'[t].batch = pending[a].batch /\ cmd'[t].acct = a /\ cmd'[t].row = NoRow
    BY <2>1 DEF Idle
  <2>4. EventOf(cmd'[t]) = ActivationOf(a, pending[a].batch)
    BY <2>3, EventFields
  <2>5. EventOf(cmd'[t]) \notin committed
    <3>1. \A u \in Threads : ~Activating(cmd[u])
      BY <2>1, OnlyThread DEF Activating
    <3> QED
      BY <2>2, <2>4, <3>1 DEF SerialInv, PendingNew
  <2>6. pending[a].batch <= issued
    BY DEF SerialInv, PendingNew
  <2> QED
    BY <2>1, <2>3, <2>5, <2>6 DEF Informed, HoldsLedger, PastTx
<1>2. ASSUME NEW a \in Accounts, RejectExpired(t, a)
      PROVE  Informed(cmd[t])'
  BY <1>0, <1>2 DEF RejectExpired, Informed, Stands, diskVars, dbVars, jVars
<1>3. ASSUME NEW a \in Accounts, BeginRevoke(t, a)
      PROVE  Informed(cmd[t])'
  <2>1. cmd'[t].pc = "open" /\ cmd'[t].op = "revoke" /\ cmd'[t].handle = <<>>
    BY <1>0, <1>3 DEF BeginRevoke, Idle
  <2> QED
    BY <2>1 DEF Informed, HoldsLedger, BeforeTx, PastTx
<1>4. ASSUME NEW a \in Accounts, BeginForgot(t, a)
      PROVE  Informed(cmd[t])'
  <2>1. cmd'[t].pc = "gate" /\ cmd'[t].op = "none" /\ cmd'[t].batch = NoBatch
    BY <1>0, <1>4 DEF BeginForgot, Idle
  <2> QED
    BY <2>1 DEF Informed, HoldsLedger, BeforeTx, PastTx
<1> QED
  BY <1>1, <1>2, <1>3, <1>4 DEF Begin

\* The lookup of a code and the opening of the ledger.
LEMMA OpenInformed ==
  ASSUME SerialInv, NEW t \in Threads,
         \/ Gate(t) \/ MatchBatchCode(t) \/ MatchLegacy(t) \/ MatchNothing(t)
         \/ CreateLedger(t) \/ OpenLedger(t) \/ OpenLedgerFails(t)
  PROVE  Informed(cmd[t])'
<1>0. /\ TypeInv /\ CmdInv /\ DbInv /\ FilesInv /\ Informed(cmd[t]) /\ CommandShape(cmd[t])
      /\ cmd \in [Threads -> Command] /\ CommittedSound
  BY DEF SerialInv, RecordInv, TypeInv, CmdInv
<1> USE DEF At
<1>1. CASE Gate(t)
  <2>1. CASE Done(t)
    BY <1>0, <1>1, <2>1, PassiveInformed DEF Gate, ramVars
  <2>2. CASE Goto(t, "match")
    <3>1. cmd'[t].pc = "match" /\ cmd'[t].op = cmd[t].op /\ cmd'[t].batch = cmd[t].batch
      BY <1>0, <2>2, GotoFields
    <3> QED
      BY <1>0, <1>1, <3>1 DEF Gate, Informed, HoldsLedger, BeforeTx, PastTx, ramVars
  <2> QED
    BY <1>1, <2>1, <2>2 DEF Gate
<1>2. CASE MatchBatchCode(t)
  <2>1. cmd[t].acct \in Accounts /\ rows[cmd[t].acct].gen \in Nat \ {0}
    BY <1>0, <1>2 DEF MatchBatchCode, CommandShape, DbInv
  <2>2. PICK c \in Codes \ rows[cmd[t].acct].used :
          cmd' = [cmd EXCEPT ![t].pc = "open", ![t].op = "burn",
                             ![t].batch = rows[cmd[t].acct].batch,
                             ![t].row = [gen |-> rows[cmd[t].acct].gen, code |-> c]]
    BY <1>2 DEF MatchBatchCode
  <2>3. /\ cmd'[t].pc = "open" /\ cmd'[t].op = "burn" /\ cmd'[t].acct = cmd[t].acct
        /\ cmd'[t].row = [gen |-> rows[cmd[t].acct].gen, code |-> c]
    BY <1>0, <2>2 DEF Command
  <2>4. cmd'[t].row \in Rows /\ cmd'[t].row.gen = rows[cmd[t].acct].gen /\ cmd'[t].row.code = c
    BY <2>1, <2>3 DEF Rows
  <2>5. EventOf(cmd'[t]) \notin committed
    <3>1. /\ EventOf(cmd'[t]).type = "CodeBurned" /\ EventOf(cmd'[t]).acct = cmd[t].acct
          /\ EventOf(cmd'[t]).row = cmd'[t].row
      BY <2>3, EventFields
    <3> QED
      BY <2>4, <3>1 DEF SerialInv, BurnInv, BurnsMarked
  <2> QED
    BY <1>2, <2>3, <2>5 DEF MatchBatchCode, Informed, HoldsLedger, PastTx, dbVars
<1>3. CASE MatchLegacy(t)
  <2>1. /\ cmd'[t].pc = "tx" /\ cmd'[t].op = "legacy" /\ cmd'[t].acct = cmd[t].acct
        /\ cmd'[t].row = cmd[t].row /\ cmd'[t].batch = cmd[t].batch
    BY <1>0, <1>3 DEF MatchLegacy, Command
  <2>2. cmd[t].row = NoRow /\ cmd[t].batch = NoBatch /\ cmd[t].acct \in legacy
    BY <1>0, <1>3 DEF MatchLegacy, CommandShape, Informed
  <2>3. EventOf(cmd'[t]) \notin committed
    <3>1. /\ EventOf(cmd'[t]).type = "CodeBurned" /\ EventOf(cmd'[t]).acct = cmd[t].acct
          /\ EventOf(cmd'[t]).row = NoRow
      BY <2>1, <2>2, EventFields
    <3> QED
      BY <1>0, <2>2, <3>1 DEF CommittedSound, CommittedOf
  <2> QED
    BY <1>3, <2>1, <2>2, <2>3 DEF MatchLegacy, Informed, HoldsLedger, PastTx, Journalled, dbVars
<1>4. CASE MatchNothing(t) \/ OpenLedgerFails(t)
  BY <1>0, <1>4, PassiveInformed DEF MatchNothing, OpenLedgerFails, ramVars
<1>5. CASE CreateLedger(t)
  <2>1. /\ ledger' = NewFile /\ cmd[t].pc = "open" /\ cmd[t].op \in {"activate", "revoke"}
        /\ committed' = committed /\ issued' = issued /\ Goto(t, AfterOpen(cmd[t].op))
    BY <1>5 DEF CreateLedger, dbVars, ramVars
  <2>2. /\ cmd'[t].pc = AfterOpen(cmd[t].op) /\ cmd'[t].op = cmd[t].op
        /\ cmd'[t].batch = cmd[t].batch /\ cmd'[t].handle = cmd[t].handle
        /\ EventOf(cmd'[t]) = EventOf(cmd[t])
    BY <1>0, <2>1, GotoFields
  <2>3. cmd'[t].pc \in {"stage", "tx"} /\ (cmd'[t].pc = "tx" => cmd'[t].op = "revoke")
    BY <2>1, <2>2 DEF AfterOpen
  <2>4. Chain(ledger'.blocks) = <<>>
    BY <2>1 DEF NewFile, Chain
  <2> QED
    BY <1>0, <2>1, <2>2, <2>3, <2>4 DEF Informed, HoldsLedger, PastTx, BeforeTx, Journalled
<1>6. CASE OpenLedger(t)
  <2>1. /\ cmd'[t].pc = AfterOpen(cmd[t].op) /\ cmd'[t].handle = Chain(ledger.blocks)
        /\ cmd'[t].op = cmd[t].op /\ cmd'[t].acct = cmd[t].acct
        /\ cmd'[t].batch = cmd[t].batch /\ cmd'[t].row = cmd[t].row
    BY <1>0, <1>6 DEF OpenLedger, Command
  <2>2. /\ cmd[t].pc = "open" /\ ledger' = ledger /\ committed' = committed /\ issued' = issued
        /\ cmd[t].op \in Ops /\ EventOf(cmd'[t]) = EventOf(cmd[t])
    BY <1>0, <1>6, <2>1 DEF OpenLedger, diskVars, dbVars, ramVars, CommandShape, EventOf
  <2>3. /\ cmd'[t].pc = "stage" => cmd[t].op \in {"activate", "burn"}
        /\ cmd'[t].pc = "tx" => cmd[t].op = "revoke"
        /\ cmd'[t].pc = "append" => cmd[t].op = "legacy"
        /\ cmd'[t].pc \in {"stage", "tx", "append"}
    BY <2>1, <2>2 DEF AfterOpen, Ops
  <2> QED
    BY <1>0, <2>1, <2>2, <2>3 DEF Informed, HoldsLedger, PastTx, BeforeTx, Journalled
<1> QED
  BY <1>1, <1>2, <1>3, <1>4, <1>5, <1>6

\* The entry of a command that holds the ledger stands for it.
LEMMA EntryStands ==
  ASSUME FilesInv, NEW c, NEW st, Journalled(c), c.handle = Chain(ledger.blocks)
  PROVE  Stands(EntryOf(c, st), c)
<1>1. ledger.blocks \in Seq(Block(Event)) /\ Len(ledger.blocks) \in Nat
  BY DEF FilesInv, File
<1>2. Len(Chain(ledger.blocks)) = Len(ledger.blocks)
  BY <1>1, ChainType DEF Chain
<1>3. EntryOf(c, st) # NoEntry
  <2>1. "op" \in DOMAIN EntryOf(c, st) /\ "op" \notin DOMAIN NoEntry
    BY DEF EntryOf, NoEntry
  <2> QED
    BY <2>1
<1> QED
  BY <1>2, <1>3 DEF EntryOf, EventOf, Stands

\* The journal.
LEMMA JournalInformed ==
  ASSUME SerialInv, NEW t \in Threads,
         WriteJournalTmp(t) \/ RenameJournalTmp(t) \/ JournalWriteFails(t)
  PROVE  Informed(cmd[t])'
<1>0. /\ CmdInv /\ FilesInv /\ Informed(cmd[t]) /\ CommandShape(cmd[t])
      /\ ledger' = ledger /\ committed' = committed /\ issued' = issued
  BY DEF SerialInv, RecordInv, TypeInv, CmdInv, WriteJournalTmp, RenameJournalTmp,
     JournalWriteFails, diskVars, dbVars, ramVars
<1> USE DEF At
<1>1. ASSUME NEW p \in PCs, Goto(t, p)
      PROVE  /\ cmd'[t].pc = p /\ cmd'[t].op = cmd[t].op
             /\ cmd'[t].batch = cmd[t].batch /\ cmd'[t].handle = cmd[t].handle
             /\ EventOf(cmd'[t]) = EventOf(cmd[t])
  BY <1>0, <1>1, GotoFields
<1>2. cmd[t].pc \in {"stage", "stageRename", "mark", "markRename"} /\ Journalled(cmd[t])
  BY <1>0 DEF WriteJournalTmp, RenameJournalTmp, JournalWriteFails, CommandShape, Journalled
<1>3. cmd[t].handle = Chain(ledger.blocks)
  BY <1>0, <1>2 DEF Informed, HoldsLedger
<1>4. CASE WriteJournalTmp(t)
  <2>1. PICK st \in {"Prepared", "DbCommitted"} :
          /\ journalTmp' = EntryOf(cmd[t], st) /\ journal' = journal
          /\ \/ cmd[t].pc = "stage" /\ Goto(t, "stageRename")
             \/ cmd[t].pc = "mark" /\ Goto(t, "markRename")
    BY <1>4 DEF WriteJournalTmp
  <2>2. Stands(journalTmp', cmd[t])
    BY <1>0, <1>2, <1>3, <2>1, EntryStands
  <2>3. /\ cmd'[t].op = cmd[t].op /\ cmd'[t].batch = cmd[t].batch
        /\ cmd'[t].handle = cmd[t].handle /\ EventOf(cmd'[t]) = EventOf(cmd[t])
        /\ \/ cmd[t].pc = "stage" /\ cmd'[t].pc = "stageRename"
           \/ cmd[t].pc = "mark" /\ cmd'[t].pc = "markRename"
    BY <1>1, <2>1 DEF PCs
  <2> QED
    BY <1>0, <1>2, <2>1, <2>2, <2>3
       DEF Informed, HoldsLedger, PastTx, BeforeTx, Journalled, Stands
<1>5. CASE RenameJournalTmp(t)
  <2>1. /\ \/ cmd[t].pc = "stageRename" /\ Goto(t, "tx")
           \/ cmd[t].pc = "markRename" /\ Goto(t, "append")
        /\ journal' = journalTmp
    BY <1>5 DEF RenameJournalTmp
  <2>2. Stands(journalTmp, cmd[t])
    BY <1>0, <2>1 DEF Informed
  <2>3. /\ cmd'[t].op = cmd[t].op /\ cmd'[t].batch = cmd[t].batch
        /\ cmd'[t].handle = cmd[t].handle /\ EventOf(cmd'[t]) = EventOf(cmd[t])
        /\ \/ cmd[t].pc = "stageRename" /\ cmd'[t].pc = "tx"
           \/ cmd[t].pc = "markRename" /\ cmd'[t].pc = "append"
    BY <1>1, <2>1 DEF PCs
  <2> QED
    BY <1>0, <1>2, <2>1, <2>2, <2>3
       DEF Informed, HoldsLedger, PastTx, BeforeTx, Journalled, Stands
<1>6. CASE JournalWriteFails(t) /\ Done(t)
  BY <1>0, <1>6, PassiveInformed
<1>7. CASE JournalWriteFails(t) /\ Goto(t, "append") /\ cmd[t].pc \in {"mark", "markRename"}
  <2>1. /\ cmd'[t].op = cmd[t].op /\ cmd'[t].batch = cmd[t].batch
        /\ cmd'[t].handle = cmd[t].handle /\ EventOf(cmd'[t]) = EventOf(cmd[t])
        /\ cmd'[t].pc = "append" /\ journal' = journal
    BY <1>1, <1>7 DEF PCs, JournalWriteFails, jVars
  <2> QED
    BY <1>0, <1>2, <1>7, <2>1
       DEF Informed, HoldsLedger, PastTx, BeforeTx, Journalled, Stands
<1> QED
  BY <1>4, <1>5, <1>6, <1>7 DEF JournalWriteFails

\* The transactions.
LEMMA TxInformed ==
  ASSUME SerialInv, NEW t \in Threads,
         \/ TxActivate(t) \/ TxRevoke(t) \/ TxBurn(t) \/ TxBurnRejected(t)
         \/ TxLegacy(t) \/ TxFails(t)
  PROVE  Informed(cmd[t])'
<1>0. /\ CmdInv /\ Informed(cmd[t]) /\ NoPhantomRecords
      /\ ledger' = ledger /\ issued' = issued /\ cmd[t].pc = "tx"
  BY DEF SerialInv, RecordInv, TypeInv, CmdInv, TxActivate, TxRevoke, TxBurn,
     TxBurnRejected, TxLegacy, TxFails, diskVars, ramVars, At
<1>1. CASE TxBurnRejected(t) \/ TxFails(t)
  BY <1>0, <1>1, PassiveInformed DEF TxBurnRejected, TxFails
<1>2. CASE TxActivate(t) \/ TxBurn(t) \/ TxRevoke(t) \/ TxLegacy(t)
  <2>1. /\ \/ cmd[t].op \in {"activate", "burn"} /\ Goto(t, "mark")
           \/ cmd[t].op = "revoke" /\ Goto(t, "append")
           \/ cmd[t].op = "legacy" /\ Goto(t, "open")
        /\ journal' = journal
    BY <1>2 DEF TxActivate, TxBurn, TxRevoke, TxLegacy, jVars
  <2>2. /\ cmd'[t].op = cmd[t].op /\ cmd'[t].batch = cmd[t].batch
        /\ cmd'[t].handle = cmd[t].handle /\ EventOf(cmd'[t]) = EventOf(cmd[t])
        /\ \/ cmd[t].op \in {"activate", "burn"} /\ cmd'[t].pc = "mark"
           \/ cmd[t].op = "revoke" /\ cmd'[t].pc = "append"
           \/ cmd[t].op = "legacy" /\ cmd'[t].pc = "open"
    BY <1>0, <2>1, GotoFields
  <2>3. cmd[t].op # "revoke" => EventOf(cmd[t]) \notin EventsIn(ledger)
    BY <1>0, <2>1 DEF Informed, BeforeTx, NoPhantomRecords
  <2> QED
    BY <1>0, <2>1, <2>2, <2>3
       DEF Informed, HoldsLedger, PastTx, BeforeTx, Journalled, Stands
<1> QED
  BY <1>1, <1>2

\* After the transaction.
LEMMA AfterTxInformed ==
  ASSUME SerialInv, OneAtATime, NEW t \in Threads,
         \/ AppendBlock(t) \/ AppendFails(t) \/ CopyToMirror(t)
         \/ RenameMirror(t) \/ Finalize(t) \/ DropPending(t)
  PROVE  Informed(cmd[t])'
<1>1. CmdInv /\ Informed(cmd[t])
  BY DEF SerialInv, RecordInv, TypeInv
<1>2. issued' = issued
  BY DEF AppendBlock, AppendFails, CopyToMirror, RenameMirror, Finalize, DropPending, ramVars
<1>3. Done(t) \/ \E p \in {"copy", "copyRename", "finalize", "drop"} : Goto(t, p)
  BY DEF AppendBlock, AppendFails, CopyToMirror, RenameMirror, Finalize, DropPending,
     AfterMirror
<1> QED
  BY <1>1, <1>2, <1>3, PassiveInformed

\* Every command stays informed.
LEMMA InformedStep ==
  ASSUME SerialInv, OneAtATime, [Next]_vars, NEW u \in Threads
  PROVE  Informed(cmd[u])'
<1>0. /\ TypeInv /\ Informed(cmd[u]) /\ cmd \in [Threads -> Command] /\ StartsAlone
  BY DEF SerialInv, RecordInv, TypeInv, CmdInv
<1>1. ASSUME NEW a \in Accounts, Generate(a) \/ Cancel(a) \/ Expire(a)
      PROVE  Informed(cmd[u])'
  BY <1>0, <1>1, StillInformed DEF Generate, Cancel, Expire, diskVars, dbVars
<1>2. ASSUME NEW t \in Threads, Begin(t)
      PROVE  Informed(cmd[u])'
  BY <1>2, BeginInformed, OnlyThread
<1>3. ASSUME NEW t \in Threads, Step(t)
      PROVE  Informed(cmd[u])'
  BY <1>3, OpenInformed, JournalInformed, TxInformed, AfterTxInformed, OnlyThread DEF Step
<1>4. CASE Crash
  <2>1. cmd'[u] = Idle
    BY <1>4 DEF Crash
  <2> QED
    BY <2>1 DEF Informed, Idle, HoldsLedger, BeforeTx, PastTx, Journalled
<1>5. CASE Start \/ Reconcile \/ UsbChanges
  <2>1. /\ cmd' = cmd
        /\ boot.pc # "up" \/ UNCHANGED <<ledger, committed, jVars>>
    BY <1>5 DEF Start, Reconcile, ReconcileNothing, ReconcileGivesUp, ReconcileOpen,
       ReconcileAppend, ReconcileAppendFails, ReconcileCopy, ReconcileRename,
       ReconcileFinalize, UsbChanges, diskVars, dbVars
  <2> QED
    BY <1>0, <2>1, StillInformed DEF StartsAlone
<1>6. CASE UNCHANGED vars
  BY <1>0, <1>6, StillInformed DEF vars, diskVars, dbVars
<1> QED
  BY <1>1, <1>2, <1>3, <1>4, <1>5, <1>6 DEF Next

-----------------------------------------------------------------------------
(* What is pending. *)

\* Entries that go or stay, while nothing is activated.
LEMMA PendingKept ==
  ASSUME TypeInv, PendingNew, [Next]_vars,
         \A a \in Accounts : pending'[a].batch \in {pending[a].batch, NoBatch},
         \A a \in Accounts, b \in Nat :
           ActivationOf(a, b) \in committed' => ActivationOf(a, b) \in committed,
         \A a \in Accounts, t \in Threads :
           Activating(cmd[t]) /\ cmd[t].acct = a =>
             \/ pending'[a].batch = NoBatch
             \/ Activating(cmd'[t]) /\ cmd'[t].acct = a
  PROVE  PendingNew'
<1>1. issued \in Nat /\ issued' \in Nat /\ issued <= issued'
  BY IssuedGrows
<1>2. \A a \in Accounts : pending[a].batch \in Nat
  BY ConstantsOK DEF TypeInv, RamInv, Batches, NoBatch
<1> QED
  BY <1>1, <1>2 DEF PendingNew, NoBatch, ActivationOf, Activating

\* An activation goes on until it drops its batch.
LEMMA ActivationGoesOn ==
  ASSUME SerialInv, OneAtATime, NEW t \in Threads, Step(t), Activating(cmd[t]),
         ~DropPending(t)
  PROVE  Activating(cmd'[t]) /\ cmd'[t].acct = cmd[t].acct
<1>0. CmdInv /\ cmd[t].op = "activate"
  BY DEF SerialInv, RecordInv, TypeInv, Activating
<1>1. \E p \in {"mark", "markRename", "append", "copy", "copyRename", "finalize", "drop"} : Goto(t, p)
  BY <1>0 DEF Activating, OneAtATime, At, Step, Gate, MatchBatchCode, MatchLegacy, MatchNothing,
     CreateLedger, OpenLedger, OpenLedgerFails, WriteJournalTmp, RenameJournalTmp,
     JournalWriteFails, TxActivate, TxRevoke, TxBurn, TxBurnRejected, TxLegacy,
     TxFails, AppendBlock, AppendFails, CopyToMirror, RenameMirror, Finalize, AfterMirror
<1> QED
  BY <1>0, <1>1, GotoFields DEF Activating

\* A batch that is pending has not been activated, but for the one being activated.
LEMMA PendingStep ==
  ASSUME SerialInv, OneAtATime, [Next]_vars
  PROVE  PendingNew'
<1>0. /\ TypeInv /\ CmdInv /\ PendingNew /\ CommittedSound /\ StartsAlone
      /\ cmd \in [Threads -> Command]
      /\ pending \in [Accounts -> [batch : Batches \cup {NoBatch}, fresh : BOOLEAN]]
      /\ issued \in Nat
  BY ConstantsOK DEF SerialInv, RecordInv, TypeInv, CmdInv, RamInv
<1>1. \A a \in Accounts : pending[a].batch \in Nat
  BY <1>0, ConstantsOK DEF Batches, NoBatch
<1>2. ASSUME NEW a \in Accounts, Generate(a)
      PROVE  PendingNew'
  <2>1. /\ pending'[a].batch = issued + 1 /\ issued' = issued + 1
        /\ \A b \in Accounts : b # a => pending'[b] = pending[b]
        /\ cmd' = cmd /\ committed' = committed
    BY <1>0, <1>2 DEF Generate, dbVars
  <2>2. ActivationOf(a, issued + 1) \notin committed
    <3>1. ActivationOf(a, issued + 1) \in committed => issued + 1 <= issued
      BY <1>0 DEF CommittedSound, CommittedOf, ActivationOf
    <3> QED
      BY <1>0, <3>1
  <2>3. ASSUME NEW b \in Accounts, b # a
        PROVE  /\ pending'[b].batch <= issued'
               /\ pending'[b].batch # NoBatch /\ ActivationOf(b, pending'[b].batch) \in committed' =>
                    \E t \in Threads : Activating(cmd'[t]) /\ cmd'[t].acct = b
    <3>1. pending[b].batch <= issued + 1
      BY <1>0, <1>1 DEF PendingNew
    <3> QED
      BY <1>0, <2>1, <2>3, <3>1 DEF PendingNew
  <2> QED
    BY <1>0, <2>1, <2>2, <2>3 DEF PendingNew, ActivationOf, Activating
<1>3. ASSUME NEW a \in Accounts, Cancel(a) \/ Expire(a)
      PROVE  PendingNew'
  <2>1. /\ cmd' = cmd /\ committed' = committed
        /\ \A b \in Accounts : pending'[b].batch \in {pending[b].batch, NoBatch}
    BY <1>0, <1>3 DEF Cancel, Expire, NoPending, dbVars
  <2> QED
    BY <1>0, <2>1, PendingKept
<1>4. ASSUME NEW t \in Threads, Begin(t)
      PROVE  PendingNew'
  <2>1. /\ cmd[t].pc = "idle" /\ committed' = committed
        /\ \A b \in Accounts : pending'[b].batch \in {pending[b].batch, NoBatch}
    BY <1>0, <1>4 DEF Begin, BeginActivate, RejectExpired, BeginRevoke, BeginForgot,
       CanBegin, At, NoPending, dbVars, ramVars
  <2>2. \A u \in Threads : ~Activating(cmd[u])
    BY <2>1, OnlyThread DEF Activating
  <2> QED
    BY <1>0, <2>1, <2>2, PendingKept
<1>5. ASSUME NEW t \in Threads, Step(t)
      PROVE  PendingNew'
  <2>1. CASE TxActivate(t)
    <3>1. /\ cmd[t].op = "activate" /\ Goto(t, "mark") /\ committed' = committed \cup {EventOf(cmd[t])}
          /\ UNCHANGED <<pending, issued>> /\ cmd[t].row = NoRow
      BY <1>0, <2>1 DEF TxActivate, Commit, ramVars, CmdInv, CommandShape
    <3>2. Activating(cmd'[t]) /\ cmd'[t].acct = cmd[t].acct
      BY <1>0, <3>1, GotoFields DEF Activating
    <3>3. EventOf(cmd[t]) = ActivationOf(cmd[t].acct, cmd[t].batch)
      BY <3>1, EventFields
    <3>4. \A u \in Threads : ~Activating(cmd[u])
      BY <2>1, OnlyThread DEF Activating, TxActivate, At
    <3>5. \A a \in Accounts, b \in Nat :
            ActivationOf(a, b) \in committed' => ActivationOf(a, b) \in committed \/ a = cmd[t].acct
      BY <3>1, <3>3 DEF ActivationOf
    <3> QED
      BY <1>0, <1>1, <3>1, <3>2, <3>4, <3>5 DEF PendingNew, ActivationOf, Activating
  <2>2. CASE DropPending(t)
    <3>1. /\ committed' = committed
          /\ \A b \in Accounts : pending'[b].batch \in {pending[b].batch, NoBatch}
          /\ cmd[t].acct \in Accounts => pending'[cmd[t].acct].batch = NoBatch
      BY <1>0, <2>2 DEF DropPending, NoPending, dbVars
    <3> QED
      BY <1>0, <3>1, OnlyThread, PendingKept
  <2>3. CASE ~TxActivate(t) /\ ~DropPending(t)
    <3>1. pending' = pending
      BY <1>5, <2>3 DEF ramVars, Step, Gate, MatchBatchCode, MatchLegacy, MatchNothing,
         CreateLedger, OpenLedger, OpenLedgerFails, WriteJournalTmp, RenameJournalTmp,
         JournalWriteFails, TxRevoke, TxBurn, TxBurnRejected, TxLegacy,
         TxFails, AppendBlock, AppendFails, CopyToMirror, RenameMirror, Finalize
    <3>2. \/ committed' = committed
          \/ /\ cmd[t].op \in {"revoke", "burn", "legacy"}
             /\ committed' = committed \cup {EventOf(cmd[t])}
      BY <1>5, <2>3 DEF Commit, dbVars, Step, Gate, MatchBatchCode, MatchLegacy, MatchNothing,
         CreateLedger, OpenLedger, OpenLedgerFails, WriteJournalTmp, RenameJournalTmp,
         JournalWriteFails, TxRevoke, TxBurn, TxBurnRejected, TxLegacy,
         TxFails, AppendBlock, AppendFails, CopyToMirror, RenameMirror, Finalize
    <3>3. \A a \in Accounts, b \in Nat :
            ActivationOf(a, b) \in committed' => ActivationOf(a, b) \in committed
      BY <3>2, EventFields DEF ActivationOf
    <3>4. Activating(cmd[t]) => Activating(cmd'[t]) /\ cmd'[t].acct = cmd[t].acct
      BY <1>5, <2>3, ActivationGoesOn
    <3> QED
      BY <1>0, <3>1, <3>3, <3>4, OnlyThread, PendingKept
  <2> QED
    BY <2>1, <2>2, <2>3
<1>6. CASE Crash
  <2>1. committed' = committed /\ \A a \in Accounts : pending'[a].batch = NoBatch
    BY <1>6 DEF Crash, NoPending, dbVars
  <2> QED
    BY <1>0, <2>1, PendingKept
<1>7. CASE Start \/ Reconcile \/ UsbChanges \/ UNCHANGED vars
  <2>1. UNCHANGED <<cmd, pending, committed>>
    BY <1>7 DEF Start, Reconcile, ReconcileNothing, ReconcileGivesUp, ReconcileOpen,
       ReconcileAppend, ReconcileAppendFails, ReconcileCopy, ReconcileRename,
       ReconcileFinalize, UsbChanges, dbVars, ramVars, vars
  <2> QED
    BY <1>0, <2>1, PendingKept
<1> QED
  BY <1>2, <1>3, <1>4, <1>5, <1>6, <1>7 DEF Next

-----------------------------------------------------------------------------
(* The journal, and what it makes the ledger owe. *)

\* The three things that can happen to the journal.
LEMMA JournalSteps ==
  ASSUME [Next]_vars
  PROVE  /\ \/ journal' \in {journal, NoEntry}
            \/ \E t \in Threads : RenameJournalTmp(t)
         /\ \/ journalTmp' \in {journalTmp, NoEntry}
            \/ \E t \in Threads : WriteJournalTmp(t)
<1>1. ASSUME NEW a \in Accounts, Generate(a) \/ Cancel(a) \/ Expire(a)
      PROVE  UNCHANGED <<journal, journalTmp>>
  BY <1>1 DEF Generate, Cancel, Expire, jVars
<1>2. ASSUME NEW t \in Threads, Begin(t)
      PROVE  UNCHANGED <<journal, journalTmp>>
  BY <1>2 DEF Begin, BeginActivate, RejectExpired, BeginRevoke, BeginForgot, jVars
<1>3. ASSUME NEW t \in Threads, Step(t), ~RenameJournalTmp(t), ~WriteJournalTmp(t)
      PROVE  journal' \in {journal, NoEntry} /\ journalTmp' \in {journalTmp, NoEntry}
  BY <1>3 DEF FinalizeJournal, jVars, Step, Gate, MatchBatchCode, MatchLegacy, MatchNothing,
     CreateLedger, OpenLedger, OpenLedgerFails,
     JournalWriteFails, TxActivate, TxRevoke, TxBurn, TxBurnRejected, TxLegacy,
     TxFails, AppendBlock, AppendFails, CopyToMirror, RenameMirror, Finalize, DropPending
<1>4. ASSUME NEW t \in Threads
      PROVE  /\ WriteJournalTmp(t) => journal' = journal
             /\ RenameJournalTmp(t) => journalTmp' = NoEntry
  BY DEF WriteJournalTmp, RenameJournalTmp
<1>5. CASE Crash \/ Start \/ Reconcile \/ UsbChanges
  BY <1>5 DEF Crash, Start, Reconcile, ReconcileNothing, ReconcileGivesUp, ReconcileOpen,
     ReconcileAppend, ReconcileAppendFails, ReconcileCopy, ReconcileRename,
     ReconcileFinalize, UsbChanges, FinalizeJournal, jVars
<1>6. CASE UNCHANGED vars
  BY <1>6 DEF vars, jVars
<1> QED
  BY <1>1, <1>2, <1>3, <1>4, <1>5, <1>6 DEF Next

\* Who writes the journal holds the ledger.
LEMMA NeedsLedgerStep ==
  ASSUME SerialInv, [Next]_vars
  PROVE  JournalNeedsLedger'
<1>1. ledger.made => ledger'.made
  BY LedgerGrows DEF SerialInv
<1>2. ASSUME NEW t \in Threads, WriteJournalTmp(t)
      PROVE  ledger.made
  BY <1>2 DEF WriteJournalTmp, At, HoldsLedger, SerialInv, MirrorInv
<1>3. ASSUME NEW t \in Threads, RenameJournalTmp(t)
      PROVE  ledger.made
  BY <1>3 DEF RenameJournalTmp, SerialInv, JournalNeedsLedger
<1> QED
  BY <1>1, <1>2, <1>3, JournalSteps DEF SerialInv, JournalNeedsLedger

\* The target of the journal stays within reach.
LEMMA TargetStep ==
  ASSUME SerialInv, OneAtATime, [Next]_vars
  PROVE  TargetReached'
<1>0. /\ TypeInv /\ TargetReached /\ ledger \in File(Event) /\ Len(ledger.blocks) \in Nat
      /\ NoPhantomRecords
  BY DEF SerialInv, RecordInv, TypeInv, FilesInv, File
<1>1. journal # NoEntry => journal.target \in Nat
  BY <1>0 DEF TypeInv, JournalInv, Entry
<1>2. CASE journal' = NoEntry
  BY <1>2 DEF TargetReached
<1>3. ASSUME NEW t \in Threads, RenameJournalTmp(t)
      PROVE  TargetReached'
  <2>1. /\ cmd[t].pc \in {"stageRename", "markRename"} /\ Informed(cmd[t])
        /\ journal' = journalTmp /\ ledger' = ledger /\ Journalled(cmd[t])
    BY <1>0, <1>3 DEF RenameJournalTmp, At, SerialInv, diskVars, TypeInv, CmdInv,
       CommandShape, Journalled
  <2>2. Stands(journalTmp, cmd[t])
    BY <2>1 DEF Informed
  <2>3. EventOf(cmd[t]) \notin EventsIn(ledger)
    BY <1>0, <2>1 DEF Informed, BeforeTx, PastTx, NoPhantomRecords, Journalled
  <2>4. EventOf(journal') = EventOf(cmd[t]) /\ journal'.target = Len(ledger'.blocks) + 1
    BY <2>1, <2>2 DEF Stands
  <2> QED
    BY <1>0, <2>1, <2>3, <2>4 DEF TargetReached
<1>4. CASE journal' = journal
  <2>1. CASE ledger' = ledger
    BY <1>0, <1>4, <2>1 DEF TargetReached
  <2>2. CASE ~ledger.made /\ ledger' = NewFile
    <3>1. journal = NoEntry
      BY <2>2 DEF SerialInv, JournalNeedsLedger
    <3> QED
      BY <1>4, <3>1 DEF TargetReached
  <2>3. ASSUME NEW e \in Event, Verifies(ledger),
               ledger' = Extend(ledger, Chain(ledger.blocks), e),
               e.type = "BatchRevoked" \/ e \notin EventsIn(ledger)
        PROVE  TargetReached'
    <3>1. /\ Len(ledger'.blocks) = Len(ledger.blocks) + 1
          /\ EventsIn(ledger') = EventsIn(ledger) \cup {e}
      BY <1>0, <2>3, ExtendOnce DEF SerialInv, RecordedOnce, OnceEach
    <3> QED
      BY <1>0, <1>1, <1>4, <3>1 DEF TargetReached
  <2> QED
    BY <2>1, <2>2, <2>3, LedgerTakes
<1> QED
  BY <1>2, <1>3, <1>4, JournalSteps

\* What is not committed the reconciler does not find in the database.
LEMMA NotFound ==
  ASSUME RowsExplained, TypeInv, NEW j \in Entry, EntryShape(j), j # NoEntry,
         EventOf(j) \notin committed
  PROVE  ~IsDbCommitted(j)
<1>1. /\ j.acct \in Accounts /\ j.batch \in Batches /\ j.op \in {"activate", "burn"}
      /\ \A b \in Batches : b # NoBatch
  BY ConstantsOK DEF Entry, Batches, NoBatch
<1>2. CASE j.op = "activate"
  <2>1. EventOf(j) = ActivationOf(j.acct, j.batch)
    BY <1>2, EventFields DEF EntryShape
  <2> QED
    BY <1>1, <1>2, <2>1 DEF IsDbCommitted, RowsExplained, ActivatedEvent, ActivationOf
<1>3. CASE j.op = "burn"
  <2> SUFFICES ASSUME HasRow(j.acct, j.batch, j.row), j.row.code \in rows[j.acct].used
               PROVE  FALSE
    BY <1>3 DEF IsDbCommitted
  <2>1. j.row = [gen |-> rows[j.acct].gen, code |-> j.row.code]
    BY <1>3 DEF HasRow, EntryShape, Rows
  <2>2. EventOf(j) = BurnedEvent(j.acct, j.row.code)
    BY <1>3, <2>1 DEF HasRow, EventOf, EventType, BurnedEvent
  <2> QED
    BY <1>1, <2>2 DEF RowsExplained
<1> QED
  BY <1>1, <1>2, <1>3

\* An event in the ledger stays there.
LEMMA RecordedStays ==
  ASSUME TypeInv, TypeInv', PrefixOf(ledger, ledger'), NEW j \in Entry, Recorded(j)
  PROVE  Recorded(j)'
<1>1. Len(ledger.blocks) \in Nat /\ Len(ledger'.blocks) \in Nat /\ j.target \in Nat
  BY DEF TypeInv, FilesInv, File, Entry
<1>2. /\ Len(ledger.blocks) <= Len(ledger'.blocks)
      /\ \A i \in 1..Len(ledger.blocks) : ledger'.blocks[i] = ledger.blocks[i]
  BY DEF PrefixOf
<1>3. CASE j.op = "activate"
  BY <1>1, <1>2, <1>3 DEF Recorded
<1>4. CASE j.op # "activate"
  BY <1>1, <1>2, <1>4 DEF Recorded
<1> QED
  BY <1>3, <1>4

\* No debt comes from a step that leaves journal and database alone.
LEMMA NoNewDebt ==
  ASSUME SerialInv, [Next]_vars, ~Owed, journal' \in {journal, NoEntry}, rows' = rows
  PROVE  ~Owed'
<1>1. TypeInv /\ TypeInv' /\ PrefixOf(ledger, ledger')
  BY LedgerGrows, TypeStep DEF SerialInv, RecordInv
<1>2. CASE journal' = NoEntry
  BY <1>2 DEF Owed
<1>3. CASE journal' = journal /\ journal # NoEntry
  <2>1. journal \in Entry
    BY <1>1, <1>3 DEF TypeInv, JournalInv
  <2>2. IsDbCommitted(journal)' => IsDbCommitted(journal)
    BY <1>3 DEF IsDbCommitted, HasRow
  <2>3. Recorded(journal) => Recorded(journal)'
    BY <1>1, <1>3, <2>1, RecordedStays DEF Recorded
  <2> QED
    BY <1>3, <2>2, <2>3 DEF Owed
<1> QED
  BY <1>2, <1>3

\* An append pays what the journal of the command or of the last run owes.
LEMMA AppendPays ==
  ASSUME SerialInv, OneAtATime, [Next]_vars, journal # NoEntry, journal' = journal,
         NEW h \in Seq(Event), ledger' = Extend(ledger, h, EventOf(journal)),
         journal.op = "burn" => journal.target <= Len(ledger.blocks) + 1
  PROVE  ~Owed'
<1>1. /\ TypeInv /\ ledger \in File(Event) /\ Len(ledger.blocks) \in Nat
      /\ journal \in Entry /\ EntryShape(journal)
  BY DEF SerialInv, RecordInv, TypeInv, FilesInv, File, JournalInv
<1>2. EventOf(journal) \in Event
  BY <1>1, EventOfType DEF Entry, Ops
<1>3. /\ Len(ledger'.blocks) = Len(ledger.blocks) + 1
      /\ ledger'.blocks[Len(ledger.blocks) + 1].event = EventOf(journal)
  BY <1>1, <1>2, ExtendPrefix, ExtendLast
<1>4. CASE journal.op = "activate"
  <2>1. /\ EventOf(journal).type = "BatchActivated" /\ EventOf(journal).acct = journal.acct
        /\ EventOf(journal).batch = journal.batch
    BY <1>4, EventFields
  <2>2. Len(ledger.blocks) + 1 \in 1..Len(ledger'.blocks)
    BY <1>1, <1>3
  <2> QED
    BY <1>3, <1>4, <2>1, <2>2 DEF Owed, Recorded
<1>5. CASE journal.op = "burn"
  BY <1>1, <1>3, <1>5 DEF Owed, Recorded, Entry
<1> QED
  BY <1>1, <1>4, <1>5 DEF Entry

\* A revocation makes no journal true.
LEMMA RevokeOwesNothing ==
  ASSUME SerialInv, [Next]_vars, ~Owed, NEW t \in Threads, TxRevoke(t)
  PROVE  ~Owed'
<1>1. TypeInv /\ DbInv /\ cmd[t].acct \in Accounts
  BY DEF SerialInv, RecordInv, TypeInv, CmdInv, CommandShape, TxRevoke, At
<1>2. /\ journal' = journal /\ ledger' = ledger
      /\ rows' = [rows EXCEPT ![cmd[t].acct] = NoRows]
  BY DEF TxRevoke, jVars, diskVars
<1> SUFFICES ASSUME journal # NoEntry, IsDbCommitted(journal)'
             PROVE  IsDbCommitted(journal)
  BY <1>2 DEF Owed, Recorded
<1>3. /\ journal.acct \in Accounts /\ journal.batch \in Batches
      /\ \A b \in Batches : b # NoBatch
  BY <1>1, ConstantsOK DEF TypeInv, JournalInv, Entry, Batches, NoBatch
<1>4. CASE journal.acct = cmd[t].acct
  <2>1. rows'[journal.acct].batch = NoBatch
    BY <1>1, <1>2, <1>4 DEF DbInv, NoRows
  <2> QED
    BY <1>2, <1>3, <2>1 DEF IsDbCommitted, HasRow
<1>5. CASE journal.acct # cmd[t].acct
  <2>1. rows'[journal.acct] = rows[journal.acct]
    BY <1>1, <1>2, <1>3, <1>5 DEF DbInv
  <2> QED
    BY <1>2, <2>1 DEF IsDbCommitted, HasRow
<1> QED
  BY <1>4, <1>5

\* A command owes a block from its transaction to its append only.
LEMMA CommandDebts ==
  ASSUME SerialInv, OneAtATime, [Next]_vars, NEW t \in Threads, Step(t)
  PROVE  Owed' => PastTx(cmd'[t]) /\ Journalled(cmd'[t])
<1>0. /\ TypeInv /\ CmdInv /\ Informed(cmd[t]) /\ CommandShape(cmd[t]) /\ RowsExplained
      /\ JournalInv /\ FilesInv /\ cmd[t] \in Command
  BY DEF SerialInv, RecordInv, TypeInv, CmdInv
<1>1. boot.pc = "up" /\ (Owed => PastTx(cmd[t]) /\ Journalled(cmd[t]))
  <2>1. boot.pc = "up"
    BY DEF Step, Gate, MatchBatchCode, MatchLegacy, MatchNothing,
       CreateLedger, OpenLedger, OpenLedgerFails, WriteJournalTmp, RenameJournalTmp,
       JournalWriteFails, TxActivate, TxRevoke, TxBurn, TxBurnRejected, TxLegacy,
       TxFails, AppendBlock, AppendFails, CopyToMirror, RenameMirror, Finalize, DropPending, At
  <2> QED
    BY <2>1, OnlyThread DEF SerialInv, Debts
<1> USE DEF At
<1>2. CASE TxActivate(t) \/ TxBurn(t)
  <2>1. cmd[t].op \in {"activate", "burn"} /\ Goto(t, "mark")
    BY <1>2 DEF TxActivate, TxBurn
  <2> QED
    BY <1>0, <2>1, GotoFields DEF PastTx, Journalled
<1>3. CASE cmd[t].pc \in {"mark", "markRename"}
  <2>1. /\ \E p \in {"markRename", "append"} : Goto(t, p)
        /\ cmd[t].op \in {"activate", "burn"}
    BY <1>0, <1>3 DEF CommandShape, Step, Gate, MatchBatchCode, MatchLegacy, MatchNothing,
       CreateLedger, OpenLedger, OpenLedgerFails, WriteJournalTmp, RenameJournalTmp,
       JournalWriteFails, TxActivate, TxRevoke, TxBurn, TxBurnRejected, TxLegacy,
       TxFails, AppendBlock, AppendFails, CopyToMirror, RenameMirror, Finalize, DropPending
  <2> QED
    BY <1>0, <2>1, GotoFields DEF PastTx, Journalled
<1>4. CASE TxRevoke(t)
  <2>1. ~Owed
    BY <1>1, <1>4 DEF TxRevoke, PastTx
  <2> QED
    BY <1>4, <2>1, RevokeOwesNothing
<1>5. CASE RenameJournalTmp(t) /\ cmd[t].pc = "stageRename"
  <2>1. /\ Stands(journalTmp, cmd[t]) /\ EventOf(cmd[t]) \notin committed
        /\ journal' = journalTmp /\ rows' = rows
    BY <1>0, <1>5 DEF Informed, BeforeTx, CommandShape, RenameJournalTmp, dbVars
  <2>2. EventOf(journalTmp) \notin committed /\ journalTmp # NoEntry
    BY <2>1 DEF Stands
  <2>3. ~IsDbCommitted(journalTmp)
    BY <1>0, <2>2, NotFound DEF JournalInv
  <2>4. ~IsDbCommitted(journal)'
    BY <2>1, <2>3 DEF IsDbCommitted, HasRow
  <2> QED
    BY <2>4 DEF Owed
<1>6. CASE AppendBlock(t) /\ Journalled(cmd[t])
  <2>1. Stands(journal, cmd[t])
    BY <1>0, <1>6 DEF AppendBlock, Informed
  <2>2. /\ cmd[t].handle \in Seq(Event) /\ journal # NoEntry /\ journal' = journal
        /\ ledger' = Extend(ledger, cmd[t].handle, EventOf(journal))
        /\ journal.target = Len(ledger.blocks) + 1
    BY <1>0, <1>6, <2>1 DEF AppendBlock, Stands, Command, jVars
  <2>3. Len(ledger.blocks) \in Nat
    BY <1>0 DEF FilesInv, File
  <2> QED
    BY <2>2, <2>3, AppendPays
<1>7. ASSUME ~TxActivate(t), ~TxBurn(t), ~TxRevoke(t), cmd[t].pc \notin {"mark", "markRename"},
             ~(RenameJournalTmp(t) /\ cmd[t].pc = "stageRename"),
             ~(AppendBlock(t) /\ Journalled(cmd[t]))
      PROVE  ~Owed'
  <2>1. journal' \in {journal, NoEntry} /\ rows' = rows
    BY <1>7 DEF FinalizeJournal, dbVars, jVars, Step, Gate, MatchBatchCode, MatchLegacy,
       MatchNothing, CreateLedger, OpenLedger, OpenLedgerFails, WriteJournalTmp,
       RenameJournalTmp, JournalWriteFails, TxBurnRejected, TxLegacy,
       TxFails, AppendBlock, AppendFails, CopyToMirror, RenameMirror, Finalize, DropPending
  <2>2. ~(PastTx(cmd[t]) /\ Journalled(cmd[t]))
    <3>1. CASE cmd[t].pc = "append"
      BY <1>7, <3>1 DEF Step, OneAtATime, Gate, MatchBatchCode, MatchLegacy,
         MatchNothing, CreateLedger, OpenLedger, OpenLedgerFails, WriteJournalTmp,
         RenameJournalTmp, JournalWriteFails, TxBurnRejected, TxLegacy,
         TxFails, AppendFails, CopyToMirror, RenameMirror, Finalize, DropPending
    <3>2. CASE cmd[t].pc # "append"
      BY <1>7, <3>2 DEF PastTx, Journalled
    <3> QED
      BY <3>1, <3>2
  <2> QED
    BY <1>1, <2>1, <2>2, NoNewDebt
<1> QED
  BY <1>2, <1>3, <1>4, <1>5, <1>6, <1>7

\* The reconciler pays what is owed before commands run.
LEMMA ReconcilerDebts ==
  ASSUME SerialInv, OneAtATime, [Next]_vars, Reconcile
  PROVE  Debts'
<1>0. /\ TypeInv /\ JournalInv /\ LedgerVerifies /\ BootInv /\ boot.pc # "up" /\ boot.pc # "down"
      /\ \A t \in Threads : ~PastTx(cmd[t])
  <2>1. boot.pc # "up" /\ boot.pc # "down"
    BY DEF Reconcile, ReconcileNothing, ReconcileGivesUp, ReconcileOpen,
       ReconcileAppend, ReconcileAppendFails, ReconcileCopy, ReconcileRename, ReconcileFinalize
  <2> QED
    BY <2>1 DEF SerialInv, RecordInv, TypeInv, StartsAlone, PastTx
<1>1. boot.pc \notin {"read", "append"} => ~Owed
  BY <1>0 DEF SerialInv, Debts
<1> USE DEF BootTo
<1>2. CASE ReconcileNothing
  <2>1. CASE journal' = NoEntry
    BY <1>2, <2>1 DEF Debts, Owed, ReconcileNothing
  <2>2. CASE journal' = journal
    <3>1. ~Owed
      BY <1>2, <2>2 DEF ReconcileNothing, Owed
    <3>2. ~Owed'
      BY <1>2, <2>2, <3>1, NoNewDebt DEF ReconcileNothing, dbVars
    <3> QED
      BY <1>2, <3>2 DEF Debts, ReconcileNothing
  <2> QED
    BY <1>2, <2>1, <2>2 DEF ReconcileNothing, FinalizeJournal, jVars
<1>3. CASE ReconcileGivesUp
  BY <1>0, <1>3 DEF ReconcileGivesUp, SerialInv, JournalNeedsLedger, LedgerVerifies
<1>4. CASE ReconcileOpen
  <2>1. /\ journal' = journal /\ rows' = rows /\ ledger' = ledger
        /\ journal # NoEntry /\ IsDbCommitted(journal)
    BY <1>4 DEF ReconcileOpen, jVars, dbVars, diskVars
  <2>2. Owed' <=> ~Recorded(journal)
    BY <2>1 DEF Owed, IsDbCommitted, HasRow, Recorded
  <2>3. /\ Recorded(journal) => boot'.pc = "finalize"
        /\ ~Recorded(journal) => boot'.pc = "append"
        /\ boot'.handle = Chain(ledger.blocks)
    BY <1>4 DEF ReconcileOpen
  <2> QED
    BY <2>1, <2>2, <2>3 DEF Debts
<1>5. CASE ReconcileAppend
  <2>1. /\ journal # NoEntry /\ journal' = journal /\ boot.handle \in Seq(Event)
        /\ ledger' = Extend(ledger, boot.handle, EventOf(journal)) /\ boot'.pc = "copy"
    BY <1>0, <1>5 DEF ReconcileAppend, BootInv, jVars
  <2>2. ~Owed'
    BY <2>1, AppendPays DEF SerialInv, TargetReached
  <2> QED
    BY <2>1, <2>2 DEF Debts
<1>6. CASE ReconcileAppendFails
  BY <1>6 DEF ReconcileAppendFails, OneAtATime
<1>7. CASE ReconcileCopy \/ ReconcileRename \/ ReconcileFinalize
  <2>1. journal' \in {journal, NoEntry} /\ rows' = rows /\ ~Owed /\ boot'.pc # "append"
    BY <1>1, <1>7 DEF ReconcileCopy, ReconcileRename, ReconcileFinalize, FinalizeJournal,
       dbVars, jVars
  <2>2. ~Owed'
    BY <2>1, NoNewDebt
  <2> QED
    BY <2>1, <2>2 DEF Debts
<1> QED
  BY <1>2, <1>3, <1>4, <1>5, <1>6, <1>7 DEF Reconcile

\* Debts are paid by the command or by the next start.
LEMMA DebtsStep ==
  ASSUME SerialInv, OneAtATime, [Next]_vars
  PROVE  Debts'
<1>0. Debts /\ TypeInv /\ cmd \in [Threads -> Command]
  BY DEF SerialInv, RecordInv, TypeInv, CmdInv
<1>1. CASE UNCHANGED <<ledger, rows, journal, cmd, boot>>
  BY <1>0, <1>1 DEF Debts, Owed, IsDbCommitted, HasRow, Recorded
<1>2. ASSUME NEW a \in Accounts, Generate(a) \/ Cancel(a) \/ Expire(a)
      PROVE  Debts'
  BY <1>1, <1>2 DEF Generate, Cancel, Expire, diskVars, dbVars, jVars
<1>3. ASSUME NEW t \in Threads, Begin(t)
      PROVE  Debts'
  <2>1. /\ UNCHANGED <<ledger, rows, journal, boot>> /\ cmd[t].pc = "idle" /\ boot.pc = "up"
    BY <1>3 DEF Begin, BeginActivate, RejectExpired, BeginRevoke, BeginForgot, CanBegin, At,
       diskVars, dbVars, jVars
  <2>2. ~Owed
    BY <1>0, <2>1, OnlyThread DEF Debts, PastTx
  <2> QED
    BY <2>1, <2>2 DEF Debts, Owed, IsDbCommitted, HasRow, Recorded
<1>4. ASSUME NEW t \in Threads, Step(t)
      PROVE  Debts'
  <2>1. boot' = boot /\ boot.pc = "up"
    BY <1>4 DEF Step, Gate, MatchBatchCode, MatchLegacy, MatchNothing,
       CreateLedger, OpenLedger, OpenLedgerFails, WriteJournalTmp, RenameJournalTmp,
       JournalWriteFails, TxActivate, TxRevoke, TxBurn, TxBurnRejected, TxLegacy,
       TxFails, AppendBlock, AppendFails, CopyToMirror, RenameMirror, Finalize, DropPending, At
  <2> QED
    BY <1>4, <2>1, CommandDebts DEF Debts
<1>5. CASE Crash \/ Start
  BY <1>5 DEF Crash, Start, BootTo, Debts
<1>6. CASE Reconcile
  BY <1>6, ReconcilerDebts
<1>7. CASE UsbChanges \/ UNCHANGED vars
  BY <1>1, <1>7 DEF UsbChanges, vars, diskVars, dbVars, jVars
<1> QED
  BY <1>2, <1>3, <1>4, <1>5, <1>6, <1>7 DEF Next

\* Nothing replaces the rows of a command between its transaction and its append.
LEMMA EffectStep ==
  ASSUME SerialInv, OneAtATime, [Next]_vars, NEW u \in Threads
  PROVE  TookEffect(cmd[u])'
<1>0. /\ CmdInv /\ CommandShape(cmd[u]) /\ TookEffect(cmd[u]) /\ cmd \in [Threads -> Command]
      /\ rows \in [Accounts -> [batch : Batches \cup {NoBatch}, gen : Nat, used : SUBSET Codes]]
  BY DEF SerialInv, RecordInv, TypeInv, CmdInv, DbInv
<1>1. CASE UNCHANGED <<cmd, rows>>
  BY <1>0, <1>1 DEF TookEffect, IsDbCommitted, HasRow, PastTx, Journalled
<1>2. ASSUME NEW a \in Accounts, Generate(a) \/ Cancel(a) \/ Expire(a)
      PROVE  UNCHANGED <<cmd, rows>>
  BY <1>2 DEF Generate, Cancel, Expire, dbVars
<1>3. ASSUME NEW t \in Threads, Begin(t)
      PROVE  TookEffect(cmd[u])'
  <2>1. t = u /\ cmd[u].pc = "idle"
    BY <1>3, OnlyThread DEF Begin, BeginActivate, RejectExpired, BeginRevoke,
       BeginForgot, CanBegin, At
  <2>2. ASSUME NEW a \in Accounts, BeginActivate(t, a)
        PROVE  cmd'[u].pc = "open"
    BY <1>0, <2>1, <2>2 DEF BeginActivate, Idle
  <2>3. ASSUME NEW a \in Accounts, BeginRevoke(t, a)
        PROVE  cmd'[u].pc = "open"
    BY <1>0, <2>1, <2>3 DEF BeginRevoke, Idle
  <2>4. ASSUME NEW a \in Accounts, BeginForgot(t, a)
        PROVE  cmd'[u].pc = "gate"
    BY <1>0, <2>1, <2>4 DEF BeginForgot, Idle
  <2>5. ASSUME NEW a \in Accounts, RejectExpired(t, a)
        PROVE  cmd'[u].pc = "idle"
    BY <2>1, <2>5 DEF RejectExpired
  <2>6. cmd'[u].pc \in {"idle", "open", "gate"}
    BY <1>3, <2>2, <2>3, <2>4, <2>5 DEF Begin
  <2> QED
    BY <2>6 DEF TookEffect, PastTx, Journalled
<1>4. ASSUME NEW t \in Threads, TxActivate(t) \/ TxBurn(t)
      PROVE  TookEffect(cmd[u])'
  <2>1. /\ t = u /\ Goto(u, "mark") /\ cmd[u].pc = "tx" /\ cmd[u].acct \in Accounts
    BY <1>0, <1>4, OnlyThread DEF TxActivate, TxBurn, At, CommandShape
  <2>2. /\ cmd'[u].op = cmd[u].op /\ cmd'[u].acct = cmd[u].acct
        /\ cmd'[u].batch = cmd[u].batch /\ cmd'[u].row = cmd[u].row
    BY <1>0, <2>1, GotoFields
  <2>3. CASE TxActivate(u)
    BY <1>0, <2>1, <2>2, <2>3 DEF TxActivate, TookEffect, IsDbCommitted
  <2>4. CASE TxBurn(u)
    <3>1. rows' = [rows EXCEPT ![cmd[u].acct].used = @ \cup {cmd[u].row.code}]
      BY <2>4 DEF TxBurn
    <3>2. HasRow(cmd[u].acct, cmd[u].batch, cmd[u].row) /\ cmd[u].op = "burn"
      BY <2>4 DEF TxBurn, Unconsumed
    <3> QED
      BY <1>0, <2>1, <2>2, <3>1, <3>2 DEF TookEffect, IsDbCommitted, HasRow
  <2> QED
    BY <1>4, <2>1, <2>3, <2>4
<1>5. ASSUME NEW t \in Threads, Step(t), ~TxActivate(t), ~TxBurn(t)
      PROVE  TookEffect(cmd[u])'
  <2>1. t = u
    BY OnlyThread
  <2>2. CASE cmd[u].pc \in {"mark", "markRename"}
    <3>1. /\ \E p \in {"markRename", "append"} : Goto(u, p)
          /\ rows' = rows /\ cmd[u].op \in {"activate", "burn"}
      BY <1>0, <1>5, <2>1, <2>2 DEF CommandShape, Step, Gate, MatchBatchCode, MatchLegacy,
         MatchNothing, CreateLedger, OpenLedger, OpenLedgerFails, WriteJournalTmp,
         RenameJournalTmp, JournalWriteFails, TxRevoke, TxBurnRejected, TxLegacy,
         TxFails, AppendBlock, AppendFails, CopyToMirror, RenameMirror, Finalize,
         DropPending, At, dbVars
    <3>2. PastTx(cmd[u]) /\ Journalled(cmd[u]) /\ IsDbCommitted(cmd[u])
      BY <1>0, <2>2, <3>1 DEF PastTx, Journalled, TookEffect
    <3> QED
      BY <1>0, <3>1, <3>2, GotoFields DEF TookEffect, IsDbCommitted, HasRow
  <2>3. CASE cmd[u].pc \notin {"mark", "markRename"}
    <3>1. \/ cmd'[u].pc \notin {"mark", "markRename", "append"}
          \/ cmd'[u].op \notin {"activate", "burn"}
      <4>1. CASE Gate(u) \/ MatchBatchCode(u) \/ MatchLegacy(u) \/ MatchNothing(u)
        BY <1>0, <4>1 DEF Gate, MatchBatchCode, MatchLegacy, MatchNothing, At, Goto, Done,
           Idle, Command
      <4>2. CASE CreateLedger(u) \/ OpenLedger(u) \/ OpenLedgerFails(u)
        <5> DEFINE next == AfterOpen(cmd[u].op)
        <5>1. /\ cmd[u].op \in {"activate", "burn"} => next = "stage"
              /\ cmd[u].op = "revoke" => next = "tx"
              /\ cmd[u].op = "legacy" => next = "append"
          BY DEF AfterOpen
        <5>2. cmd[u].pc = "open" /\ cmd[u].op \in {"activate", "burn", "revoke", "legacy"}
          BY <1>0, <4>2 DEF CreateLedger, OpenLedger, OpenLedgerFails, CommandShape, At, Ops
        <5> HIDE DEF next
        <5>3. CASE Goto(u, next)
          BY <1>0, <5>1, <5>2, <5>3 DEF Goto, Command
        <5>4. CASE cmd' = [cmd EXCEPT ![u].handle = Chain(ledger.blocks), ![u].pc = next]
          BY <1>0, <5>1, <5>2, <5>4 DEF Command
        <5>5. CASE Done(u)
          BY <1>0, <5>5 DEF Done, Idle
        <5> QED
          BY <4>2, <5>3, <5>4, <5>5 DEF CreateLedger, OpenLedger, OpenLedgerFails, next
      <4>3. CASE WriteJournalTmp(u) \/ RenameJournalTmp(u) \/ JournalWriteFails(u)
        <5>1. Goto(u, "stageRename") \/ Goto(u, "tx") \/ Done(u)
          BY <2>3, <4>3 DEF WriteJournalTmp, RenameJournalTmp, JournalWriteFails, At
        <5>2. ASSUME NEW p \in {"stageRename", "tx"}, Goto(u, p)
              PROVE  cmd'[u].pc = p
          BY <1>0, <5>2, GotoFields
        <5>3. CASE Done(u)
          BY <1>0, <5>3 DEF Done, Idle
        <5> QED
          BY <5>1, <5>2, <5>3
      <4>4. CASE TxRevoke(u) \/ TxBurnRejected(u) \/ TxLegacy(u) \/ TxFails(u)
        <5>1. \/ cmd[u].op = "revoke" /\ Goto(u, "append")
              \/ Goto(u, "open") \/ Done(u)
          BY <4>4 DEF TxRevoke, TxBurnRejected, TxLegacy, TxFails
        <5>2. CASE cmd[u].op = "revoke" /\ Goto(u, "append")
          BY <1>0, <5>2, GotoFields
        <5>3. CASE Goto(u, "open")
          BY <1>0, <5>3, GotoFields
        <5>4. CASE Done(u)
          BY <1>0, <5>4 DEF Done, Idle
        <5> QED
          BY <5>1, <5>2, <5>3, <5>4
      <4>5. CASE AppendBlock(u) \/ AppendFails(u) \/ CopyToMirror(u) \/ RenameMirror(u)
        <5>1. Goto(u, "copy") \/ Goto(u, "copyRename") \/ Goto(u, "finalize") \/ Done(u)
          BY <4>5 DEF AppendBlock, AppendFails, CopyToMirror, RenameMirror, AfterMirror
        <5>2. ASSUME NEW p \in {"copy", "copyRename", "finalize"}, Goto(u, p)
              PROVE  cmd'[u].pc = p
          BY <1>0, <5>2, GotoFields
        <5>3. CASE Done(u)
          BY <1>0, <5>3 DEF Done, Idle
        <5> QED
          BY <5>1, <5>2, <5>3
      <4>6. CASE Finalize(u) \/ DropPending(u)
        BY <1>0, <4>6 DEF Finalize, DropPending, At, Goto, Done, Idle, Command
      <4> QED
        BY <1>5, <2>1, <4>1, <4>2, <4>3, <4>4, <4>5, <4>6 DEF Step
    <3> QED
      BY <3>1 DEF TookEffect, PastTx, Journalled
  <2> QED
    BY <2>2, <2>3
<1>6. CASE Crash
  BY <1>6 DEF Crash, Idle, TookEffect, PastTx
<1>7. ASSUME Start \/ Reconcile \/ UsbChanges \/ UNCHANGED vars
      PROVE  UNCHANGED <<cmd, rows>>
  BY <1>7 DEF Start, Reconcile, ReconcileNothing, ReconcileGivesUp, ReconcileOpen,
     ReconcileAppend, ReconcileAppendFails, ReconcileCopy, ReconcileRename,
     ReconcileFinalize, UsbChanges, dbVars, vars
<1> QED
  BY <1>1, <1>2, <1>3, <1>4, <1>5, <1>6, <1>7 DEF Next, Step

\* Every step of commands one after another keeps the invariant.
LEMMA SerialStep == OneAtATime /\ SerialInv /\ [Next]_vars => SerialInv'
<1> SUFFICES ASSUME OneAtATime, SerialInv, [Next]_vars
             PROVE  SerialInv'
  OBVIOUS
<1>1. RecordInv' /\ BurnInv' /\ MirrorInv'
  BY RecordStep, BurnStep, MirrorStep DEF SerialInv
<1>2. LedgerVerifies' /\ RecordedOnce' /\ TargetReached' /\ PendingNew' /\ Debts'
  BY ChainStep, TargetStep, PendingStep, DebtsStep
<1>3. StartsAlone' /\ CommittedSound' /\ JournalNeedsLedger'
  BY AloneStep, CommittedStep, NeedsLedgerStep DEF SerialInv, RecordInv
<1>4. (\A t \in Threads : Informed(cmd[t]) /\ TookEffect(cmd[t]))'
  BY InformedStep, EffectStep
<1> QED
  BY <1>1, <1>2, <1>3, <1>4 DEF SerialInv

\* It holds at first.
LEMMA SerialFirst == Init => SerialInv
<1> SUFFICES ASSUME Init
             PROVE  SerialInv
  OBVIOUS
<1>1. TypeInv /\ issued \in Nat
  BY TypeInit DEF Init
<1>2. RecordInv
  BY <1>1 DEF Init, RecordInv, NoPhantomRecords, EventsIn, NoFile, ThreadsExplained, PastTx,
     Idle, BootExplained, RowsExplained, NoRows
<1>3. BurnInv
  BY <1>1 DEF Init, BurnInv, BurnsMarked, NoRows
<1>4. MirrorInv
  BY <1>1 DEF Init, MirrorInv, HoldsLedger, Idle, PrefixOf, NoFile
<1>5. LedgerVerifies /\ RecordedOnce
  BY DEF Init, LedgerVerifies, RecordedOnce, NoFile
<1>6. StartsAlone /\ PendingNew
  BY <1>1 DEF Init, StartsAlone, PendingNew, NoPending, NoBatch
<1>7. \A t \in Threads : Informed(cmd[t]) /\ TookEffect(cmd[t])
  BY DEF Init, Informed, TookEffect, Idle, HoldsLedger, BeforeTx, PastTx, Journalled
<1>8. CommittedSound /\ TargetReached /\ Debts /\ JournalNeedsLedger
  BY DEF Init, CommittedSound, TargetReached, Debts, Owed, JournalNeedsLedger
<1> QED
  BY <1>2, <1>3, <1>4, <1>5, <1>6, <1>7, <1>8 DEF SerialInv

\* With commands one after another, each knows the ledger as it is; what is about
\* to be committed or appended is new; and a block is owed only until its command has
\* appended it or the next start has.
THEOREM SerialOnes == OneAtATime /\ Spec => []SerialInv
<1>1. CASE OneAtATime
  <2>1. SerialInv /\ [Next]_vars => SerialInv'
    BY <1>1, SerialStep
  <2> QED
    BY <2>1, SerialFirst, PTL DEF Spec
<1>2. CASE ~OneAtATime
  BY <1>2
<1> QED
  BY <1>1, <1>2

\* The ledger verifies whenever it exists: with commands one after another and
\* appends that do not fail, every block is linked through a current handle.
THEOREM LedgerAlwaysVerifies == OneAtATime /\ Spec => []LedgerVerifies
<1>1. SerialInv => LedgerVerifies
  BY DEF SerialInv
<1> QED
  BY <1>1, SerialOnes, PTL

\* No activation and no use of a code is in the ledger twice: the reconciler does not
\* append again what a command appended before the crash.
THEOREM BlocksRecordedOnce == OneAtATime /\ Spec => []RecordedOnce
<1>1. SerialInv => RecordedOnce
  BY DEF SerialInv
<1> QED
  BY <1>1, SerialOnes, PTL

-----------------------------------------------------------------------------
(* The promise kept: each step of RecoveryLedger is one of RecoveryPromise or none. *)

PromiseLog == {LogOf(e) : e \in {x \in Record : Promised(x)}}

\* The record is the ledger and the block that is owed, if one is.
LEMMA RecordIs ==
  /\ Owed => Record = EventsIn(ledger) \cup {EventOf(journal)}
  /\ ~Owed => Record = EventsIn(ledger)
  /\ Owed' => Record' = EventsIn(ledger') \cup {EventOf(journal')}
  /\ ~Owed' => Record' = EventsIn(ledger')
<1>1. Owed => Record = EventsIn(ledger) \cup {EventOf(journal)}
  BY DEF Record, WillBeRecorded, Owed
<1>2. ~Owed => Record = EventsIn(ledger)
  BY DEF Record, WillBeRecorded, Owed
<1>3. Owed' => Record' = EventsIn(ledger') \cup {EventOf(journal')}
  BY DEF Record, WillBeRecorded, Owed, EventsIn, EventOf
<1>4. ~Owed' => Record' = EventsIn(ledger')
  BY DEF Record, WillBeRecorded, Owed, EventsIn, EventOf
<1> QED
  BY <1>1, <1>2, <1>3, <1>4

\* Only what has been committed is in the record.
LEMMA RecordSound ==
  ASSUME SerialInv
  PROVE  \A e \in Record : e \in committed /\ e \in Event /\ CommittedOf(e)
<1>1. /\ TypeInv /\ JournalInv /\ NoPhantomRecords /\ RowsExplained /\ CommittedSound
      /\ committed \subseteq Event
  BY DEF SerialInv, RecordInv, TypeInv, DbInv
<1>2. Owed => EventOf(journal) \in committed
  BY <1>1, NotFound DEF Owed, JournalInv
<1> QED
  BY <1>1, <1>2, RecordIs DEF NoPhantomRecords, CommittedSound

\* A command that has nothing to append owes nothing.
LEMMA NothingOwed ==
  ASSUME SerialInv, OneAtATime, boot.pc = "up", NEW t \in Threads,
         ~PastTx(cmd[t]) \/ ~Journalled(cmd[t])
  PROVE  ~Owed
  BY OnlyThread DEF SerialInv, Debts

\* A command between its journal and its append finds its event not yet recorded; once its
\* transaction is behind it, the event is owed.
LEMMA BlockOwed ==
  ASSUME SerialInv, NEW t \in Threads, Journalled(cmd[t]),
         cmd[t].pc \in {"tx", "mark", "markRename", "append"}
  PROVE  /\ Stands(journal, cmd[t]) /\ ~Recorded(journal)
         /\ cmd[t].pc # "tx" => Owed
<1>1. /\ TypeInv /\ NoPhantomRecords /\ CommittedSound /\ Informed(cmd[t]) /\ TookEffect(cmd[t])
      /\ JournalInv /\ FilesInv /\ CommandShape(cmd[t])
  BY DEF SerialInv, RecordInv, TypeInv, CmdInv
<1>2. Stands(journal, cmd[t])
  BY <1>1 DEF Informed
<1>3. EventOf(journal) \notin EventsIn(ledger)
  BY <1>1, <1>2 DEF Informed, BeforeTx, PastTx, Journalled, NoPhantomRecords, Stands
<1>4. ~Recorded(journal)
  <2>1. CASE journal.op = "activate"
    <3> SUFFICES ASSUME NEW i \in 1..Len(ledger.blocks), NEW e, e = ledger.blocks[i].event,
                        e.type = "BatchActivated", e.acct = journal.acct,
                        e.batch = journal.batch
                 PROVE  FALSE
      BY <2>1 DEF Recorded
    <3>1. e \in EventsIn(ledger) /\ e \in committed
      BY <1>1 DEF EventsIn, NoPhantomRecords
    <3>2. e \in Event /\ e.row = NoRow
      BY <1>1, <3>1 DEF CommittedSound, CommittedOf, TypeInv, DbInv
    <3>3. EventOf(journal) = ActivationOf(journal.acct, journal.batch)
      BY <1>1, <1>2, <2>1, EventFields DEF JournalInv, EntryShape, Stands
    <3>4. e = ActivationOf(journal.acct, journal.batch)
      BY <3>2 DEF Event, ActivationOf
    <3> QED
      BY <1>3, <3>1, <3>3, <3>4
  <2>2. CASE journal.op = "burn"
    <3>1. journal.target = Len(ledger.blocks) + 1 /\ Len(ledger.blocks) \in Nat
      BY <1>1, <1>2 DEF Stands, FilesInv, File
    <3> QED
      BY <2>2, <3>1 DEF Recorded
  <2> QED
    BY <1>1, <1>2, <2>1, <2>2 DEF JournalInv, Entry, Stands
<1>5. ASSUME cmd[t].pc # "tx"
      PROVE  Owed
  <2>1. IsDbCommitted(cmd[t])
    BY <1>1, <1>5 DEF TookEffect, PastTx
  <2>2. IsDbCommitted(journal)
    <3>1. /\ journal.op = cmd[t].op /\ journal.acct = cmd[t].acct
          /\ journal.batch = cmd[t].batch /\ journal.row = cmd[t].row
      BY <1>2, EventFields DEF Stands
    <3> QED
      BY <2>1, <3>1 DEF IsDbCommitted
  <2> QED
    BY <1>2, <1>4, <2>2 DEF Owed, Stands
<1> QED
  BY <1>2, <1>4, <1>5

\* A step that neither appends nor owes anything leaves the record alone.
LEMMA RecordKept ==
  ASSUME ~Owed, ~Owed', EventsIn(ledger') = EventsIn(ledger)
  PROVE  PromiseLog' = PromiseLog
<1>1. Record' = Record
  BY RecordIs
<1> QED
  BY <1>1 DEF PromiseLog

\* Paying a debt is no step of the promise: the block was counted when it was owed.
LEMMA RecordPaid ==
  ASSUME Owed, ~Owed', journal' = journal,
         EventsIn(ledger') = EventsIn(ledger) \cup {EventOf(journal)}
  PROVE  PromiseLog' = PromiseLog
<1>1. Record' = Record
  BY RecordIs
<1> QED
  BY <1>1 DEF PromiseLog

\* Which steps touch the ledger or the journal.
LEMMA RecordSteps ==
  ASSUME OneAtATime, [Next]_vars
  PROVE  \/ UNCHANGED <<ledger, journal>>
         \/ \E t \in Threads : \/ CreateLedger(t) \/ AppendBlock(t) \/ RenameJournalTmp(t)
                               \/ TxBurnRejected(t) \/ TxFails(t) \/ Finalize(t)
         \/ ReconcileAppend \/ ReconcileNothing \/ ReconcileFinalize
<1>1. ASSUME NEW a \in Accounts, Generate(a) \/ Cancel(a) \/ Expire(a)
      PROVE  UNCHANGED <<ledger, journal>>
  BY <1>1 DEF Generate, Cancel, Expire, diskVars, jVars
<1>2. ASSUME NEW t \in Threads, Begin(t)
      PROVE  UNCHANGED <<ledger, journal>>
  BY <1>2 DEF Begin, BeginActivate, RejectExpired, BeginRevoke, BeginForgot, diskVars, jVars
<1>3. ASSUME NEW t \in Threads, Step(t), ~CreateLedger(t), ~AppendBlock(t),
             ~RenameJournalTmp(t), ~TxBurnRejected(t), ~TxFails(t), ~Finalize(t)
      PROVE  UNCHANGED <<ledger, journal>>
  BY <1>3 DEF OneAtATime, Step, Gate, MatchBatchCode, MatchLegacy, MatchNothing, OpenLedger,
     OpenLedgerFails, WriteJournalTmp, JournalWriteFails, TxActivate, TxRevoke, TxBurn,
     TxLegacy, AppendFails, CopyToMirror, RenameMirror, DropPending, diskVars, jVars
<1>4. ASSUME Crash \/ Start \/ Reconcile \/ UsbChanges, ~ReconcileAppend,
             ~ReconcileNothing, ~ReconcileFinalize
      PROVE  UNCHANGED <<ledger, journal>>
  BY <1>4 DEF OneAtATime, Crash, Start, Reconcile, ReconcileGivesUp, ReconcileOpen,
     ReconcileAppendFails, ReconcileCopy, ReconcileRename, UsbChanges, diskVars, jVars
<1>5. ASSUME UNCHANGED vars
      PROVE  UNCHANGED <<ledger, journal>>
  BY <1>5 DEF vars, diskVars, jVars
<1> QED
  BY <1>1, <1>2, <1>3, <1>4, <1>5 DEF Next

\* What a command appends is in the record already, or is no matter of the promise.
LEMMA AppendKeepsLog ==
  ASSUME SerialInv, OneAtATime, [Next]_vars, NEW t \in Threads, AppendBlock(t)
  PROVE  PromiseLog' = PromiseLog
<1> DEFINE ev == EventOf(cmd[t])
<1>0. /\ TypeInv /\ CmdInv /\ FilesInv /\ Informed(cmd[t]) /\ CommandShape(cmd[t])
      /\ cmd[t] \in Command /\ cmd[t].pc = "append" /\ boot.pc = "up"
      /\ cmd[t].op \in Ops /\ cmd[t].acct \in Accounts
      /\ ledger' = Extend(ledger, cmd[t].handle, ev) /\ journal' = journal
  BY DEF SerialInv, RecordInv, TypeInv, CmdInv, CommandShape, AppendBlock, At, jVars
<1>1. EventsIn(ledger') = EventsIn(ledger) \cup {ev}
  BY <1>0, EventOfType, ExtendEvents DEF FilesInv, Command
<1>2. Step(t) /\ cmd'[t].pc = "copy"
  BY <1>0, GotoFields DEF Step, AppendBlock
<1>3. ~Owed'
  BY <1>2, CommandDebts DEF PastTx
<1>4. CASE Journalled(cmd[t])
  <2>1. Owed /\ EventOf(journal) = ev
    BY <1>0, <1>4, BlockOwed DEF Stands
  <2> QED
    BY <1>0, <1>1, <1>3, <2>1, RecordPaid
<1>5. CASE ~Journalled(cmd[t])
  <2>1. ~Owed
    BY <1>0, <1>5, NothingOwed
  <2>2. Record = EventsIn(ledger) /\ Record' = EventsIn(ledger) \cup {ev}
    BY <1>1, <1>3, <2>1, RecordIs
  <2>3. ~Promised(ev)
    <3>1. CASE cmd[t].op = "revoke"
      BY <3>1, EventFields DEF Promised
    <3>2. CASE cmd[t].op = "legacy"
      BY <1>0, <3>2, EventFields DEF Informed, Promised
    <3> QED
      BY <1>0, <1>5, <3>1, <3>2 DEF Journalled, Ops
  <2> QED
    BY <2>2, <2>3 DEF PromiseLog
<1> QED
  BY <1>4, <1>5

\* The journal of a command that is about to commit makes no debt; the entry that marks
\* the commit owes what the staged one did.
LEMMA RenameKeepsLog ==
  ASSUME SerialInv, OneAtATime, [Next]_vars, NEW t \in Threads, RenameJournalTmp(t)
  PROVE  PromiseLog' = PromiseLog
<1>0. /\ TypeInv /\ CmdInv /\ Informed(cmd[t]) /\ CommandShape(cmd[t])
      /\ boot.pc = "up" /\ ledger' = ledger /\ rows' = rows
      /\ journalTmp # NoEntry /\ journal' = journalTmp
      /\ cmd[t].pc \in {"stageRename", "markRename"}
  BY DEF SerialInv, RecordInv, TypeInv, CmdInv, RenameJournalTmp, At, diskVars, dbVars
<1>1. Step(t) /\ Journalled(cmd[t])
  BY <1>0 DEF Step, CommandShape, Journalled
<1>2. CASE cmd[t].pc = "stageRename"
  <2>1. ~Owed
    BY <1>0, <1>2, NothingOwed DEF PastTx
  <2>2. cmd'[t].pc = "tx"
    BY <1>0, <1>2, GotoFields DEF RenameJournalTmp, At
  <2>3. cmd'[t].op \in {"activate", "burn"}
    BY <1>0, <1>1, <1>2, GotoFields DEF RenameJournalTmp, At, Journalled
  <2>4. ~Owed'
    BY <1>1, <2>2, <2>3, CommandDebts DEF PastTx
  <2> QED
    BY <1>0, <2>1, <2>4, RecordKept
<1>3. CASE cmd[t].pc = "markRename"
  <2>1. Stands(journal, cmd[t]) /\ Stands(journalTmp, cmd[t])
    BY <1>0, <1>1, <1>3 DEF Informed
  <2>2. /\ journal.op = journalTmp.op /\ journal.acct = journalTmp.acct
        /\ journal.batch = journalTmp.batch /\ journal.row = journalTmp.row
        /\ journal.target = journalTmp.target /\ EventOf(journal) = EventOf(journalTmp)
        /\ journal # NoEntry
    BY <2>1, EventFields DEF Stands
  <2>3. (Owed <=> Owed') /\ EventOf(journal') = EventOf(journal)
    BY <1>0, <2>2 DEF Owed, IsDbCommitted, HasRow, Recorded
  <2>4. Record' = Record
    BY <1>0, <2>3, RecordIs
  <2> QED
    BY <2>4 DEF PromiseLog
<1> QED
  BY <1>0, <1>2, <1>3

\* A step outside the transactions is no step of the promise.
LEMMA LogSteps ==
  ASSUME SerialInv, OneAtATime, [Next]_vars, rows' = rows
  PROVE  PromiseLog' = PromiseLog
<1>0. /\ TypeInv /\ TypeInv' /\ JournalInv /\ MirrorInv /\ StartsAlone /\ Debts /\ BootInv
      /\ FilesInv
  BY TypeStep DEF SerialInv, RecordInv, TypeInv
<1>1. CASE UNCHANGED <<ledger, journal>>
  <2>1. Owed' <=> Owed
    BY <1>1 DEF Owed, IsDbCommitted, HasRow, Recorded
  <2>2. Record' = Record
    BY <1>1, <2>1, RecordIs
  <2> QED
    BY <2>2 DEF PromiseLog
<1>2. ASSUME NEW t \in Threads, CreateLedger(t)
      PROVE  PromiseLog' = PromiseLog
  <2>1. ~Owed
    BY <1>2, NothingOwed DEF CreateLedger, At, PastTx
  <2>2. ~Owed'
    BY <1>2, <2>1, NoNewDebt DEF CreateLedger, jVars
  <2>3. EventsIn(ledger') = EventsIn(ledger)
    BY <1>0, <1>2 DEF CreateLedger, MirrorInv, EventsIn, NewFile
  <2> QED
    BY <2>1, <2>2, <2>3, RecordKept
<1>3. ASSUME NEW t \in Threads, TxBurnRejected(t) \/ TxFails(t) \/ Finalize(t)
      PROVE  PromiseLog' = PromiseLog
  <2>1. /\ boot.pc = "up" /\ cmd[t].pc \in {"tx", "finalize"} /\ ledger' = ledger
        /\ journal' \in {journal, NoEntry}
    BY <1>3 DEF TxBurnRejected, TxFails, Finalize, FinalizeJournal, At, diskVars, jVars
  <2>2. ~Owed
    BY <2>1, NothingOwed DEF PastTx
  <2>3. ~Owed'
    BY <2>1, <2>2, NoNewDebt
  <2> QED
    BY <2>1, <2>2, <2>3, RecordKept
<1>4. CASE ReconcileAppend
  <2>1. /\ Owed /\ boot.handle \in Seq(Event) /\ journal # NoEntry /\ journal' = journal
        /\ ledger' = Extend(ledger, boot.handle, EventOf(journal))
    BY <1>0, <1>4 DEF ReconcileAppend, Debts, Owed, BootInv, jVars
  <2>2. EventsIn(ledger') = EventsIn(ledger) \cup {EventOf(journal)}
    <3>1. EventOf(journal) \in Event
      BY <1>0, <2>1, EventOfType DEF JournalInv, Entry, Ops
    <3> QED
      BY <1>0, <2>1, <3>1, ExtendEvents DEF FilesInv
  <2>3. ~Owed'
    BY <2>1, AppendPays DEF SerialInv, TargetReached
  <2> QED
    BY <2>1, <2>2, <2>3, RecordPaid
<1>5. CASE ReconcileNothing \/ ReconcileFinalize
  <2>1. ledger' = ledger /\ journal' \in {journal, NoEntry}
    BY <1>5 DEF ReconcileNothing, ReconcileFinalize, FinalizeJournal, diskVars, jVars
  <2>2. ~Owed
    <3>1. CASE ReconcileNothing
      BY <3>1 DEF ReconcileNothing, Owed
    <3>2. CASE ReconcileFinalize
      BY <1>0, <3>2 DEF ReconcileFinalize, Debts, StartsAlone, PastTx
    <3> QED
      BY <1>5, <3>1, <3>2
  <2>3. ~Owed'
    BY <2>1, <2>2, NoNewDebt
  <2> QED
    BY <2>1, <2>2, <2>3, RecordKept
<1> QED
  BY <1>1, <1>2, <1>3, <1>4, <1>5, RecordSteps, AppendKeepsLog, RenameKeepsLog

\* After its transaction a command's event is owed, and nothing was owed before it.
LEMMA TransactionOwes ==
  ASSUME SerialInv, OneAtATime, [Next]_vars, NEW t \in Threads,
         TxActivate(t) \/ TxBurn(t)
  PROVE  /\ Record = EventsIn(ledger) /\ Record' = Record \cup {EventOf(cmd[t])}
         /\ EventOf(cmd[t]) \notin committed
<1>0. /\ TypeInv /\ CmdInv /\ DbInv /\ JournalInv /\ Informed(cmd[t]) /\ CommandShape(cmd[t])
      /\ boot.pc = "up" /\ cmd[t].pc = "tx" /\ cmd[t].op \in {"activate", "burn"}
      /\ cmd[t].acct \in Accounts
      /\ ledger' = ledger /\ journal' = journal
  BY DEF SerialInv, RecordInv, TypeInv, CmdInv, CommandShape, TxActivate, TxBurn, At,
     diskVars, jVars
<1>1. ~Owed
  BY <1>0, NothingOwed DEF PastTx
<1>2. Stands(journal, cmd[t]) /\ ~Recorded(journal)
  BY <1>0, BlockOwed DEF Journalled
<1>3. /\ journal.op = cmd[t].op /\ journal.acct = cmd[t].acct /\ journal # NoEntry
      /\ journal.batch = cmd[t].batch /\ journal.row = cmd[t].row
      /\ EventOf(journal) = EventOf(cmd[t])
  BY <1>2, EventFields DEF Stands
<1>4. IsDbCommitted(journal)'
  <2>1. CASE TxActivate(t)
    BY <1>0, <1>3, <2>1 DEF TxActivate, DbInv, IsDbCommitted
  <2>2. CASE TxBurn(t)
    <3>1. /\ rows' = [rows EXCEPT ![cmd[t].acct].used = @ \cup {cmd[t].row.code}]
          /\ HasRow(cmd[t].acct, cmd[t].batch, cmd[t].row) /\ cmd[t].op = "burn"
      BY <2>2 DEF TxBurn, Unconsumed
    <3>2. /\ rows'[cmd[t].acct].batch = rows[cmd[t].acct].batch
          /\ rows'[cmd[t].acct].gen = rows[cmd[t].acct].gen
          /\ cmd[t].row.code \in rows'[cmd[t].acct].used
      BY <1>0, <3>1 DEF DbInv
    <3> QED
      BY <1>0, <1>3, <3>1, <3>2 DEF IsDbCommitted, HasRow
  <2> QED
    BY <2>1, <2>2
<1>5. Owed'
  BY <1>0, <1>2, <1>3, <1>4 DEF Owed, Recorded
<1>6. EventOf(cmd[t]) \notin committed
  BY <1>0 DEF Informed, BeforeTx
<1> QED
  BY <1>0, <1>1, <1>3, <1>5, <1>6, RecordIs

\* A promised event that enters the record enters the promise's log.
LEMMA LogGrows ==
  ASSUME NEW ev, Record' = Record \cup {ev}, Promised(ev)
  PROVE  PromiseLog' = PromiseLog \cup {LogOf(ev)}
  BY DEF PromiseLog

\* Activating a batch is the promise's activation: it was never in the record.
LEMMA ActivatesOnce ==
  ASSUME SerialInv, OneAtATime, [Next]_vars, NEW t \in Threads, TxActivate(t)
  PROVE  Promise!Next
<1> PICK a, b : a = cmd[t].acct /\ b = cmd[t].batch
  OBVIOUS
<1>0. /\ a \in Accounts /\ b \in Batches /\ cmd[t].row = NoRow /\ cmd[t].op = "activate"
      /\ rows \in [Accounts -> [batch : Batches \cup {NoBatch}, gen : Nat, used : SUBSET Codes]]
      /\ b # NoBatch
  BY ConstantsOK DEF SerialInv, RecordInv, TypeInv, CmdInv, DbInv, CommandShape, TxActivate,
     At, Batches, NoBatch
<1>1. EventOf(cmd[t]) = ActivationOf(a, b) /\ Promised(ActivationOf(a, b))
  BY <1>0, EventFields DEF ActivationOf, Promised
<1>2. LogOf(ActivationOf(a, b)) = Promise!Activation(a, b)
  BY DEF LogOf, ActivationOf, Promise!Activation
<1>3. PromiseLog' = PromiseLog \cup {Promise!Activation(a, b)}
  BY <1>1, <1>2, TransactionOwes, LogGrows
<1>4. Promise!Activation(a, b) \notin PromiseLog
  <2> SUFFICES ASSUME NEW e \in Record, Promised(e), LogOf(e) = Promise!Activation(a, b)
               PROVE  FALSE
    BY DEF PromiseLog
  <2>1. e \in committed /\ e \in Event /\ CommittedOf(e)
    BY RecordSound
  <2>2. e.type = "BatchActivated" /\ e.acct = a /\ e.batch = b
    BY DEF LogOf, Promise!Activation
  <2>3. e = ActivationOf(a, b)
    BY <2>1, <2>2 DEF CommittedOf, Event, ActivationOf
  <2> QED
    BY <1>1, <2>1, <2>3, TransactionOwes
<1>5. rows' = [rows EXCEPT ![a] = [batch |-> b, gen |-> nextGen, used |-> {}]]
  BY DEF TxActivate
<1>6. [x \in Accounts |-> rows'[x].batch] = [[x \in Accounts |-> rows[x].batch] EXCEPT ![a] = b]
  BY <1>0, <1>5
<1>7. [x \in Accounts |-> rows'[x].used] = [[x \in Accounts |-> rows[x].used] EXCEPT ![a] = {}]
  BY <1>0, <1>5
<1>8. Promise!Activate(a, b)
  BY <1>3, <1>4, <1>6, <1>7 DEF PromiseLog, Promise!Activate
<1> QED
  BY <1>0, <1>8 DEF Promise!Next

\* Consuming a row is the promise's use of a code, for the first and only time.
LEMMA UsesOnce ==
  ASSUME SerialInv, OneAtATime, [Next]_vars, NEW t \in Threads, TxBurn(t)
  PROVE  Promise!Next
<1> PICK a, b, r : a = cmd[t].acct /\ b = cmd[t].batch /\ r = cmd[t].row
  OBVIOUS
<1> DEFINE ev == EventOf(cmd[t])
<1>0. /\ a \in Accounts /\ b \in Batches /\ r \in Rows /\ cmd[t].op = "burn"
      /\ rows \in [Accounts -> [batch : Batches \cup {NoBatch}, gen : Nat, used : SUBSET Codes]]
      /\ b # NoBatch /\ CommittedSound
      /\ rows[a].batch = b /\ rows[a].gen = r.gen
  BY ConstantsOK DEF SerialInv, RecordInv, TypeInv, CmdInv, DbInv, CommandShape, TxBurn,
     Unconsumed, HasRow, At, Batches, NoBatch
<1>1. /\ ev.type = "CodeBurned" /\ ev.acct = a /\ ev.batch = b /\ ev.row = r
      /\ r # NoRow /\ r.code \in Codes /\ Promised(ev)
  <2>1. ev.type = "CodeBurned" /\ ev.acct = a /\ ev.batch = b /\ ev.row = r
    BY <1>0, EventFields
  <2>2. r # NoRow /\ r.code \in Codes
    BY <1>0 DEF Rows, NoRow
  <2> QED
    BY <1>0, <2>1, <2>2 DEF Promised
<1>2. LogOf(ev) = Promise!Use(a, b, r.code)
  BY <1>1 DEF LogOf, Promise!Use
<1>3. PromiseLog' = PromiseLog \cup {Promise!Use(a, b, r.code)}
  BY <1>1, <1>2, TransactionOwes, LogGrows
<1>4. Promise!Use(a, b, r.code) \notin PromiseLog
  <2> SUFFICES ASSUME NEW e \in Record, Promised(e), LogOf(e) = Promise!Use(a, b, r.code)
               PROVE  FALSE
    BY DEF PromiseLog
  <2>1. e \in committed /\ e \in Event /\ CommittedOf(e)
    BY RecordSound
  <2>2. e.acct = a /\ e.batch = b /\ LogOf(e).what = "used" /\ LogOf(e).codes = {r.code}
    BY DEF LogOf, Promise!Use
  <2>3. e.type = "CodeBurned"
    BY <2>1, <2>2 DEF LogOf, Event, Promised
  <2>4. e.row # NoRow /\ e.row \in Rows /\ e.row.gen = r.gen
    BY <1>0, <2>1, <2>2, <2>3 DEF CommittedOf
  <2>5. e.row.code = r.code
    BY <2>2, <2>4 DEF LogOf
  <2>6. e.row = r
    BY <1>0, <2>4, <2>5 DEF Rows
  <2>7. e = ev
    BY <1>1, <2>1, <2>2, <2>3, <2>6 DEF Event, EventOf
  <2> QED
    BY <2>1, <2>7, TransactionOwes
<1>5. rows' = [rows EXCEPT ![a].used = @ \cup {r.code}]
  BY DEF TxBurn
<1>6. [x \in Accounts |-> rows'[x].batch] = [x \in Accounts |-> rows[x].batch]
  BY <1>0, <1>5
<1>7. [x \in Accounts |-> rows'[x].used] =
        [[x \in Accounts |-> rows[x].used] EXCEPT ![a] = @ \cup {r.code}]
  BY <1>0, <1>5
<1>8. Promise!UseCode(a, r.code)
  BY <1>0, <1>3, <1>4, <1>6, <1>7 DEF PromiseLog, Promise!UseCode
<1> QED
  BY <1>0, <1>1, <1>8 DEF Promise!Next

\* Revoking takes the codes and leaves the record.
LEMMA RevokesOnly ==
  ASSUME SerialInv, OneAtATime, [Next]_vars, NEW t \in Threads, TxRevoke(t)
  PROVE  Promise!Next
<1> PICK a : a = cmd[t].acct
  OBVIOUS
<1>0. /\ a \in Accounts /\ boot.pc = "up" /\ cmd[t].op = "revoke" /\ ledger' = ledger
      /\ rows \in [Accounts -> [batch : Batches \cup {NoBatch}, gen : Nat, used : SUBSET Codes]]
  BY DEF SerialInv, RecordInv, TypeInv, CmdInv, DbInv, CommandShape, TxRevoke, At, diskVars
<1>1. ~Owed
  BY <1>0, NothingOwed DEF Journalled
<1>2. ~Owed'
  BY <1>1, RevokeOwesNothing
<1>3. PromiseLog' = PromiseLog
  BY <1>0, <1>1, <1>2, RecordKept
<1>4. rows' = [rows EXCEPT ![a] = NoRows]
  BY DEF TxRevoke
<1>5. [x \in Accounts |-> rows'[x].batch] =
        [[x \in Accounts |-> rows[x].batch] EXCEPT ![a] = NoBatch]
  BY <1>0, <1>4 DEF NoRows
<1>6. [x \in Accounts |-> rows'[x].used] = [[x \in Accounts |-> rows[x].used] EXCEPT ![a] = {}]
  BY <1>0, <1>4 DEF NoRows
<1>7. Promise!Revoke(a)
  BY <1>3, <1>5, <1>6 DEF PromiseLog, Promise!Revoke
<1> QED
  BY <1>0, <1>7 DEF Promise!Next

\* Every step is one of the promise or changes nothing it speaks of.
LEMMA PromiseStep ==
  OneAtATime /\ SerialInv /\ [Next]_vars => [Promise!Next]_(Promise!promiseVars)
<1> SUFFICES ASSUME OneAtATime, SerialInv, [Next]_vars
             PROVE  [Promise!Next]_(Promise!promiseVars)
  OBVIOUS
<1>1. CASE UNCHANGED dbVars \/ \E t \in Threads : TxLegacy(t)
  <2>1. rows' = rows
    BY <1>1 DEF dbVars, TxLegacy
  <2>2. PromiseLog' = PromiseLog
    BY <2>1, LogSteps
  <2> QED
    BY <2>1, <2>2 DEF PromiseLog, Promise!promiseVars
<1> QED
  BY <1>1, DbSteps, ActivatesOnce, UsesOnce, RevokesOnly

\* Commands that run one after another, with a crash between any two steps, a failing
\* transaction or a journal that cannot be written or removed, look like the atomic steps
\* of the promise, for any accounts, codes and batches.
THEOREM PromiseKept == OneAtATime /\ Spec => KeepsPromise
<1>1. Init => Promise!Init
  <2> SUFFICES ASSUME Init
               PROVE  Promise!Init
    OBVIOUS
  <2>1. PromiseLog = {}
    BY RecordIs DEF Init, Owed, PromiseLog, EventsIn, NoFile
  <2>2. /\ [x \in Accounts |-> rows[x].batch] = [x \in Accounts |-> NoBatch]
        /\ [x \in Accounts |-> rows[x].used] = [x \in Accounts |-> {}]
    BY DEF Init, NoRows
  <2> QED
    BY <2>1, <2>2 DEF PromiseLog, Promise!Init
<1>2. CASE OneAtATime
  <2>1. SerialInv /\ [Next]_vars => [Promise!Next]_(Promise!promiseVars)
    BY <1>2, PromiseStep
  <2>2. Spec => []SerialInv
    BY <1>2, SerialOnes
  <2> QED
    BY <1>1, <2>1, <2>2, PTL DEF Spec, KeepsPromise, Promise!Spec
<1>3. CASE ~OneAtATime
  BY <1>3
<1> QED
  BY <1>2, <1>3
=============================================================================
