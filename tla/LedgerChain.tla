----------------------------- MODULE LedgerChain -----------------------------
(***************************************************************************)
(* The hash-chained, append-only file that recovery_ledger/ledger.rs (and, *)
(* with the same layout, db/audit_journal.rs) keeps on disk.               *)
(*                                                                         *)
(* A SHA-256 block hash stands for everything up to and including that     *)
(* block, so it is modelled by the sequence of events it covers: two       *)
(* hashes are equal exactly when they cover the same events.  HMACs are    *)
(* not modelled: every writer holds the key, so they always verify.        *)
(***************************************************************************)
EXTENDS Naturals, Sequences

Block(Event) == [seq : Nat, prev : Seq(Event), event : Event]

\* What RecoveryLedger::open_and_verify finds at the path: `torn` is a final
\* block (or header) cut short.
File(Event) == [made : BOOLEAN, torn : BOOLEAN, blocks : Seq(Block(Event))]

NoFile  == [made |-> FALSE, torn |-> FALSE, blocks |-> <<>>]
NewFile == [made |-> TRUE,  torn |-> FALSE, blocks |-> <<>>]

\* The events a list of blocks records, in file order.
Chain(bs) == [i \in 1..Len(bs) |-> bs[i].event]

EventsIn(f) == {f.blocks[i].event : i \in 1..Len(f.blocks)}

\* Strict sequence numbers, and each block carries the hash of all before it.
Linked(bs) ==
  \A i \in 1..Len(bs) :
    /\ bs[i].seq = i
    /\ bs[i].prev = [j \in 1..(i - 1) |-> bs[j].event]

Verifies(f) == f.made /\ ~f.torn /\ Linked(f.blocks)

\* Mutant: the block repeats last_seq instead of taking the next number.
ExtendSameSeq(f, h, e) ==
  [f EXCEPT !.blocks = Append(@, [seq |-> Len(h), prev |-> h, event |-> e])]

\* append_event through an open handle whose last_seq and last_block_hash are
\* those of chain h; the file is opened again for appending and not re-read.
Extend(f, h, e) ==
  [f EXCEPT !.blocks = Append(@, [seq |-> Len(h) + 1, prev |-> h, event |-> e])]
=============================================================================
