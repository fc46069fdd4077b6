------------------------- MODULE DatabaseHomeProofs -------------------------
(***************************************************************************)
(* Theorems about DatabaseHome for any threads, kinds of command, failures  *)
(* and bounds: no start leaves a half-upgraded database behind and old       *)
(* accounts are kept; commands follow the setting; commands that run one     *)
(* after another lose no write; and the journals know what was done.         *)
(***************************************************************************)
EXTENDS DatabaseHome, SequenceTheorems, FiniteSetTheorems, TLAPS

-----------------------------------------------------------------------------
(* Lists of upgrade steps. *)

Steps ==
  {"base", "employees", "teams", "accounts", "codes", "assets", "imports", "categories",
   "prefixes", "requests", "relax", "phaseC", "enforce", "retain", "policies", "seed",
   "promote", "newField", "mergeValues", "copyValues", "dropValues", "dropField", "index",
   "dropTriggers", "dropIndex", "createIndex", "fillIndex", "createTriggers", "stamp"}

Occurs(s, step) == \E i \in DOMAIN s : s[i] = step
\* After each a there is a b; after an a there is none of some steps.
Before(s, a, b)     == \A i \in DOMAIN s : s[i] = a => \E j \in DOMAIN s : i < j /\ s[j] = b
NoneAfter(s, a, xs) == \A i, j \in DOMAIN s : i < j /\ s[i] = a => s[j] \notin xs

-----------------------------------------------------------------------------
(* Types. *)

Parts == Required \cup OldParts \cup {"newField"}
Databases ==
  [file : BOOLEAN, sealed : BOOLEAN, origin : {"fresh", "old", "recent"}, version : {0, 1},
   has : SUBSET Parts, azure : [Staff -> Account],
   index : {"none", "stale", "empty", "full"}, triggers : BOOLEAN,
   main : SUBSET Nat, wal : SUBSET Nat]

LookupPCs == {"resolve", "named", "store"}
UsePCs    == {"check", "generation", "pop", "connect", "commit", "compare", "push"}
MovePCs   == {"target", "checkpoint", "copy", "setting", "truncate", "fill", "switch",
              "switchBack", "abandon", "unlock"}
RecordPCs == {"verify", "append", "recorded"}

TaskPCs == [none  |-> {"idle"},
            write |-> UsePCs \cup LookupPCs,
            reset |-> UsePCs \cup LookupPCs \cup RecordPCs \cup {"snapshot", "journal"},
            move  |-> LookupPCs \cup MovePCs \cup RecordPCs \cup {"lock"}]
Nexts   == [none |-> {"none"}, write |-> {"connect"},
            reset |-> {"snapshot", "connect", "journal"}, move |-> {"lock"}]

Place == Homes \cup {"none"}
ThreadStates ==
  [pc : {"idle", "snapshot", "journal", "lock"} \cup UsePCs \cup LookupPCs \cup MovePCs
        \cup RecordPCs,
   task : {"none", "write", "reset", "move"}, id : Nat,
   then : {"none", "connect", "snapshot", "journal", "lock"}, gen : Nat, seen : Nat,
   home : Place, conn : Place, fresh : BOOLEAN, to : Place,
   mode : {"none", "link", "copy", "failed"}, left : Seq(Homes), entries : Nat]

\* Where a command is tells what it has found out.
Shape(o) ==
  /\ o.pc \in TaskPCs[o.task]
  /\ o.pc = "idle" => o = Idle
  /\ o.pc \in LookupPCs => o.then \in Nexts[o.task]
  /\ o.task = "move" => o.to \in Homes /\ o.conn = "none" /\ o.gen = 0
  /\ o.pc \in {"store", "connect", "snapshot", "journal", "lock"} \cup MovePCs \cup RecordPCs =>
       o.home \in Homes
  /\ o.pc \in {"commit", "compare", "push"} => o.conn \in Homes
  /\ o.task = "reset" /\ (o.pc \in {"journal"} \cup RecordPCs \/ o.then = "journal") =>
       o.conn \in Homes
  /\ o.pc = "append" => o.left # <<>>

ThreadsOK == th \in [Threads -> ThreadStates] /\ \A t \in Threads : Shape(th[t])

Boots == {"export", "replace", "open", "upgrade"}

TypeInv ==
  /\ db \in [Homes -> Databases] /\ snaps \subseteq Databases
  /\ export \subseteq Homes /\ setting \in Homes \cup {"torn"} /\ reach \in SUBSET Homes
  /\ "local" \in reach
  /\ gen \in Nat \ {0} /\ cache \in [gen : Nat, home : Place]
  /\ pool \in Seq([gen : Nat, home : Homes, keys : BOOLEAN]) /\ Len(pool) <= PoolSize
  /\ restoring \in BOOLEAN /\ app \in Boots \cup {"down", "up"} /\ ready \in BOOLEAN
  /\ todo \in Seq(Steps) /\ enforced \in BOOLEAN
  /\ trail \in [Homes -> [file : BOOLEAN, broken : BOOLEAN, events : SUBSET Nat]]
  /\ \A h \in Homes : IsFiniteSet(trail[h].events)
  /\ ThreadsOK
  /\ acked \subseteq Nat /\ strain \subseteq {"overlap", "unplugged", "unfilled"}
  /\ begun \in Nat /\ mishaps \in Nat
  \* The start has resolved the path, and no command runs until the start is through.
  /\ app \in Boots => cache.home \in Homes /\ cache.gen = gen
  /\ cache.gen = gen => cache.home \in Homes
  /\ ready => app = "up"
  /\ ~ready => pool = <<>> /\ \A t \in Threads : th[t] = Idle

-----------------------------------------------------------------------------
(* What the start knows about the database that it upgrades. *)

Remains(step) == Occurs(todo, step)

\* The step that brings a part, and the one that removes it.
BroughtBy ==
  [tables |-> "base", claims |-> "base", policies |-> "base", codes |-> "base",
   employeeColumns |-> "employees", teamColumns |-> "teams", accountColumns |-> "accounts",
   assetColumns |-> "assets", importColumns |-> "imports", requestColumns |-> "requests",
   manual |-> "phaseC", nullable |-> "phaseC", categories |-> "categories",
   prefixes |-> "prefixes", accounts |-> "seed", super |-> "promote"]
RemovedBy == [oldField |-> "dropField", cascade |-> "retain", assetComputerNames |-> "assets"]

Whole(d) == /\ Required \ Signing \subseteq d.has
            /\ d.has \cap {"oldField", "cascade", "assetComputerNames"} = {}

\* What the database does not have yet is among the steps to come.
WholeInTheEnd(d) ==
  /\ \A p \in Required \ Signing : p \in d.has \/ Remains(BroughtBy[p])
  /\ \A p \in {"oldField", "cascade", "assetComputerNames"} :
       p \notin d.has \/ Remains(RemovedBy[p])

\* The order that the upgrade depends on.
Ordered(s) ==
  /\ Before(s, "seed", "promote") /\ Before(s, "relax", "enforce")
  /\ NoneAfter(s, "stamp", Steps \ {"codes"})
  /\ NoneAfter(s, "dropValues", {"mergeValues", "copyValues"})

\* An old value is under the new key before it is dropped.
Copied(d) ==
  Remains("dropValues") =>
    /\ Remains("mergeValues") \/
         \A e \in Staff : Filled(d.azure[e].old) /\ d.azure[e].new # "none" =>
                            d.azure[e].new = d.azure[e].old
    /\ Remains("copyValues") \/
         \A e \in Staff : Filled(d.azure[e].old) => d.azure[e].new # "none"

SavedOld == \E s \in snaps : s.has = Old.has /\ s.azure = Old.azure

\* A database of the old release.
KeepsOld(d) ==
  d.origin = "old" => /\ \A e \in Staff : Known(d, e) = Known(Old, e)
                      /\ SavedOld \/ (d.has = Old.has /\ d.azure = Old.azure)

WholeOnes == \A h \in Homes : db[h].version = SCHEMA_USER_VERSION => Whole(db[h])
OldOnes   == \A h \in Homes : KeepsOld(db[h])
KeysOn    == \A i \in DOMAIN pool : pool[i].keys

\* In the middle of the upgrade.
Underway ==
  app = "upgrade" =>
    /\ WholeInTheEnd(db[Home]) /\ Ordered(todo) /\ Copied(db[Home])
    /\ db[Home].version = SCHEMA_USER_VERSION => ~Remains("seed")
    /\ enforced \/ Remains("enforce")
    /\ db[Home].origin = "old" => SavedOld
    /\ db[Home].file

UpgradeInv == WholeOnes /\ OldOnes /\ KeysOn /\ Underway

-----------------------------------------------------------------------------
(* What the start knows about the search index. *)

\* The steps that "index" finds to do, and their order.
IndexWork == {"dropTriggers", "dropIndex", "createIndex", "fillIndex", "createTriggers"}
IndexOrdered(s) == /\ Before(s, "dropTriggers", "createTriggers")
                   /\ Before(s, "dropIndex", "createIndex")
                   /\ Before(s, "createIndex", "fillIndex")

Indexed(d) == d.triggers /\ d.index \in {"empty", "full"}

\* What the index does not have yet is among the steps to come.
IndexedInTheEnd(d) ==
  /\ d.triggers \/ Remains("index") \/ Remains("createTriggers")
  /\ d.index \in {"empty", "full"} \/ Remains("index") \/ Remains("createIndex")

IndexedOnes == \A h \in Homes : db[h].version = SCHEMA_USER_VERSION => Indexed(db[h])

\* An empty index is about to be filled, or was left so by a start that ended.
FilledOnes ==
  \A h \in Homes : db[h].index = "empty" =>
    "unfilled" \in strain \/ (app = "upgrade" /\ h = Home /\ Remains("fillIndex"))

IndexUnderway ==
  app = "upgrade" =>
    /\ IndexedInTheEnd(db[Home]) /\ IndexOrdered(todo)
    /\ db[Home].version = SCHEMA_USER_VERSION => \A x \in IndexWork : ~Remains(x)

IndexInv == IndexedOnes /\ FilledOnes /\ IndexUnderway

-----------------------------------------------------------------------------
(* What an interrupted move cannot leave behind. *)

\* A move is between the first write of the setting and the end of what was cached.
Switching == \E u \in Threads : th[u].pc \in {"fill", "switch", "switchBack"}

\* Looking the path up to connect, or for the snapshot before a reset.
Looking(u, why) == th[u].pc \in LookupPCs /\ th[u].then = why

\* Moving, from the lock to the unlock.
Moving(u) == th[u].task = "move" /\ th[u].pc \in MovePCs \cup RecordPCs

\* No generation is ahead of the present one, and a connection belongs to one.
Dated(u) ==
  /\ th[u].gen <= gen /\ th[u].seen <= gen
  /\ th[u].pc \in {"named", "store"} => th[u].gen <= th[u].seen
  /\ th[u].pc \in {"pop", "connect", "commit"} \/ Looking(u, "connect") => th[u].gen # 0
  /\ th[u].pc \in {"snapshot", "check", "generation"} \/ Looking(u, "snapshot") =>
       th[u].conn = "none"
LinksDated == cache.gen <= gen /\ \A i \in DOMAIN pool : pool[i].gen <= gen

\* One move at a time, and a command that began with no move running is not beside one.
Locked ==
  /\ \A t \in Threads : Moving(t) => restoring
  /\ \A t, u \in Threads : Moving(t) /\ (Moving(u) \/ th[u].fresh) => u = t
  /\ restoring => \E t \in Threads : Moving(t)

\* What was cached, resolved or opened in generation g or later is what the setting names.
LinksFollow(g) == /\ cache.gen >= g => cache.home = Named
                  /\ \A i \in DOMAIN pool : pool[i].gen >= g => pool[i].home = Named
Follows(u, g) ==
  /\ th[u].pc = "store" /\ th[u].seen >= g => th[u].home = Named
  /\ th[u].gen >= g => /\ th[u].conn # "none" => th[u].conn = Named
                       /\ th[u].pc = "connect" => th[u].home = Named
Settled(g) == LinksFollow(g) /\ \A u \in Threads : Follows(u, g)

Following ==
  "unplugged" \notin strain =>
    /\ reach = Homes
    /\ ~Switching => Settled(gen)
    /\ \A t \in Threads : th[t].fresh /\ ~restoring /\ th[t].gen # 0 => Settled(th[t].gen)

PathInv == LinksDated /\ (\A u \in Threads : Dated(u)) /\ Locked /\ Following

-----------------------------------------------------------------------------
(* One command after another. *)

Active(t) == th[t].pc # "idle"
Held(w) == \/ \E h \in Homes : w \in Holds(db[h])
           \/ \E s \in snaps : w \in Holds(s)
InSnapshot(d) == \E s \in snaps : Holds(d) \subseteq Holds(s)

\* A command works on the database of the cached path.
Cached(h) == cache.gen = gen /\ cache.home = h

\* What a missing file would create holds nothing.
NoFileIsEmpty == \A h \in Homes : ~db[h].file => db[h].has = {} /\ Holds(db[h]) = {}

Steady(t) ==
  /\ th[t].pc \in {"named", "store"} => th[t].seen = gen /\ cache.gen # gen
  /\ th[t].pc = "pop" => th[t].gen = gen
  /\ th[t].gen = gen /\ th[t].conn # "none" => Cached(th[t].conn)
  /\ th[t].pc = "connect" => Cached(th[t].home)

\* A reset deletes only what the snapshot it has made holds.
ResetKnows(t) ==
  th[t].task = "reset" =>
    /\ th[t].pc = "snapshot" => Cached(th[t].home)
    /\ th[t].pc \in {"check", "generation", "pop", "connect"} \/ Looking(t, "connect") =>
         cache.gen = gen /\ InSnapshot(db[cache.home])
    /\ th[t].pc = "commit" => InSnapshot(db[th[t].conn])

\* A move copies to where nothing is, and removes only what it has copied.
MoveKnows(t) ==
  /\ th[t].pc \in {"checkpoint", "copy"} => From(t) # th[t].to /\ ~db[th[t].to].file
  /\ th[t].pc = "copy" => db[From(t)].wal = {}
  /\ th[t].pc \in {"setting", "truncate", "fill", "switchBack", "abandon"}
     /\ th[t].mode = "copy" =>
       From(t) # th[t].to /\ Holds(db[From(t)]) = Holds(db[th[t].to])

\* At most one command runs, and knows what it works on.
OneByOne ==
  /\ \A t, u \in Threads : Active(t) /\ Active(u) => t = u
  /\ \A w \in acked : Held(w)
  /\ \A i \in DOMAIN pool : pool[i].gen = gen => Cached(pool[i].home)
  /\ \A t \in Threads : Steady(t) /\ ResetKnows(t) /\ MoveKnows(t)

SerialInv == NoFileIsEmpty /\ ("overlap" \notin strain => OneByOne)

-----------------------------------------------------------------------------
(* The journals. *)

Concerned(t) == IF th[t].task = "move" THEN {From(t), th[t].to} ELSE {From(t)}
InJournal(h, id) == trail[h].broken \/ id \in trail[h].events

\* Each journal that a command concerns has it, or is still to be written.
InTrail(t) ==
  th[t].pc \in RecordPCs =>
    \A h \in Concerned(t) : \/ InJournal(h, th[t].id)
                            \/ th[t].pc # "recorded"
                               /\ \E i \in DOMAIN th[t].left : th[t].left[i] = h
DoneInTrail ==
  \A e \in done : e.homes \subseteq Homes /\ \A h \in e.homes : InJournal(h, e.id)

TrailInv ==
  "unplugged" \notin strain => reach = Homes /\ DoneInTrail /\ \A t \in Threads : InTrail(t)

-----------------------------------------------------------------------------
(* The lists of steps. *)

\* What is in two lists one after the other is in one of them, and an order that
\* each of them keeps is kept where they meet.
LEMMA Joined ==
  ASSUME NEW S, NEW p \in Seq(S), NEW q \in Seq(S)
  PROVE  /\ p \o q \in Seq(S)
         /\ \A x : Occurs(p \o q, x) <=> Occurs(p, x) \/ Occurs(q, x)
         /\ \A a, b : Before(p, a, b) \/ Occurs(q, b) =>
              (Before(q, a, b) => Before(p \o q, a, b))
         /\ \A a, xs : /\ NoneAfter(p, a, xs) /\ NoneAfter(q, a, xs)
                       /\ ~Occurs(p, a) \/ \A x \in xs : ~Occurs(q, x)
                       => NoneAfter(p \o q, a, xs)
<1> DEFINE s == p \o q
           m == Len(p)
           n == Len(q)
<1>1. s \in Seq(S) /\ m \in Nat /\ n \in Nat /\ Len(s) = m + n
  OBVIOUS
<1>2. DOMAIN s = 1..(m + n) /\ DOMAIN p = 1..m /\ DOMAIN q = 1..n
  BY <1>1
<1>3. \A i \in 1..m : s[i] = p[i]
  BY <1>1
<1>4. \A i \in 1..n : m + i \in 1..(m + n) /\ s[m + i] = q[i]
  BY <1>1
<1>5. \A i \in (m + 1)..(m + n) : i - m \in 1..n /\ s[i] = q[i - m]
  BY <1>1
<1>6. \A i \in 1..(m + n) : i \in 1..m \/ i \in (m + 1)..(m + n)
  BY <1>1
<1> HIDE DEF s, m, n
<1>7. ASSUME NEW x PROVE Occurs(s, x) <=> Occurs(p, x) \/ Occurs(q, x)
  <2>1. Occurs(s, x) => Occurs(p, x) \/ Occurs(q, x)
    BY <1>2, <1>3, <1>5, <1>6 DEF Occurs
  <2>2. Occurs(p, x) => Occurs(s, x)
    BY <1>1, <1>2, <1>3 DEF Occurs
  <2>3. Occurs(q, x) => Occurs(s, x)
    BY <1>2, <1>4 DEF Occurs
  <2> QED
    BY <2>1, <2>2, <2>3
<1>8. ASSUME NEW a, NEW b, Before(p, a, b) \/ Occurs(q, b), Before(q, a, b)
      PROVE  Before(s, a, b)
  <2> SUFFICES ASSUME NEW i \in DOMAIN s, s[i] = a
               PROVE  \E j \in DOMAIN s : i < j /\ s[j] = b
    BY DEF Before
  <2>1. CASE i \in 1..m /\ Before(p, a, b)
    <3>1. PICK j \in 1..m : i < j /\ p[j] = b
      BY <1>2, <1>3, <2>1 DEF Before
    <3> QED
      BY <1>1, <1>2, <1>3, <3>1
  <2>2. CASE i \in 1..m /\ Occurs(q, b)
    <3>1. PICK j \in 1..n : q[j] = b
      BY <1>2, <2>2 DEF Occurs
    <3>2. i < m + j
      BY <1>1, <2>2, <3>1
    <3>3. m + j \in DOMAIN s /\ s[m + j] = b
      BY <1>2, <1>4, <3>1
    <3> QED
      BY <3>2, <3>3
  <2>3. CASE i \in (m + 1)..(m + n)
    <3>1. i - m \in 1..n /\ q[i - m] = a
      <4>1. i - m \in 1..n /\ s[i] = q[i - m]
        BY ONLY <1>5, <2>3
      <4>2. s[i] = a
        OBVIOUS
      <4> QED
        BY ONLY <4>1, <4>2
    <3>2. PICK j \in 1..n : i - m < j /\ q[j] = b
      BY <1>2, <1>8, <3>1 DEF Before
    <3>3. i < m + j
      BY <1>1, <2>3, <3>2
    <3>4. m + j \in DOMAIN s /\ s[m + j] = b
      BY <1>2, <1>4, <3>2
    <3> QED
      BY <3>3, <3>4
  <2> QED
    BY <1>2, <1>6, <1>8, <2>1, <2>2, <2>3
<1>9. ASSUME NEW a, NEW xs, NoneAfter(p, a, xs), NoneAfter(q, a, xs),
             ~Occurs(p, a) \/ \A x \in xs : ~Occurs(q, x)
      PROVE  NoneAfter(s, a, xs)
  <2> SUFFICES ASSUME NEW i \in DOMAIN s, NEW j \in DOMAIN s, i < j, s[i] = a
               PROVE  s[j] \notin xs
    BY DEF NoneAfter
  <2>1. CASE i \in 1..m /\ j \in 1..m
    BY <1>2, <1>3, <1>9, <2>1 DEF NoneAfter
  <2>2. CASE i \in 1..m /\ j \in (m + 1)..(m + n)
    BY <1>2, <1>3, <1>5, <1>9, <2>2 DEF Occurs
  <2>3. CASE i \in (m + 1)..(m + n) /\ j \in (m + 1)..(m + n)
    <3>1. i - m < j - m
      BY <1>1, <2>3
    <3> QED
      BY <1>2, <1>5, <1>9, <2>3, <3>1 DEF NoneAfter
  <2>4. CASE i \in (m + 1)..(m + n) /\ j \in 1..m
    BY <1>1, <2>4
  <2> QED
    BY <1>2, <1>6, <2>1, <2>2, <2>3, <2>4
<1> QED
  BY <1>1, <1>7, <1>8, <1>9 DEF s

\* Doing the first step of a list leaves the others, in their order.
LEMMA FirstDone ==
  ASSUME NEW S, NEW s \in Seq(S), s # <<>>
  PROVE  /\ Tail(s) \in Seq(S) /\ Head(s) \in S
         /\ \A x : Occurs(s, x) <=> Head(s) = x \/ Occurs(Tail(s), x)
         /\ \A a, b : Before(s, a, b) =>
              Before(Tail(s), a, b) /\ (Head(s) = a => Occurs(Tail(s), b))
         /\ \A a, xs : NoneAfter(s, a, xs) =>
              /\ NoneAfter(Tail(s), a, xs)
              /\ Head(s) = a => \A x \in xs : ~Occurs(Tail(s), x)
<1> DEFINE r == Tail(s)
           n == Len(s)
<1>1. /\ n \in Nat /\ n # 0 /\ DOMAIN s = 1..n /\ Head(s) = s[1] /\ s[1] \in S
      /\ r \in Seq(S) /\ DOMAIN r = 1..(n - 1)
      /\ \A i \in 1..(n - 1) : i + 1 \in 1..n /\ r[i] = s[i + 1]
  OBVIOUS
<1>2. \A i \in 1..n : i = 1 \/ (i - 1 \in 1..(n - 1) /\ r[i - 1] = s[i])
  BY <1>1
<1> HIDE DEF r, n
<1>3. ASSUME NEW x PROVE Occurs(s, x) <=> s[1] = x \/ Occurs(r, x)
  <2>1. Occurs(s, x) => s[1] = x \/ Occurs(r, x)
    BY <1>1, <1>2 DEF Occurs
  <2>2. s[1] = x => Occurs(s, x)
    BY <1>1 DEF Occurs
  <2>3. Occurs(r, x) => Occurs(s, x)
    BY <1>1 DEF Occurs
  <2> QED
    BY <2>1, <2>2, <2>3
<1>4. ASSUME NEW a, NEW b, Before(s, a, b)
      PROVE  Before(r, a, b) /\ (s[1] = a => Occurs(r, b))
  <2>1. ASSUME NEW i \in 1..n, s[i] = a PROVE \E j \in 1..(n - 1) : i - 1 < j /\ r[j] = b
    <3>1. PICK j \in 1..n : i < j /\ s[j] = b
      BY <1>1, <1>4, <2>1 DEF Before
    <3>2. j - 1 \in 1..(n - 1) /\ i - 1 < j - 1 /\ r[j - 1] = b
      BY <1>1, <1>2, <3>1
    <3> QED
      BY <3>2
  <2>2. Before(r, a, b)
    <3> SUFFICES ASSUME NEW i \in 1..(n - 1), r[i] = a
                 PROVE  \E j \in 1..(n - 1) : i < j /\ r[j] = b
      BY <1>1 DEF Before
    <3>1. i + 1 \in 1..n /\ s[i + 1] = a /\ (i + 1) - 1 = i
      BY <1>1
    <3> QED
      BY <2>1, <3>1
  <2>3. s[1] = a => Occurs(r, b)
    <3> SUFFICES ASSUME s[1] = a
                 PROVE  \E j \in 1..(n - 1) : r[j] = b
      BY <1>1 DEF Occurs
    <3>1. 1 \in 1..n
      BY <1>1
    <3> QED
      BY <2>1, <3>1
  <2> QED
    BY <2>2, <2>3
<1>5. ASSUME NEW a, NEW xs, NoneAfter(s, a, xs)
      PROVE  NoneAfter(r, a, xs) /\ (s[1] = a => \A x \in xs : ~Occurs(r, x))
  <2>1. ASSUME NEW i \in 1..(n - 1), NEW j \in 1..(n - 1), i < j, r[i] = a
        PROVE  r[j] \notin xs
    <3>1. i + 1 < j + 1 /\ s[i + 1] = a /\ s[j + 1] = r[j]
      BY <1>1, <2>1
    <3> QED
      BY <1>1, <1>5, <3>1 DEF NoneAfter
  <2>2. ASSUME s[1] = a, NEW x \in xs, NEW j \in 1..(n - 1), r[j] = x PROVE FALSE
    <3>1. 1 < j + 1 /\ s[j + 1] = x /\ 1 \in 1..n
      BY <1>1, <2>2
    <3> QED
      BY <1>1, <1>5, <2>2, <3>1 DEF NoneAfter
  <2> QED
    BY <1>1, <2>1, <2>2 DEF NoneAfter, Occurs
<1> QED
  BY <1>1, <1>3, <1>4, <1>5 DEF r

\* A list of one step.
LEMMA OneStep ==
  ASSUME NEW S, NEW x \in S
  PROVE  /\ <<x>> \in Seq(S)
         /\ \A y : Occurs(<<x>>, y) <=> y = x
         /\ \A a, b : a # x => Before(<<x>>, a, b)
         /\ \A a, xs : NoneAfter(<<x>>, a, xs)
<1>1. <<x>> \in Seq(S) /\ DOMAIN <<x>> = 1..1 /\ <<x>>[1] = x
  OBVIOUS
<1>2. \A i \in DOMAIN <<x>> : i = 1
  BY <1>1
<1> QED
  BY <1>1, <1>2 DEF Occurs, Before, NoneAfter

\* A list of three steps.
LEMMA ThreeSteps ==
  ASSUME NEW S, NEW x \in S, NEW y \in S, NEW z \in S
  PROVE  LET s == <<x, y, z>>
         IN  /\ s \in Seq(S)
             /\ \A w : Occurs(s, w) <=> w \in {x, y, z}
             /\ \A a, b : /\ x = a => b \in {y, z}
                          /\ y = a => z = b
                          /\ z # a
                          => Before(s, a, b)
             /\ \A a, xs : /\ x = a => y \notin xs /\ z \notin xs
                           /\ y = a => z \notin xs
                           => NoneAfter(s, a, xs)
<1> DEFINE s == <<x, y, z>>
<1>1. /\ s \in Seq(S) /\ DOMAIN s = {1, 2, 3}
      /\ s[1] = x /\ s[2] = y /\ s[3] = z
  OBVIOUS
<1> HIDE DEF s
<1> SUFFICES
      /\ \A w : Occurs(s, w) <=> w \in {x, y, z}
      /\ \A a, b : /\ x = a => b \in {y, z}
                   /\ y = a => z = b
                   /\ z # a
                   => Before(s, a, b)
      /\ \A a, xs : /\ x = a => y \notin xs /\ z \notin xs
                    /\ y = a => z \notin xs
                    => NoneAfter(s, a, xs)
  BY <1>1 DEF s
<1>2. \A w : Occurs(s, w) <=> w \in {x, y, z}
  BY <1>1 DEF Occurs
<1>3. ASSUME NEW a, NEW b, x = a => b \in {y, z}, y = a => z = b, z # a
      PROVE  Before(s, a, b)
  BY <1>1, <1>3 DEF Before
<1>4. ASSUME NEW a, NEW xs, x = a => y \notin xs /\ z \notin xs, y = a => z \notin xs
      PROVE  NoneAfter(s, a, xs)
  BY <1>1, <1>4 DEF NoneAfter
<1> QED
  BY <1>2, <1>3, <1>4

\* Where a step does not occur nothing is said about what follows it.
LEMMA Absent ==
  ASSUME NEW s, NEW a, ~Occurs(s, a)
  PROVE  (\A b : Before(s, a, b)) /\ \A xs : NoneAfter(s, a, xs)
BY DEF Occurs, Before, NoneAfter

\* A list is in order if it has none of the steps that something must follow or not follow.
LEMMA Plain ==
  ASSUME NEW s, ~Occurs(s, "seed"), ~Occurs(s, "relax"), ~Occurs(s, "stamp"),
         ~Occurs(s, "dropValues")
  PROVE  Ordered(s)
<1>1. /\ Before(s, "seed", "promote") /\ Before(s, "relax", "enforce")
      /\ NoneAfter(s, "stamp", Steps \ {"codes"})
      /\ NoneAfter(s, "dropValues", {"mergeValues", "copyValues"})
  BY Absent
<1> QED
  BY <1>1 DEF Ordered

\* The schema steps before the first change of the connection.
LEMMA FirstSteps ==
  LET s == <<"base", "employees", "teams", "accounts", "codes", "assets", "imports",
             "categories", "prefixes", "requests">>
  IN  /\ s \in Seq(Steps)
      /\ \A x : Occurs(s, x) <=> x \in {"base", "employees", "teams", "accounts", "codes",
                                        "assets", "imports", "categories", "prefixes",
                                        "requests"}
<1> DEFINE s == <<"base", "employees", "teams", "accounts", "codes", "assets", "imports",
                  "categories", "prefixes", "requests">>
<1>1. /\ "base" \in Steps /\ "employees" \in Steps /\ "teams" \in Steps /\ "accounts" \in Steps
      /\ "codes" \in Steps /\ "assets" \in Steps /\ "imports" \in Steps
      /\ "categories" \in Steps /\ "prefixes" \in Steps /\ "requests" \in Steps
  BY DEF Steps
<1>2. s \in Seq(Steps)
  BY ONLY <1>1
<1>3. /\ DOMAIN s = 1..10 /\ s[1] = "base" /\ s[2] = "employees" /\ s[3] = "teams"
      /\ s[4] = "accounts" /\ s[5] = "codes" /\ s[6] = "assets" /\ s[7] = "imports"
      /\ s[8] = "categories" /\ s[9] = "prefixes" /\ s[10] = "requests"
  OBVIOUS
<1>4. 1..10 = {1, 2, 3, 4, 5, 6, 7, 8, 9, 10}
  OBVIOUS
<1> HIDE DEF s
<1>5. \A x : Occurs(s, x) <=> x \in {"base", "employees", "teams", "accounts", "codes",
                                     "assets", "imports", "categories", "prefixes",
                                     "requests"}
  BY ONLY <1>3, <1>4 DEF Occurs
<1> QED
  BY ONLY <1>2, <1>5 DEF s

\* The five steps that move old values under the new key, in this order.
LEMMA AliasFacts ==
  /\ AliasSteps \in Seq(Steps)
  /\ \A x : Occurs(AliasSteps, x) <=>
       x \in {"newField", "mergeValues", "copyValues", "dropValues", "dropField"}
  /\ NoneAfter(AliasSteps, "dropValues", {"mergeValues", "copyValues"})
<1>1. ASSUME NEW S, NEW x1 \in S, NEW x2 \in S, NEW x3 \in S, NEW x4 \in S, NEW x5 \in S
      PROVE  LET s == <<x1, x2, x3, x4, x5>>
             IN  /\ s \in Seq(S)
                 /\ \A x : Occurs(s, x) <=> x \in {x1, x2, x3, x4, x5}
                 /\ x4 \notin {x1, x2, x3} /\ x5 \notin {x2, x3} => NoneAfter(s, x4, {x2, x3})
  <2> DEFINE s == <<x1, x2, x3, x4, x5>>
  <2>1. /\ s \in Seq(S) /\ DOMAIN s = 1..5
        /\ s[1] = x1 /\ s[2] = x2 /\ s[3] = x3 /\ s[4] = x4 /\ s[5] = x5
    OBVIOUS
  <2>2. 1..5 = {1, 2, 3, 4, 5}
    OBVIOUS
  <2> HIDE DEF s
  <2>3. \A x : Occurs(s, x) <=> x \in {x1, x2, x3, x4, x5}
    BY <2>1, <2>2 DEF Occurs
  <2>4. ASSUME x4 \notin {x1, x2, x3}, x5 \notin {x2, x3} PROVE NoneAfter(s, x4, {x2, x3})
    <3> SUFFICES ASSUME NEW i \in 1..5, NEW j \in 1..5, i < j, s[i] = x4
                 PROVE  s[j] \notin {x2, x3}
      BY <2>1 DEF NoneAfter
    <3>1. i \in {4, 5}
      BY <2>1, <2>2, <2>4
    <3>2. j = 5
      BY <3>1
    <3> QED
      BY <2>1, <2>4, <3>2
  <2> QED
    BY <2>1, <2>3, <2>4 DEF s
<1>2. /\ "newField" \in Steps /\ "mergeValues" \in Steps /\ "copyValues" \in Steps
      /\ "dropValues" \in Steps /\ "dropField" \in Steps
  BY DEF Steps
<1>3. /\ AliasSteps \in Seq(Steps)
      /\ \A x : Occurs(AliasSteps, x) <=>
           x \in {"newField", "mergeValues", "copyValues", "dropValues", "dropField"}
  BY <1>1, <1>2 DEF AliasSteps
<1>4. NoneAfter(AliasSteps, "dropValues", {"mergeValues", "copyValues"})
  <2>1. /\ "dropValues" \notin {"newField", "mergeValues", "copyValues"}
        /\ "dropField" \notin {"mergeValues", "copyValues"}
    OBVIOUS
  <2> QED
    BY <1>1, <1>2, <2>1 DEF AliasSteps
<1> QED
  BY <1>3, <1>4

\* The upgrade of a database without the stamp: each part is brought and each old
\* one removed, and the steps are in the order that the upgrade depends on.
LEMMA UpgradeList ==
  ASSUME NEW d, d.version < SCHEMA_USER_VERSION
  PROVE  /\ UpgradeSteps(d) \in Seq(Steps) /\ Ordered(UpgradeSteps(d))
         /\ \A x \in Steps \ IndexWork : Occurs(UpgradeSteps(d), x)
         /\ \A x \in IndexWork : ~Occurs(UpgradeSteps(d), x)
<1> DEFINE s1 == <<"base", "employees", "teams", "accounts", "codes", "assets", "imports",
                   "categories", "prefixes", "requests">>
           s2 == <<"relax", "phaseC", "enforce">>
           s3 == <<"relax", "retain", "enforce">>
           s4 == <<"policies", "seed", "promote">>
           s5 == <<"index", "stamp", "codes">>
           t2 == s1 \o s2
           t3 == t2 \o s3
           t4 == t3 \o s4
           t5 == t4 \o AliasSteps
           xs == Steps \ {"codes"}
           ys == {"mergeValues", "copyValues"}
<1>1. UpgradeSteps(d) = t5 \o s5
  BY DEF UpgradeSteps, SchemaSteps
<1>2. \A p, q \in Seq(Steps) :
        /\ p \o q \in Seq(Steps)
        /\ \A x : Occurs(p \o q, x) <=> Occurs(p, x) \/ Occurs(q, x)
        /\ \A a, b : Before(p, a, b) /\ Before(q, a, b) => Before(p \o q, a, b)
        /\ \A a, zs : /\ NoneAfter(p, a, zs) /\ NoneAfter(q, a, zs)
                      /\ ~Occurs(p, a) \/ \A x \in zs : ~Occurs(q, x)
                      => NoneAfter(p \o q, a, zs)
  BY Joined
<1>3. /\ s1 \in Seq(Steps) /\ Ordered(s1) /\ ~Occurs(s1, "stamp") /\ ~Occurs(s1, "dropValues")
      /\ \A x : Occurs(s1, x) <=> x \in {"base", "employees", "teams", "accounts", "codes",
                                         "assets", "imports", "categories", "prefixes",
                                         "requests"}
  <2>1. /\ s1 \in Seq(Steps)
        /\ \A x : Occurs(s1, x) <=> x \in {"base", "employees", "teams", "accounts", "codes",
                                           "assets", "imports", "categories", "prefixes",
                                           "requests"}
    BY FirstSteps
  <2> HIDE DEF s1
  <2>2. /\ ~Occurs(s1, "seed") /\ ~Occurs(s1, "relax") /\ ~Occurs(s1, "stamp")
        /\ ~Occurs(s1, "dropValues")
    BY <2>1
  <2> QED
    BY <2>1, <2>2, Plain
<1>4. /\ s2 \in Seq(Steps) /\ Ordered(s2) /\ ~Occurs(s2, "stamp") /\ ~Occurs(s2, "dropValues")
      /\ \A x : Occurs(s2, x) <=> x \in {"relax", "phaseC", "enforce"}
  <2>1. "relax" \in Steps /\ "phaseC" \in Steps /\ "enforce" \in Steps
    BY DEF Steps
  <2>2. /\ s2 \in Seq(Steps) /\ Before(s2, "relax", "enforce")
        /\ \A x : Occurs(s2, x) <=> x \in {"relax", "phaseC", "enforce"}
    BY <2>1, ThreeSteps
  <2> HIDE DEF s2
  <2>3. ~Occurs(s2, "seed") /\ ~Occurs(s2, "stamp") /\ ~Occurs(s2, "dropValues")
    BY <2>2
  <2>4. /\ Before(s2, "seed", "promote") /\ NoneAfter(s2, "stamp", xs)
        /\ NoneAfter(s2, "dropValues", ys)
    BY <2>3, Absent
  <2> QED
    BY <2>2, <2>3, <2>4 DEF Ordered
<1>5. /\ s3 \in Seq(Steps) /\ Ordered(s3) /\ ~Occurs(s3, "stamp") /\ ~Occurs(s3, "dropValues")
      /\ \A x : Occurs(s3, x) <=> x \in {"relax", "retain", "enforce"}
  <2>1. "relax" \in Steps /\ "retain" \in Steps /\ "enforce" \in Steps
    BY DEF Steps
  <2>2. /\ s3 \in Seq(Steps) /\ Before(s3, "relax", "enforce")
        /\ \A x : Occurs(s3, x) <=> x \in {"relax", "retain", "enforce"}
    BY <2>1, ThreeSteps
  <2> HIDE DEF s3
  <2>3. ~Occurs(s3, "seed") /\ ~Occurs(s3, "stamp") /\ ~Occurs(s3, "dropValues")
    BY <2>2
  <2>4. /\ Before(s3, "seed", "promote") /\ NoneAfter(s3, "stamp", xs)
        /\ NoneAfter(s3, "dropValues", ys)
    BY <2>3, Absent
  <2> QED
    BY <2>2, <2>3, <2>4 DEF Ordered
<1>6. /\ s4 \in Seq(Steps) /\ Ordered(s4) /\ ~Occurs(s4, "stamp") /\ ~Occurs(s4, "dropValues")
      /\ \A x : Occurs(s4, x) <=> x \in {"policies", "seed", "promote"}
  <2>1. "policies" \in Steps /\ "seed" \in Steps /\ "promote" \in Steps
    BY DEF Steps
  <2>2. /\ s4 \in Seq(Steps) /\ Before(s4, "seed", "promote")
        /\ \A x : Occurs(s4, x) <=> x \in {"policies", "seed", "promote"}
    BY <2>1, ThreeSteps
  <2> HIDE DEF s4
  <2>3. ~Occurs(s4, "relax") /\ ~Occurs(s4, "stamp") /\ ~Occurs(s4, "dropValues")
    BY <2>2
  <2>4. /\ Before(s4, "relax", "enforce") /\ NoneAfter(s4, "stamp", xs)
        /\ NoneAfter(s4, "dropValues", ys)
    BY <2>3, Absent
  <2> QED
    BY <2>2, <2>3, <2>4 DEF Ordered
<1>7. /\ s5 \in Seq(Steps) /\ Ordered(s5)
      /\ \A x : Occurs(s5, x) <=> x \in {"index", "stamp", "codes"}
  <2>1. "index" \in Steps /\ "stamp" \in Steps /\ "codes" \in Steps
    BY DEF Steps
  <2>2. "codes" \notin xs
    OBVIOUS
  <2> HIDE DEF xs
  <2>3. /\ s5 \in Seq(Steps) /\ NoneAfter(s5, "stamp", xs)
        /\ \A x : Occurs(s5, x) <=> x \in {"index", "stamp", "codes"}
    BY <2>1, <2>2, ThreeSteps
  <2> HIDE DEF s5
  <2>4. ~Occurs(s5, "seed") /\ ~Occurs(s5, "relax") /\ ~Occurs(s5, "dropValues")
    BY <2>3
  <2>5. /\ Before(s5, "seed", "promote") /\ Before(s5, "relax", "enforce")
        /\ NoneAfter(s5, "dropValues", ys)
    BY <2>4, Absent
  <2> QED
    BY <2>3, <2>5 DEF Ordered, xs
<1>8. /\ AliasSteps \in Seq(Steps) /\ Ordered(AliasSteps) /\ ~Occurs(AliasSteps, "stamp")
      /\ \A x : Occurs(AliasSteps, x) <=>
           x \in {"newField", "mergeValues", "copyValues", "dropValues", "dropField"}
  <2>1. /\ ~Occurs(AliasSteps, "seed") /\ ~Occurs(AliasSteps, "relax")
        /\ ~Occurs(AliasSteps, "stamp")
    BY AliasFacts
  <2>2. /\ Before(AliasSteps, "seed", "promote") /\ Before(AliasSteps, "relax", "enforce")
        /\ NoneAfter(AliasSteps, "stamp", xs)
    BY <2>1, Absent
  <2> QED
    BY <2>1, <2>2, AliasFacts DEF Ordered
<1> HIDE DEF s1, s2, s3, s4, s5
<1>9. ASSUME NEW p \in Seq(Steps), NEW q \in Seq(Steps), Ordered(p), Ordered(q),
             ~Occurs(p, "stamp"), ~Occurs(p, "dropValues") \/ \A y \in ys : ~Occurs(q, y)
      PROVE  /\ p \o q \in Seq(Steps) /\ Ordered(p \o q)
             /\ \A x : Occurs(p \o q, x) <=> Occurs(p, x) \/ Occurs(q, x)
  BY <1>2, <1>9 DEF Ordered
<1>10. /\ t2 \in Seq(Steps) /\ Ordered(t2)
       /\ \A x : Occurs(t2, x) <=> Occurs(s1, x) \/ Occurs(s2, x)
  BY <1>3, <1>4, <1>9
<1> HIDE DEF t2
<1>11. /\ t3 \in Seq(Steps) /\ Ordered(t3)
       /\ \A x : Occurs(t3, x) <=> Occurs(t2, x) \/ Occurs(s3, x)
  BY <1>3, <1>4, <1>5, <1>9, <1>10
<1> HIDE DEF t3
<1>12. /\ t4 \in Seq(Steps) /\ Ordered(t4)
       /\ \A x : Occurs(t4, x) <=> Occurs(t3, x) \/ Occurs(s4, x)
  BY <1>3, <1>4, <1>5, <1>6, <1>9, <1>10, <1>11
<1> HIDE DEF t4
<1>13. ~Occurs(t4, "stamp") /\ ~Occurs(t4, "dropValues")
  BY <1>3, <1>4, <1>5, <1>6, <1>10, <1>11, <1>12
<1>14. /\ t5 \in Seq(Steps) /\ Ordered(t5)
       /\ \A x : Occurs(t5, x) <=> Occurs(t4, x) \/ Occurs(AliasSteps, x)
  BY <1>8, <1>9, <1>12, <1>13
<1> HIDE DEF t5
<1>15. /\ t5 \o s5 \in Seq(Steps) /\ Ordered(t5 \o s5)
       /\ \A x : Occurs(t5 \o s5, x) <=> Occurs(t5, x) \/ Occurs(s5, x)
  BY <1>7, <1>8, <1>9, <1>13, <1>14
<1>16. \A x \in Steps \ IndexWork : Occurs(t5 \o s5, x)
  BY <1>3, <1>4, <1>5, <1>6, <1>7, <1>8, <1>10, <1>11, <1>12, <1>14, <1>15 DEF Steps, IndexWork
<1>17. \A x \in IndexWork : ~Occurs(t5 \o s5, x)
  <2>1. \A x \in IndexWork : ~Occurs(s1, x) /\ ~Occurs(s2, x) /\ ~Occurs(s3, x)
    BY ONLY <1>3, <1>4, <1>5 DEF IndexWork
  <2>2. \A x \in IndexWork : ~Occurs(s4, x) /\ ~Occurs(s5, x) /\ ~Occurs(AliasSteps, x)
    BY ONLY <1>6, <1>7, <1>8 DEF IndexWork
  <2> QED
    BY ONLY <1>10, <1>11, <1>12, <1>14, <1>15, <2>1, <2>2
<1> QED
  BY <1>1, <1>15, <1>16, <1>17

\* The upgrade of a database that has the stamp looks after the index and one table.
LEMMA RepairList ==
  ASSUME NEW d, ~(d.version < SCHEMA_USER_VERSION)
  PROVE  /\ UpgradeSteps(d) \in Seq(Steps) /\ Ordered(UpgradeSteps(d))
         /\ \A x : Occurs(UpgradeSteps(d), x) <=> x \in {"index", "codes"}
<1> DEFINE s == <<"index", "codes">>
<1>1. UpgradeSteps(d) = s
  BY DEF UpgradeSteps
<1>2. s \in Seq(Steps) /\ DOMAIN s = {1, 2} /\ s[1] = "index" /\ s[2] = "codes"
  <2>1. ASSUME NEW S, NEW x \in S, NEW y \in S
        PROVE  <<x, y>> \in Seq(S) /\ DOMAIN <<x, y>> = {1, 2}
    OBVIOUS
  <2> QED
    BY <2>1 DEF Steps
<1> HIDE DEF s
<1>3. \A x : Occurs(s, x) <=> x \in {"index", "codes"}
  BY <1>2 DEF Occurs
<1> QED
  BY <1>1, <1>2, <1>3, Absent DEF Ordered

\* The work on the index, found out when it is its turn: what is missing is made, in
\* order, and where nothing is missing there is none.
LEMMA IndexList ==
  ASSUME NEW d
  PROVE  /\ IndexSteps(d) \in Seq(Steps) /\ Ordered(IndexSteps(d))
         /\ IndexOrdered(IndexSteps(d))
         /\ \A x : Occurs(IndexSteps(d), x) => x \in IndexWork
         /\ d.index \in {"none", "stale"} => Occurs(IndexSteps(d), "createIndex")
         /\ ~d.triggers => Occurs(IndexSteps(d), "createTriggers")
         /\ d.triggers /\ d.index \notin {"none", "stale"} => \A x : ~Occurs(IndexSteps(d), x)
<1> DEFINE r == d.index \in {"none", "stale"}
           a == IF r \/ ~d.triggers THEN <<"dropTriggers">> ELSE <<>>
           b == IF r THEN <<"dropIndex", "createIndex", "fillIndex">> ELSE <<>>
           c == IF r \/ ~d.triggers THEN <<"createTriggers">> ELSE <<>>
<1>1. IndexSteps(d) = (a \o b) \o c
  BY DEF IndexSteps
<1>2. <<>> \in Seq(Steps) /\ \A x : ~Occurs(<<>>, x)
  BY DEF Occurs
<1>3. /\ a \in Seq(Steps)
      /\ \A x : Occurs(a, x) => x = "dropTriggers" /\ (r \/ ~d.triggers)
  BY <1>2, OneStep DEF Steps
<1>4. /\ b \in Seq(Steps)
      /\ r => Occurs(b, "createIndex")
      /\ \A x : Occurs(b, x) => x \in {"dropIndex", "createIndex", "fillIndex"} /\ r
      /\ Before(b, "dropIndex", "createIndex") /\ Before(b, "createIndex", "fillIndex")
  <2> DEFINE w == <<"dropIndex", "createIndex", "fillIndex">>
  <2>1. "dropIndex" \in Steps /\ "createIndex" \in Steps /\ "fillIndex" \in Steps
    BY DEF Steps
  <2>2. /\ w \in Seq(Steps)
        /\ \A x : Occurs(w, x) <=> x \in {"dropIndex", "createIndex", "fillIndex"}
        /\ Before(w, "dropIndex", "createIndex") /\ Before(w, "createIndex", "fillIndex")
    BY <2>1, ThreeSteps
  <2> HIDE DEF w
  <2>3. b = IF r THEN w ELSE <<>>
    BY DEF w
  <2> HIDE DEF b
  <2> QED
    BY <1>2, <2>2, <2>3, Absent
<1>5. /\ c \in Seq(Steps)
      /\ r \/ ~d.triggers => Occurs(c, "createTriggers")
      /\ \A x : Occurs(c, x) => x = "createTriggers" /\ (r \/ ~d.triggers)
  BY <1>2, OneStep DEF Steps
<1> HIDE DEF a, b, c
<1>6. /\ a \o b \in Seq(Steps)
      /\ \A x : Occurs(a \o b, x) <=> Occurs(a, x) \/ Occurs(b, x)
      /\ \A x, y : Before(a, x, y) \/ Occurs(b, y) => (Before(b, x, y) => Before(a \o b, x, y))
  <2>1. a \in Seq(Steps) /\ b \in Seq(Steps)
    BY ONLY <1>3, <1>4
  <2> QED
    BY ONLY <2>1, Joined
<1>7. /\ (a \o b) \o c \in Seq(Steps)
      /\ \A x : Occurs((a \o b) \o c, x) <=> Occurs(a \o b, x) \/ Occurs(c, x)
      /\ \A x, y : Before(a \o b, x, y) \/ Occurs(c, y) =>
           (Before(c, x, y) => Before((a \o b) \o c, x, y))
  <2> DEFINE ab == a \o b
  <2>1. ab \in Seq(Steps) /\ c \in Seq(Steps)
    BY ONLY <1>5, <1>6
  <2> HIDE DEF ab
  <2>2. /\ ab \o c \in Seq(Steps)
        /\ \A x : Occurs(ab \o c, x) <=> Occurs(ab, x) \/ Occurs(c, x)
        /\ \A x, y : Before(ab, x, y) \/ Occurs(c, y) =>
             (Before(c, x, y) => Before(ab \o c, x, y))
    BY ONLY <2>1, Joined
  <2> QED
    BY ONLY <2>2 DEF ab
<1>8. \A x : Occurs(IndexSteps(d), x) => x \in IndexWork /\ (r \/ ~d.triggers)
  BY <1>1, <1>3, <1>4, <1>5, <1>6, <1>7 DEF IndexWork
<1>9. Ordered(IndexSteps(d))
  BY <1>8, Plain DEF IndexWork
<1>10. IndexOrdered(IndexSteps(d))
  <2>1. \A y : /\ Before(a, "dropIndex", y) /\ Before(a, "createIndex", y)
               /\ Before(c, "dropIndex", y) /\ Before(c, "createIndex", y)
               /\ Before(b, "dropTriggers", y) /\ Before(c, "dropTriggers", y)
    <3>1. /\ ~Occurs(a, "dropIndex") /\ ~Occurs(a, "createIndex")
          /\ ~Occurs(c, "dropIndex") /\ ~Occurs(c, "createIndex")
          /\ ~Occurs(b, "dropTriggers") /\ ~Occurs(c, "dropTriggers")
      BY ONLY <1>3, <1>4, <1>5
    <3> QED
      BY ONLY <3>1, Absent
  <2>2. /\ Before((a \o b) \o c, "dropIndex", "createIndex")
        /\ Before((a \o b) \o c, "createIndex", "fillIndex")
    BY <1>4, <1>6, <1>7, <2>1
  <2>3. Before((a \o b) \o c, "dropTriggers", "createTriggers")
    <3>1. CASE r \/ ~d.triggers
      BY <1>5, <1>7, <2>1, <3>1
    <3>2. CASE ~(r \/ ~d.triggers)
      <4>1. ~Occurs(a \o b, "dropTriggers")
        BY <1>3, <1>4, <1>6, <3>2
      <4> QED
        BY <1>7, <2>1, <4>1, Absent
    <3> QED
      BY <3>1, <3>2
  <2> QED
    BY <1>1, <2>2, <2>3 DEF IndexOrdered
<1>11. /\ r => Occurs(IndexSteps(d), "createIndex")
       /\ ~d.triggers => Occurs(IndexSteps(d), "createTriggers")
  BY <1>1, <1>4, <1>5, <1>6, <1>7
<1> QED
  BY <1>1, <1>7, <1>8, <1>9, <1>10, <1>11
-----------------------------------------------------------------------------
(* Threads: what each step does to the thread that takes it. *)

OthersStay(t) == \A u \in Threads \ {t} : th'[u] = th[u]

\* A step stays in its command.
SameRun(t) == /\ th'[t].task = th[t].task /\ th'[t].id = th[t].id /\ th'[t].to = th[t].to
              /\ th'[t].fresh = th[t].fresh
\* It keeps its generation and its connection, or its path and what a move has done.
SameConn(t) == th'[t].gen = th[t].gen /\ th'[t].conn = th[t].conn
SameHome(t) == th'[t].home = th[t].home /\ th'[t].mode = th[t].mode

\* What a step leaves is a state of a thread.
Typed(t) == ThreadsOK' /\ OthersStay(t)

\* A thread state at each place of a program has one of the tasks that go there.
LEMMA Tasks ==
  ASSUME NEW o \in ThreadStates, Shape(o)
  PROVE  /\ o.task \in {"none", "write", "reset", "move"}
         /\ o.pc \in {"check", "generation", "pop", "connect", "commit", "compare", "push"} =>
              o.task \in {"write", "reset"}
         /\ o.pc \in LookupPCs \cup RecordPCs => o.task # "none"
         /\ o.pc \in RecordPCs => o.task \in {"reset", "move"}
         /\ o.pc \in {"snapshot", "journal"} => o.task = "reset"
         /\ o.pc \in MovePCs \cup {"lock"} => o.task = "move"
         /\ o.pc = "idle" <=> o.task = "none"
         /\ o.pc \in LookupPCs => \/ o.task = "write" /\ o.then = "connect"
                                  \/ o.task = "reset" /\ o.then \in {"snapshot", "connect", "journal"}
                                  \/ o.task = "move" /\ o.then = "lock"
<1>1. o.task \in {"none", "write", "reset", "move"}
  BY DEF ThreadStates
<1>2. /\ TaskPCs["none"] = {"idle"} /\ TaskPCs["write"] = UsePCs \cup LookupPCs
      /\ TaskPCs["reset"] = UsePCs \cup LookupPCs \cup RecordPCs \cup {"snapshot", "journal"}
      /\ TaskPCs["move"] = LookupPCs \cup MovePCs \cup RecordPCs \cup {"lock"}
  BY DEF TaskPCs
<1>3. /\ Nexts["none"] = {"none"} /\ Nexts["write"] = {"connect"} /\ Nexts["move"] = {"lock"}
      /\ Nexts["reset"] = {"snapshot", "connect", "journal"}
  BY DEF Nexts
<1>4. Idle.task = "none"
  BY DEF Idle
<1>5. /\ o.pc \in TaskPCs[o.task] /\ (o.pc = "idle" => o = Idle)
      /\ o.pc \in LookupPCs => o.then \in Nexts[o.task]
  BY DEF Shape
<1>6. o.pc \in {"check", "generation", "pop", "connect", "commit", "compare", "push"} =>
        o.task \in {"write", "reset"}
  BY <1>1, <1>2, <1>5 DEF UsePCs, LookupPCs, RecordPCs, MovePCs
<1>7. o.pc \in LookupPCs \cup RecordPCs => o.task # "none"
  BY <1>1, <1>2, <1>5 DEF UsePCs, LookupPCs, RecordPCs, MovePCs
<1>8. o.pc \in RecordPCs => o.task \in {"reset", "move"}
  BY <1>1, <1>2, <1>5 DEF UsePCs, LookupPCs, RecordPCs, MovePCs
<1>9. o.pc \in {"snapshot", "journal"} => o.task = "reset"
  BY <1>1, <1>2, <1>5 DEF UsePCs, LookupPCs, RecordPCs, MovePCs
<1>10. o.pc \in MovePCs \cup {"lock"} => o.task = "move"
  BY <1>1, <1>2, <1>5 DEF UsePCs, LookupPCs, RecordPCs, MovePCs
<1>11. o.pc = "idle" <=> o.task = "none"
  BY <1>1, <1>2, <1>4, <1>5 DEF UsePCs, LookupPCs, RecordPCs, MovePCs
<1> QED
  BY <1>1, <1>3, <1>5, <1>6, <1>7, <1>8, <1>9, <1>10, <1>11

\* Where each task goes.
LEMMA Places ==
  /\ UsePCs \cup LookupPCs \subseteq TaskPCs["write"]
  /\ UsePCs \cup LookupPCs \cup RecordPCs \cup {"snapshot", "journal"} \subseteq TaskPCs["reset"]
  /\ LookupPCs \cup MovePCs \cup RecordPCs \cup {"lock"} \subseteq TaskPCs["move"]
  /\ Nexts["write"] = {"connect"} /\ Nexts["move"] = {"lock"}
  /\ Nexts["reset"] = {"snapshot", "connect", "journal"}
BY DEF TaskPCs, Nexts

\* A command that ends leaves its thread idle.
LEMMA DoneEffect ==
  ASSUME ThreadsOK, NEW t \in Threads, Done(t)
  PROVE  Typed(t) /\ th'[t] = Idle
<1>1. Idle \in ThreadStates
  BY DEF Idle, ThreadStates, Place
<1>2. Shape(Idle)
  BY DEF Shape, Idle, TaskPCs, Nexts, LookupPCs, MovePCs, RecordPCs
<1> QED
  BY <1>1, <1>2 DEF Done, Typed, ThreadsOK, OthersStay

\* A thread takes its next state.
LEMMA Becomes ==
  ASSUME ThreadsOK, NEW t \in Threads, NEW o \in ThreadStates, Shape(o),
         th' = [th EXCEPT ![t] = o]
  PROVE  Typed(t) /\ th'[t] = o
BY DEF Typed, ThreadsOK, OthersStay

\* The types of a thread and of what it reads.
LEMMA ThreadTypes ==
  ASSUME TypeInv, NEW t \in Threads
  PROVE  /\ th[t] \in ThreadStates /\ Shape(th[t]) /\ ThreadsOK
         /\ gen \in Nat \ {0} /\ cache \in [gen : Nat, home : Place]
         /\ cache.gen = gen => cache.home \in Homes
         /\ Named \in Homes /\ Resolved \in Homes
BY DEF TypeInv, ThreadsOK, Named, Resolved, Homes

\* The cached path is taken if it is of this generation.
LEMMA ReadCacheEffect ==
  ASSUME TypeInv, NEW t \in Threads, ReadCache(t)
  PROVE  /\ Typed(t) /\ SameRun(t) /\ SameConn(t) /\ th[t].pc = "resolve"
         /\ th'[t].mode = th[t].mode
         /\ \/ /\ cache.gen = gen /\ th'[t].pc = th[t].then /\ th'[t].home = cache.home
               /\ th'[t].then = "none" /\ th'[t].seen = th[t].seen
            \/ /\ cache.gen # gen /\ th'[t].pc = "named" /\ th'[t].seen = gen
               /\ th'[t].then = th[t].then /\ th'[t].home = th[t].home
<1> DEFINE o == th[t]
           hit == [o EXCEPT !.home = cache.home, !.pc = o.then, !.then = "none"]
           miss == [o EXCEPT !.seen = gen, !.pc = "named"]
<1>1. /\ o \in ThreadStates /\ Shape(o) /\ ThreadsOK /\ gen \in Nat /\ o.pc = "resolve"
      /\ cache.gen = gen => cache.home \in Homes
  BY ThreadTypes DEF ReadCache, At
<1>2. /\ o.then \in {"connect", "snapshot", "journal", "lock"}
      /\ o.task = "write" => o.then = "connect"
      /\ o.task = "reset" => o.then \in {"snapshot", "connect", "journal"}
      /\ o.task = "move" => o.then = "lock" /\ o.to \in Homes /\ o.conn = "none" /\ o.gen = 0
      /\ o.task \in {"write", "reset", "move"}
      /\ o.then = "journal" => o.conn \in Homes
  BY <1>1, Tasks DEF LookupPCs, Shape
<1>3. CASE cache.gen = gen
  <2>1. hit \in ThreadStates
    BY <1>1, <1>2, <1>3 DEF ThreadStates, Place, UsePCs
  <2>2. /\ hit.pc = o.then /\ hit.task = o.task /\ hit.home = cache.home /\ hit.then = "none"
        /\ hit.to = o.to /\ hit.conn = o.conn /\ hit.gen = o.gen /\ hit.id = o.id
        /\ hit.fresh = o.fresh /\ hit.mode = o.mode /\ hit.seen = o.seen
    BY <1>1 DEF ThreadStates
  <2> HIDE DEF hit
  <2>3. Shape(hit)
    BY <1>1, <1>2, <1>3, <2>2, Places DEF Shape, UsePCs, LookupPCs, RecordPCs, MovePCs
  <2>4. th' = [th EXCEPT ![t] = hit]
    BY <1>3 DEF ReadCache, hit
  <2> QED
    BY <1>1, <1>3, <2>1, <2>2, <2>3, <2>4, Becomes DEF SameRun, SameConn
<1>4. CASE cache.gen # gen
  <2>1. miss \in ThreadStates
    BY <1>1 DEF ThreadStates, LookupPCs
  <2>2. /\ miss.pc = "named" /\ miss.task = o.task /\ miss.home = o.home /\ miss.then = o.then
        /\ miss.to = o.to /\ miss.conn = o.conn /\ miss.gen = o.gen /\ miss.id = o.id
        /\ miss.fresh = o.fresh /\ miss.mode = o.mode /\ miss.seen = gen
    BY <1>1 DEF ThreadStates
  <2> HIDE DEF miss
  <2>3. Shape(miss)
    BY <1>1, <1>2, <2>2, Places DEF Shape, UsePCs, LookupPCs, RecordPCs, MovePCs, Nexts
  <2>4. th' = [th EXCEPT ![t] = miss]
    BY <1>4 DEF ReadCache, miss
  <2> QED
    BY <1>1, <1>4, <2>1, <2>2, <2>3, <2>4, Becomes DEF SameRun, SameConn
<1> QED
  BY <1>3, <1>4

\* The path that the setting names is what the thread will store.
LEMMA ReadSettingEffect ==
  ASSUME TypeInv, NEW t \in Threads, ReadSetting(t)
  PROVE  /\ Typed(t) /\ SameRun(t) /\ SameConn(t) /\ th[t].pc = "named"
         /\ th'[t].mode = th[t].mode /\ th'[t].pc = "store" /\ th'[t].home = Resolved
         /\ th'[t].then = th[t].then /\ th'[t].seen = th[t].seen
<1> DEFINE o == th[t]
           new == [o EXCEPT !.home = Resolved, !.pc = "store"]
<1>1. /\ o \in ThreadStates /\ Shape(o) /\ ThreadsOK /\ gen \in Nat /\ o.pc = "named"
      /\ Resolved \in Homes
  BY ThreadTypes DEF ReadSetting, At
<1>2. /\ o.then \in Nexts[o.task] /\ o.task \in {"write", "reset", "move"}
      /\ o.task = "move" => o.to \in Homes /\ o.conn = "none" /\ o.gen = 0
      /\ o.task = "reset" /\ o.then = "journal" => o.conn \in Homes
  BY <1>1, Tasks DEF Shape, LookupPCs, MovePCs, RecordPCs
<1>3. CASE TRUE
  <2>1. new \in ThreadStates
    BY <1>1, <1>2, <1>3 DEF ThreadStates, Place, UsePCs, LookupPCs, MovePCs, RecordPCs
  <2>2. /\ new.pc = "store" /\ new.task = o.task /\ new.id = o.id /\ new.then = o.then
        /\ new.gen = o.gen /\ new.seen = o.seen /\ new.home = Resolved /\ new.conn = o.conn
        /\ new.fresh = o.fresh /\ new.to = o.to /\ new.mode = o.mode /\ new.left = o.left
        /\ new.entries = o.entries
    BY <1>1 DEF ThreadStates
  <2> HIDE DEF new
  <2>3. Shape(new)
    BY <1>1, <1>2, <1>3, <2>2, Places DEF Shape, UsePCs, LookupPCs, RecordPCs, MovePCs
  <2>4. th' = [th EXCEPT ![t] = new]
    BY <1>3 DEF ReadSetting, new
  <2> QED
    BY <1>1, <1>3, <2>1, <2>2, <2>3, <2>4, Becomes DEF SameRun, SameConn, SameHome
<1> QED
  BY <1>3 DEF ReadSetting, At

\* What is stored is of the generation that was read first.
LEMMA StorePathEffect ==
  ASSUME TypeInv, NEW t \in Threads, StorePath(t)
  PROVE  /\ Typed(t) /\ SameRun(t) /\ SameConn(t) /\ SameHome(t) /\ th[t].pc = "store"
         /\ th'[t].pc = th[t].then /\ th'[t].then = "none" /\ th'[t].seen = 0
         /\ th[t].home \in Homes /\ cache' = [gen |-> th[t].seen, home |-> th[t].home]
<1> DEFINE o == th[t]
           new == [o EXCEPT !.seen = 0, !.pc = o.then, !.then = "none"]
<1>1. /\ o \in ThreadStates /\ Shape(o) /\ ThreadsOK /\ gen \in Nat /\ o.pc = "store"
  BY ThreadTypes DEF StorePath, At
<1>2. /\ o.then \in {"connect", "snapshot", "journal", "lock"}
      /\ o.task = "write" => o.then = "connect"
      /\ o.task = "reset" => o.then \in {"snapshot", "connect", "journal"}
      /\ o.task = "move" => o.then = "lock" /\ o.to \in Homes /\ o.conn = "none" /\ o.gen = 0
      /\ o.task \in {"write", "reset", "move"}
      /\ o.then = "journal" => o.conn \in Homes
      /\ o.home \in Homes
  BY <1>1, Tasks DEF Shape, LookupPCs, MovePCs, RecordPCs
<1>3. CASE TRUE
  <2>1. new \in ThreadStates
    BY <1>1, <1>2, <1>3 DEF ThreadStates, Place, UsePCs, LookupPCs, MovePCs, RecordPCs
  <2>2. /\ new.pc = o.then /\ new.task = o.task /\ new.id = o.id /\ new.then = "none"
        /\ new.gen = o.gen /\ new.seen = 0 /\ new.home = o.home /\ new.conn = o.conn
        /\ new.fresh = o.fresh /\ new.to = o.to /\ new.mode = o.mode /\ new.left = o.left
        /\ new.entries = o.entries
    BY <1>1 DEF ThreadStates
  <2> HIDE DEF new
  <2>3. Shape(new)
    BY <1>1, <1>2, <1>3, <2>2, Places DEF Shape, UsePCs, LookupPCs, RecordPCs, MovePCs
  <2>4. th' = [th EXCEPT ![t] = new]
    BY <1>3 DEF StorePath, Looked, new
  <2> QED
    BY <1>1, <1>2, <1>3, <2>1, <2>2, <2>3, <2>4, Becomes DEF SameRun, SameConn, SameHome, StorePath
<1> QED
  BY <1>3 DEF StorePath, At

\* A command that meets a restore or move gives up.
LEMMA CheckEffect ==
  ASSUME TypeInv, NEW t \in Threads, Check(t)
  PROVE  /\ Typed(t) /\ th[t].pc = "check"
         /\ \/ restoring /\ th'[t] = Idle
            \/ /\ ~restoring /\ SameRun(t) /\ SameConn(t) /\ SameHome(t)
               /\ th'[t].pc = "generation"
<1> DEFINE o == th[t]
           new == [o EXCEPT !.pc = "generation"]
<1>1. /\ o \in ThreadStates /\ Shape(o) /\ ThreadsOK /\ gen \in Nat /\ o.pc = "check"
  BY ThreadTypes DEF Check, At
<1>2. o.task \in {"write", "reset"} /\ (o.task = "reset" /\ o.then = "journal" => o.conn \in Homes)
  BY <1>1, Tasks DEF Shape, LookupPCs, MovePCs, RecordPCs
<1>3. CASE ~restoring
  <2>1. new \in ThreadStates
    BY <1>1, <1>2, <1>3 DEF ThreadStates, Place, UsePCs, LookupPCs, MovePCs, RecordPCs
  <2>2. /\ new.pc = "generation" /\ new.task = o.task /\ new.id = o.id /\ new.then = o.then
        /\ new.gen = o.gen /\ new.seen = o.seen /\ new.home = o.home /\ new.conn = o.conn
        /\ new.fresh = o.fresh /\ new.to = o.to /\ new.mode = o.mode /\ new.left = o.left
        /\ new.entries = o.entries
    BY <1>1 DEF ThreadStates
  <2> HIDE DEF new
  <2>3. Shape(new)
    BY <1>1, <1>2, <1>3, <2>2, Places DEF Shape, UsePCs, LookupPCs, RecordPCs, MovePCs
  <2>4. th' = [th EXCEPT ![t] = new]
    BY <1>3 DEF Check, Goto, new
  <2> QED
    BY <1>1, <1>3, <2>1, <2>2, <2>3, <2>4, Becomes DEF SameRun, SameConn, SameHome
<1>4. CASE restoring
  BY <1>1, <1>4, DoneEffect DEF Check
<1> QED
  BY <1>3, <1>4 DEF Check, At

\* The generation is read before the pool is asked.
LEMMA ReadGenerationEffect ==
  ASSUME TypeInv, NEW t \in Threads, ReadGeneration(t)
  PROVE  /\ Typed(t) /\ SameRun(t) /\ SameHome(t) /\ th[t].pc = "generation"
         /\ th'[t].pc = "pop" /\ th'[t].gen = gen /\ th'[t].conn = th[t].conn
<1> DEFINE o == th[t]
           new == [o EXCEPT !.gen = gen, !.pc = "pop"]
<1>1. /\ o \in ThreadStates /\ Shape(o) /\ ThreadsOK /\ gen \in Nat /\ o.pc = "generation"
  BY ThreadTypes DEF ReadGeneration, At
<1>2. o.task \in {"write", "reset"} /\ (o.task = "reset" /\ o.then = "journal" => o.conn \in Homes)
  BY <1>1, Tasks DEF Shape, LookupPCs, MovePCs, RecordPCs
<1>3. CASE TRUE
  <2>1. new \in ThreadStates
    BY <1>1, <1>2, <1>3 DEF ThreadStates, Place, UsePCs, LookupPCs, MovePCs, RecordPCs
  <2>2. /\ new.pc = "pop" /\ new.task = o.task /\ new.id = o.id /\ new.then = o.then
        /\ new.gen = gen /\ new.seen = o.seen /\ new.home = o.home /\ new.conn = o.conn
        /\ new.fresh = o.fresh /\ new.to = o.to /\ new.mode = o.mode /\ new.left = o.left
        /\ new.entries = o.entries
    BY <1>1 DEF ThreadStates
  <2> HIDE DEF new
  <2>3. Shape(new)
    BY <1>1, <1>2, <1>3, <2>2, Places DEF Shape, UsePCs, LookupPCs, RecordPCs, MovePCs
  <2>4. th' = [th EXCEPT ![t] = new]
    BY <1>3 DEF ReadGeneration, new
  <2> QED
    BY <1>1, <1>3, <2>1, <2>2, <2>3, <2>4, Becomes DEF SameRun, SameConn, SameHome
<1> QED
  BY <1>3 DEF ReadGeneration, At

\* The pool has at most four connections, and the newest that fits is one that fits.
LEMMA NewestFits ==
  ASSUME TypeInv, NEW fit \in SUBSET (DOMAIN pool), fit # {}
  PROVE  (CHOOSE i \in fit : \A j \in fit : j <= i) \in fit
<1>1. DOMAIN pool = 1..Len(pool) /\ Len(pool) \in Nat /\ Len(pool) <= 4
  BY DEF TypeInv, PoolSize
<1>2. \A i \in fit : i \in {1, 2, 3, 4}
  BY <1>1
<1>3. \E i \in fit : \A j \in fit : j <= i
  <2>1. CASE 4 \in fit
    BY <1>2, <2>1
  <2>2. CASE 4 \notin fit /\ 3 \in fit
    BY <1>2, <2>2
  <2>3. CASE 4 \notin fit /\ 3 \notin fit /\ 2 \in fit
    BY <1>2, <2>3
  <2> QED
    BY <1>2, <2>1, <2>2, <2>3
<1> QED
  BY <1>3

\* A connection comes from the pool if it is of the thread's generation; the pool
\* keeps some of what it had.
LEMMA PopEffect ==
  ASSUME TypeInv, NEW t \in Threads, Pop(t)
  PROVE  /\ Typed(t) /\ SameRun(t) /\ SameHome(t) /\ th[t].pc = "pop"
         /\ th'[t].gen = th[t].gen
         /\ \/ /\ th'[t].pc = "commit"
               /\ \E i \in DOMAIN pool : pool[i].gen = th[t].gen /\ th'[t].conn = pool[i].home
            \/ /\ th'[t].pc = "resolve" /\ th'[t].then = "connect" /\ th'[t].conn = th[t].conn
         /\ pool' \in Seq([gen : Nat, home : Homes, keys : BOOLEAN]) /\ Len(pool') <= PoolSize
         /\ DOMAIN pool' \subseteq DOMAIN pool /\ \A i \in DOMAIN pool' : pool'[i] = pool[i]
<1> DEFINE o == th[t]
           fit == {i \in DOMAIN pool : pool[i].gen = th[t].gen}
           last == CHOOSE i \in fit : \A j \in fit : j <= i
           P == [gen : Nat, home : Homes, keys : BOOLEAN]
           taken == [o EXCEPT !.conn = pool[last].home, !.pc = "commit"]
           none == [o EXCEPT !.pc = "resolve", !.then = "connect"]
<1>1. /\ o \in ThreadStates /\ Shape(o) /\ ThreadsOK /\ gen \in Nat /\ o.pc = "pop"
  BY ThreadTypes DEF Pop, At
<1>2. o.task \in {"write", "reset"} /\ (o.task = "reset" /\ o.then = "journal" => o.conn \in Homes)
  BY <1>1, Tasks DEF Shape, LookupPCs, MovePCs, RecordPCs
<1>5. pool \in Seq(P) /\ Len(pool) \in Nat /\ Len(pool) <= PoolSize /\ DOMAIN pool = 1..Len(pool)
  BY DEF TypeInv
<1>6. fit # {} => last \in DOMAIN pool /\ pool[last].gen = th[t].gen /\ pool[last].home \in Homes
  <2>1. fit \in SUBSET (DOMAIN pool)
    OBVIOUS
  <2>2. fit # {} => last \in fit
    BY <2>1, NewestFits
  <2>3. last \in fit => last \in DOMAIN pool /\ pool[last].gen = th[t].gen
    OBVIOUS
  <2> HIDE DEF fit, last, P
  <2>4. \A i \in DOMAIN pool : pool[i] \in P
    BY <1>5
  <2>5. \A x \in P : x.home \in Homes
    BY DEF P
  <2> QED
    BY <2>2, <2>3, <2>4, <2>5
<1>7. /\ pool' \in Seq(P) /\ Len(pool') <= PoolSize
      /\ DOMAIN pool' \subseteq DOMAIN pool /\ \A i \in DOMAIN pool' : pool'[i] = pool[i]
  <2>1. CASE fit # {}
    <3>1. pool' = SubSeq(pool, 1, last - 1) /\ last \in 1..Len(pool)
      BY <1>5, <1>6, <2>1 DEF Pop
    <3> HIDE DEF fit, last, P
    <3> DEFINE n == last - 1
    <3>2. 1 \in 1..(Len(pool) + 1) /\ n \in (1 - 1)..Len(pool) /\ n <= Len(pool) /\ n \in Nat
      BY <1>5, <3>1
    <3> HIDE DEF n
    <3>3. /\ SubSeq(pool, 1, n) \in Seq(P) /\ Len(SubSeq(pool, 1, n)) = (n - 1) + 1
          /\ \A i \in 1..((n - 1) + 1) : SubSeq(pool, 1, n)[i] = pool[(1 + i) - 1]
      BY <1>5, <3>2, SubSeqProperties
    <3>4. DOMAIN SubSeq(pool, 1, n) = 1..n /\ \A i \in 1..n : SubSeq(pool, 1, n)[i] = pool[i]
      BY <3>2, <3>3
    <3>5. pool' = SubSeq(pool, 1, n)
      BY <3>1 DEF n
    <3> QED
      BY <1>5, <3>2, <3>3, <3>4, <3>5 DEF PoolSize
  <2>2. CASE fit = {}
    <3>1. pool' = <<>>
      BY <2>2 DEF Pop
    <3>2. <<>> \in Seq(P) /\ Len(<<>>) = 0 /\ DOMAIN <<>> = {}
      OBVIOUS
    <3> QED
      BY <3>1, <3>2 DEF PoolSize
  <2> QED
    BY <2>1, <2>2
<1>8. fit # {} => th' = [th EXCEPT ![t] = taken]
  BY DEF Pop
<1>9. fit = {} => th' = [th EXCEPT ![t] = none]
  BY DEF Pop
<1> HIDE DEF fit, last, P
<1>3. CASE fit # {}
  <2>1. taken \in ThreadStates
    BY <1>1, <1>2, <1>3, <1>6 DEF ThreadStates, Place, UsePCs, LookupPCs, MovePCs, RecordPCs
  <2>2. /\ taken.pc = "commit" /\ taken.task = o.task /\ taken.id = o.id
        /\ taken.then = o.then /\ taken.gen = o.gen /\ taken.seen = o.seen
        /\ taken.home = o.home /\ taken.conn = pool[last].home /\ taken.fresh = o.fresh
        /\ taken.to = o.to /\ taken.mode = o.mode /\ taken.left = o.left
        /\ taken.entries = o.entries
    BY <1>1 DEF ThreadStates
  <2> HIDE DEF taken
  <2>3. Shape(taken)
    BY <1>1, <1>2, <1>3, <1>6, <2>2, Places DEF Shape, UsePCs, LookupPCs, RecordPCs, MovePCs
  <2>4. th' = [th EXCEPT ![t] = taken]
    BY <1>3, <1>8 DEF taken
  <2> QED
    BY <1>1, <1>3, <2>1, <2>2, <2>3, <2>4, <1>6, <1>7, Becomes
    DEF SameRun, SameConn, SameHome, P
<1>4. CASE fit = {}
  <2>1. none \in ThreadStates
    BY <1>1, <1>2, <1>4 DEF ThreadStates, Place, UsePCs, LookupPCs, MovePCs, RecordPCs
  <2>2. /\ none.pc = "resolve" /\ none.task = o.task /\ none.id = o.id
        /\ none.then = "connect" /\ none.gen = o.gen /\ none.seen = o.seen
        /\ none.home = o.home /\ none.conn = o.conn /\ none.fresh = o.fresh
        /\ none.to = o.to /\ none.mode = o.mode /\ none.left = o.left
        /\ none.entries = o.entries
    BY <1>1 DEF ThreadStates
  <2> HIDE DEF none
  <2>3. Shape(none)
    BY <1>1, <1>2, <1>4, <2>2, Places DEF Shape, UsePCs, LookupPCs, RecordPCs, MovePCs
  <2>4. th' = [th EXCEPT ![t] = none]
    BY <1>4, <1>9 DEF none
  <2> QED
    BY <1>1, <1>4, <2>1, <2>2, <2>3, <2>4, <1>6, <1>7, Becomes
    DEF SameRun, SameConn, SameHome, P
<1> QED
  BY <1>3, <1>4 DEF Pop, At

\* A connection is to the database that the thread has resolved, which has a file then.
LEMMA ConnectEffect ==
  ASSUME TypeInv, NEW t \in Threads, Connect(t)
  PROVE  /\ Typed(t) /\ th[t].pc = "connect" /\ th[t].home \in Homes
         /\ \/ /\ Openable(th[t].home) /\ db' = Opened(th[t].home) /\ SameRun(t)
               /\ th'[t].pc = "commit" /\ th'[t].conn = th[t].home /\ th'[t].gen = th[t].gen
            \/ db' = db /\ th'[t] = Idle
<1> DEFINE o == th[t]
           new == [o EXCEPT !.conn = o.home, !.home = "none", !.pc = "commit"]
<1>1. /\ o \in ThreadStates /\ Shape(o) /\ ThreadsOK /\ gen \in Nat /\ o.pc = "connect"
  BY ThreadTypes DEF Connect, At
<1>2. /\ o.task \in {"write", "reset"} /\ o.home \in Homes
      /\ o.task = "reset" /\ o.then = "journal" => o.conn \in Homes
  BY <1>1, Tasks DEF Shape, LookupPCs, MovePCs, RecordPCs
<1>3. CASE Openable(o.home)
  <2>1. new \in ThreadStates
    BY <1>1, <1>2, <1>3 DEF ThreadStates, Place, UsePCs, LookupPCs, MovePCs, RecordPCs
  <2>2. /\ new.pc = "commit" /\ new.task = o.task /\ new.id = o.id /\ new.then = o.then
        /\ new.gen = o.gen /\ new.seen = o.seen /\ new.home = "none" /\ new.conn = o.home
        /\ new.fresh = o.fresh /\ new.to = o.to /\ new.mode = o.mode /\ new.left = o.left
        /\ new.entries = o.entries
    BY <1>1 DEF ThreadStates
  <2> HIDE DEF new
  <2>3. Shape(new)
    BY <1>1, <1>2, <1>3, <2>2, Places DEF Shape, UsePCs, LookupPCs, RecordPCs, MovePCs
  <2>4. th' = [th EXCEPT ![t] = new]
    BY <1>3 DEF Connect, new
  <2> QED
    BY <1>1, <1>2, <1>3, <2>1, <2>2, <2>3, <2>4, Becomes DEF SameRun, Connect
<1>4. CASE ~Openable(o.home)
  BY <1>1, <1>2, <1>4, DoneEffect DEF Connect
<1> QED
  BY <1>3, <1>4 DEF Connect, At

\* A change of the place alone.
LEMMA GotoEffect ==
  ASSUME TypeInv, NEW t \in Threads, NEW p, Goto(t, p), p \in TaskPCs[th[t].task],
         p \notin LookupPCs \cup {"idle", "append"},
         p \in {"connect", "snapshot", "journal", "lock"} \cup MovePCs \cup RecordPCs =>
           th[t].home \in Homes,
         p \in {"commit", "compare", "push"} => th[t].conn \in Homes,
         th[t].task = "reset" /\ p \in {"journal"} \cup RecordPCs => th[t].conn \in Homes
  PROVE  /\ Typed(t) /\ SameRun(t) /\ SameConn(t) /\ SameHome(t) /\ th'[t].pc = p
         /\ th'[t].left = th[t].left
<1> DEFINE o == th[t]
           new == [o EXCEPT !.pc = p]
<1>1. o \in ThreadStates /\ Shape(o) /\ ThreadsOK
  BY ThreadTypes
<1>2. p \in UsePCs \cup LookupPCs \cup MovePCs \cup RecordPCs
           \cup {"idle", "snapshot", "journal", "lock"}
  BY <1>1 DEF TaskPCs, ThreadStates
<1>3. new \in ThreadStates
  BY <1>1, <1>2 DEF ThreadStates
<1>4. /\ new.pc = p /\ new.task = o.task /\ new.id = o.id /\ new.then = o.then
      /\ new.gen = o.gen /\ new.seen = o.seen /\ new.home = o.home /\ new.conn = o.conn
      /\ new.fresh = o.fresh /\ new.to = o.to /\ new.mode = o.mode /\ new.left = o.left
      /\ new.entries = o.entries
  BY <1>1 DEF ThreadStates
<1> HIDE DEF new
<1>5. Shape(new)
  <2>1. p \notin LookupPCs /\ p # "idle" /\ p # "append"
    OBVIOUS
  <2>2. /\ o.task = "move" => o.to \in Homes /\ o.conn = "none" /\ o.gen = 0
        /\ o.task = "reset" /\ o.then = "journal" => o.conn \in Homes
    BY <1>1 DEF Shape
  <2>3. new.pc \in TaskPCs[new.task] /\ (new.pc = "idle" => new = Idle)
    BY <1>4, <2>1
  <2>4. /\ new.pc \in LookupPCs => new.then \in Nexts[new.task]
        /\ new.task = "move" => new.to \in Homes /\ new.conn = "none" /\ new.gen = 0
        /\ new.pc = "append" => new.left # <<>>
    BY <1>4, <2>1, <2>2
  <2>5. /\ new.pc \in {"store", "connect", "snapshot", "journal", "lock"} \cup MovePCs
                      \cup RecordPCs => new.home \in Homes
        /\ new.pc \in {"commit", "compare", "push"} => new.conn \in Homes
        /\ new.task = "reset" /\ (new.pc \in {"journal"} \cup RecordPCs \/ new.then = "journal") =>
             new.conn \in Homes
    BY <1>4, <2>1, <2>2 DEF LookupPCs
  <2> QED
    BY <2>3, <2>4, <2>5 DEF Shape
<1>6. th' = [th EXCEPT ![t] = new]
  BY DEF Goto, new
<1> QED
  BY <1>1, <1>3, <1>4, <1>5, <1>6, Becomes DEF SameRun, SameConn, SameHome

\* A commit leaves the command to compare generations, but a reset to find its journal.
LEMMA CommitEffect ==
  ASSUME TypeInv, NEW t \in Threads, Commit(t)
  PROVE  /\ Typed(t) /\ SameRun(t) /\ SameConn(t) /\ th[t].pc = "commit" /\ th[t].conn \in Homes
         /\ th'[t].pc = "compare" \/ (th'[t].pc = "resolve" /\ th'[t].then = "journal"
                                      /\ th[t].task = "reset")
<1> DEFINE o == th[t]
           back == [o EXCEPT !.pc = "resolve", !.then = "journal"]
<1>1. /\ o \in ThreadStates /\ Shape(o) /\ ThreadsOK /\ gen \in Nat /\ o.pc = "commit"
  BY ThreadTypes DEF Commit, At
<1>2. /\ o.task \in {"write", "reset"} /\ o.conn \in Homes
      /\ o.task = "reset" /\ o.then = "journal" => o.conn \in Homes
  BY <1>1, Tasks DEF Shape, LookupPCs, MovePCs, RecordPCs
<1>3. CASE Goto(t, "compare")
  BY <1>1, <1>2, <1>3, GotoEffect, Places DEF UsePCs, LookupPCs, MovePCs, RecordPCs
<1>4. CASE o.task = "reset" /\ ~Goto(t, "compare")
  <2>1. back \in ThreadStates
    BY <1>1, <1>2, <1>4 DEF ThreadStates, Place, UsePCs, LookupPCs, MovePCs, RecordPCs
  <2>2. /\ back.pc = "resolve" /\ back.task = o.task /\ back.id = o.id
        /\ back.then = "journal" /\ back.gen = o.gen /\ back.seen = o.seen
        /\ back.home = o.home /\ back.conn = o.conn /\ back.fresh = o.fresh
        /\ back.to = o.to /\ back.mode = o.mode /\ back.left = o.left
        /\ back.entries = o.entries
    BY <1>1 DEF ThreadStates
  <2> HIDE DEF back
  <2>3. Shape(back)
    BY <1>1, <1>2, <1>4, <2>2, Places DEF Shape, UsePCs, LookupPCs, RecordPCs, MovePCs
  <2>4. th' = [th EXCEPT ![t] = back]
    BY <1>4 DEF Commit, back
  <2> QED
    BY <1>1, <1>2, <1>4, <2>1, <2>2, <2>3, <2>4, Becomes DEF SameRun, SameConn
<1> QED
  BY <1>3, <1>4 DEF Commit, At

\* A connection of an older generation is closed, and one of this goes to the pool.
LEMMA CompareEffect ==
  ASSUME TypeInv, NEW t \in Threads, Compare(t)
  PROVE  /\ Typed(t) /\ th[t].pc = "compare"
         /\ \/ th'[t] = Idle
            \/ /\ th'[t].pc = "push" /\ th[t].gen = gen /\ th[t].conn \in Homes
               /\ SameRun(t) /\ SameConn(t) /\ SameHome(t)
<1>1. /\ th[t] \in ThreadStates /\ Shape(th[t]) /\ ThreadsOK /\ th[t].pc = "compare"
      /\ th[t].conn \in Homes
  BY ThreadTypes DEF Compare, At, Shape
<1>2. th[t].task \in {"write", "reset"}
  BY <1>1, Tasks
<1>3. CASE Goto(t, "push") /\ th[t].gen = gen
  BY <1>1, <1>2, <1>3, GotoEffect, Places DEF UsePCs, LookupPCs, MovePCs, RecordPCs
<1>4. CASE Done(t)
  BY <1>1, <1>4, DoneEffect
<1> QED
  BY <1>3, <1>4 DEF Compare

\* What is put into the pool is what the thread had, under the generation it knew.
LEMMA PushEffect ==
  ASSUME TypeInv, NEW t \in Threads, Push(t)
  PROVE  /\ Typed(t) /\ th[t].pc = "push" /\ th'[t] = Idle
         /\ th[t].conn \in Homes /\ th[t].gen \in Nat
         /\ pool' \in Seq([gen : Nat, home : Homes, keys : BOOLEAN]) /\ Len(pool') <= PoolSize
         /\ \A i \in DOMAIN pool' :
              \/ i \in DOMAIN pool /\ pool'[i] = pool[i]
              \/ pool'[i] = [gen |-> th[t].gen, home |-> th[t].conn, keys |-> TRUE]
<1> DEFINE P == [gen : Nat, home : Homes, keys : BOOLEAN]
           new == [gen |-> th[t].gen, home |-> th[t].conn, keys |-> TRUE]
<1>1. /\ th[t] \in ThreadStates /\ Shape(th[t]) /\ ThreadsOK /\ th[t].pc = "push"
      /\ th[t].conn \in Homes
  BY ThreadTypes DEF Push, At, Shape
<1>2. th[t].gen \in Nat /\ new \in P
  BY <1>1 DEF ThreadStates
<1>3. pool \in Seq(P) /\ Len(pool) \in Nat /\ Len(pool) <= PoolSize /\ DOMAIN pool = 1..Len(pool)
  BY DEF TypeInv
<1>4. pool' = IF Len(pool) < PoolSize THEN Append(pool, new) ELSE pool
  BY DEF Push
<1> HIDE DEF P, new
<1>5. /\ pool' \in Seq(P) /\ Len(pool') <= PoolSize
      /\ \A i \in DOMAIN pool' : (i \in DOMAIN pool /\ pool'[i] = pool[i]) \/ pool'[i] = new
  <2>1. CASE Len(pool) < PoolSize
    <3>1. /\ Append(pool, new) \in Seq(P) /\ Len(Append(pool, new)) = Len(pool) + 1
          /\ \A i \in 1..Len(pool) : Append(pool, new)[i] = pool[i]
          /\ Append(pool, new)[Len(pool) + 1] = new
      BY <1>2, <1>3
    <3>2. \A i \in 1..(Len(pool) + 1) : i \in 1..Len(pool) \/ i = Len(pool) + 1
      BY <1>3
    <3>3. DOMAIN Append(pool, new) = 1..(Len(pool) + 1)
      BY <3>1, <1>3
    <3> QED
      BY <1>3, <1>4, <2>1, <3>1, <3>2, <3>3 DEF PoolSize
  <2>2. CASE ~(Len(pool) < PoolSize)
    BY <1>3, <1>4, <2>2
  <2> QED
    BY <2>1, <2>2
<1> QED
  BY <1>1, <1>2, <1>5, DoneEffect DEF Push, P, new

\* A reset goes on with a safety snapshot of what its database holds, or gives up.
LEMMA ResetSnapshotEffect ==
  ASSUME TypeInv, NEW t \in Threads, ResetSnapshot(t)
  PROVE  /\ Typed(t) /\ th[t].pc = "snapshot" /\ th[t].task = "reset" /\ th[t].home \in Homes
         /\ \/ /\ th'[t].pc = "check" /\ SameRun(t) /\ SameConn(t) /\ SameHome(t)
               /\ db' = Opened(th[t].home) /\ snaps' = snaps \cup {db'[th[t].home]}
            \/ th'[t] = Idle /\ db' = db /\ snaps' = snaps
<1>1. /\ th[t] \in ThreadStates /\ Shape(th[t]) /\ ThreadsOK /\ th[t].pc = "snapshot"
      /\ th[t].home \in Homes
  BY ThreadTypes DEF ResetSnapshot, At, Shape
<1>2. th[t].task = "reset"
  BY <1>1, Tasks
<1>3. CASE Goto(t, "check")
  <2>1. /\ Typed(t) /\ SameRun(t) /\ SameConn(t) /\ SameHome(t) /\ th'[t].pc = "check"
    BY <1>1, <1>2, <1>3, GotoEffect, Places DEF UsePCs, LookupPCs, MovePCs, RecordPCs
  <2>2. th'[t] # Idle
    BY <2>1 DEF Idle
  <2> QED
    BY <1>1, <1>2, <2>1, <2>2, DoneEffect DEF ResetSnapshot
<1>4. CASE Done(t) /\ db' = db /\ snaps' = snaps
  BY <1>1, <1>2, <1>4, DoneEffect
<1> QED
  BY <1>3, <1>4 DEF ResetSnapshot

\* The reset concerns the journal beside the path as it is by now.
LEMMA ResetJournalEffect ==
  ASSUME TypeInv, NEW t \in Threads, ResetJournal(t)
  PROVE  /\ Typed(t) /\ SameRun(t) /\ SameConn(t) /\ SameHome(t) /\ th[t].pc = "journal"
         /\ th'[t].pc = "verify" /\ th'[t].left = <<th[t].home>> /\ th[t].task = "reset"
         /\ th[t].home \in Homes
<1> DEFINE o == th[t]
           new == [o EXCEPT !.left = <<o.home>>, !.pc = "verify"]
<1>1. /\ o \in ThreadStates /\ Shape(o) /\ ThreadsOK /\ gen \in Nat /\ o.pc = "journal"
  BY ThreadTypes DEF ResetJournal, At
<1>2. o.task = "reset" /\ o.home \in Homes /\ o.conn \in Homes
  BY <1>1, Tasks DEF Shape, LookupPCs, MovePCs, RecordPCs
<1>3. CASE TRUE
  <2>5. <<o.home>> \in Seq(Homes)
    BY <1>2
  <2>1. new \in ThreadStates
    BY <2>5, <1>1, <1>2, <1>3 DEF ThreadStates, Place, UsePCs, LookupPCs, MovePCs, RecordPCs
  <2>2. /\ new.pc = "verify" /\ new.task = o.task /\ new.id = o.id /\ new.then = o.then
        /\ new.gen = o.gen /\ new.seen = o.seen /\ new.home = o.home /\ new.conn = o.conn
        /\ new.fresh = o.fresh /\ new.to = o.to /\ new.mode = o.mode
        /\ new.left = <<o.home>> /\ new.entries = o.entries
    BY <1>1 DEF ThreadStates
  <2> HIDE DEF new
  <2>3. Shape(new)
    BY <1>1, <1>2, <1>3, <2>2, Places DEF Shape, UsePCs, LookupPCs, RecordPCs, MovePCs
  <2>4. th' = [th EXCEPT ![t] = new]
    BY <1>3 DEF ResetJournal, new
  <2> QED
    BY <1>1, <1>2, <1>3, <2>1, <2>2, <2>3, <2>4, Becomes DEF SameRun, SameConn, SameHome
<1> QED
  BY <1>3 DEF ResetJournal, At

\* A reset that is recorded compares generations next.
LEMMA ResetEndsEffect ==
  ASSUME TypeInv, NEW t \in Threads, ResetEnds(t)
  PROVE  /\ Typed(t) /\ SameRun(t) /\ SameConn(t) /\ SameHome(t) /\ th[t].pc = "recorded"
         /\ th'[t].pc = "compare" /\ th[t].task = "reset" /\ th[t].home \in Homes
<1>1. /\ th[t] \in ThreadStates /\ Shape(th[t]) /\ ThreadsOK /\ th[t].pc = "recorded"
      /\ th[t].task = "reset" /\ th[t].home \in Homes /\ th[t].conn \in Homes
  BY ThreadTypes DEF ResetEnds, At, Shape, RecordPCs
<1> QED
  BY <1>1, GotoEffect, Places DEF ResetEnds, UsePCs, LookupPCs, MovePCs, RecordPCs
\* Another thread is no longer free of moves, and all else of it stays.
Warned(u) ==
  /\ ~th'[u].fresh
  /\ th'[u].pc = th[u].pc /\ th'[u].task = th[u].task /\ th'[u].id = th[u].id
  /\ th'[u].then = th[u].then /\ th'[u].gen = th[u].gen /\ th'[u].seen = th[u].seen
  /\ th'[u].home = th[u].home /\ th'[u].conn = th[u].conn /\ th'[u].to = th[u].to
  /\ th'[u].mode = th[u].mode /\ th'[u].left = th[u].left /\ th'[u].entries = th[u].entries

\* Who takes the lock makes the others know that a move has begun.
LEMMA LockEffect ==
  ASSUME TypeInv, NEW t \in Threads, Lock(t)
  PROVE  /\ ThreadsOK' /\ th[t].pc = "lock" /\ th[t].task = "move" /\ th[t].home \in Homes
         /\ \/ OthersStay(t) /\ th'[t] = Idle /\ restoring' = restoring
            \/ /\ ~restoring /\ restoring' /\ th'[t].pc = "target"
               /\ SameRun(t) /\ SameConn(t) /\ SameHome(t)
               /\ \A u \in Threads \ {t} : Warned(u)
<1>1. /\ th[t] \in ThreadStates /\ Shape(th[t]) /\ ThreadsOK /\ th[t].pc = "lock"
      /\ th[t].home \in Homes
  BY ThreadTypes DEF Lock, At, Shape
<1>2. th[t].task = "move"
  BY <1>1, Tasks
<1>3. CASE restoring /\ Done(t) /\ restoring' = restoring
  BY <1>1, <1>2, <1>3, DoneEffect DEF Typed
<1>4. CASE ~restoring /\ restoring' = TRUE
  <2> DEFINE o == th[t]
             new == [o EXCEPT !.pc = "target"]
  <2>1. \A u \in Threads : th'[u] = IF u = t THEN new ELSE [th[u] EXCEPT !.fresh = FALSE]
    BY <1>4 DEF Lock
  <2>2. th' = [u \in Threads |-> th'[u]]
    BY <1>4 DEF Lock
  <2>3. new \in ThreadStates
    BY <1>1 DEF ThreadStates, MovePCs
  <2>4. /\ new.pc = "target" /\ new.task = o.task /\ new.id = o.id /\ new.then = o.then
        /\ new.gen = o.gen /\ new.seen = o.seen /\ new.home = o.home /\ new.conn = o.conn
        /\ new.fresh = o.fresh /\ new.to = o.to /\ new.mode = o.mode /\ new.left = o.left
        /\ new.entries = o.entries
    BY <1>1 DEF ThreadStates
  <2> HIDE DEF new
  <2>5. Shape(new)
    BY <1>1, <1>2, <2>4, Places DEF Shape, UsePCs, LookupPCs, RecordPCs, MovePCs
  <2>6. ASSUME NEW u \in Threads \ {t}
        PROVE  th'[u] \in ThreadStates /\ Shape(th'[u]) /\ Warned(u)
    <3> DEFINE v == [th[u] EXCEPT !.fresh = FALSE]
    <3>1. th[u] \in ThreadStates /\ Shape(th[u]) /\ th'[u] = v
      BY <2>1, ThreadTypes
    <3>2. v \in ThreadStates
      BY <3>1 DEF ThreadStates
    <3>3. /\ v.fresh = FALSE /\ v.pc = th[u].pc /\ v.task = th[u].task /\ v.id = th[u].id
          /\ v.then = th[u].then /\ v.gen = th[u].gen /\ v.seen = th[u].seen
          /\ v.home = th[u].home /\ v.conn = th[u].conn /\ v.to = th[u].to
          /\ v.mode = th[u].mode /\ v.left = th[u].left /\ v.entries = th[u].entries
      BY <3>1 DEF ThreadStates
    <3>4. th[u] = Idle => v = Idle
      <4>1. ASSUME NEW r \in ThreadStates, r.fresh = FALSE PROVE [r EXCEPT !.fresh = FALSE] = r
        BY <4>1 DEF ThreadStates
      <4>2. Idle.fresh = FALSE
        BY DEF Idle
      <4> QED
        BY <3>1, <4>1, <4>2
    <3> HIDE DEF v
    <3>5. v.pc = "idle" => v = Idle
      BY <3>1, <3>3, <3>4 DEF Shape
    <3>6. Shape(v)
      BY <3>1, <3>3, <3>5 DEF Shape
    <3> QED
      BY <3>1, <3>2, <3>3, <3>6 DEF Warned
  <2>7. th'[t] = new
    BY <2>1
  <2>8. ThreadsOK'
    BY <2>2, <2>3, <2>5, <2>6, <2>7 DEF ThreadsOK
  <2> QED
    BY <1>1, <1>2, <1>4, <2>4, <2>6, <2>7, <2>8 DEF SameRun, SameConn, SameHome
<1> QED
  BY <1>3, <1>4 DEF Lock

\* Where a move is, it knows its source and its target and has no connection.
LEMMA MoveTypes ==
  ASSUME TypeInv, NEW t \in Threads, th[t].pc \in MovePCs \cup {"lock"}
  PROVE  /\ th[t].task = "move" /\ th[t].home \in Homes /\ th[t].to \in Homes
         /\ th[t].conn = "none" /\ th[t].gen = 0
BY ThreadTypes, Tasks DEF Shape

\* The journals that a move writes to are those of its source and of its target.
LEMMA JournalsOf ==
  ASSUME TypeInv, NEW t \in Threads, th[t].home \in Homes, th[t].to \in Homes
  PROVE  /\ Journals(t) \in Seq(Homes)
         /\ reach = Homes => \A h \in {th[t].home, th[t].to} :
                               \E i \in DOMAIN Journals(t) : Journals(t)[i] = h
<1> DEFINE a == th[t].home
           b == th[t].to
<1>1. /\ <<a>> \in Seq(Homes) /\ <<b>> \in Seq(Homes) /\ <<>> \in Seq(Homes)
      /\ Len(<<a>>) = 1 /\ Len(<<b>>) = 1 /\ <<a>>[1] = a /\ <<b>>[1] = b
  OBVIOUS
<1>2. Journals(t) = <<a>> \o (IF b \in reach THEN <<b>> ELSE <<>>)
  BY DEF Journals, From
<1>3. Journals(t) \in Seq(Homes)
  BY <1>1, <1>2
<1>4. ASSUME reach = Homes
      PROVE  1 \in DOMAIN Journals(t) /\ 2 \in DOMAIN Journals(t)
             /\ Journals(t)[1] = a /\ Journals(t)[2] = b
  <2>1. Journals(t) = <<a>> \o <<b>>
    BY <1>2, <1>4
  <2> HIDE DEF a, b
  <2>2. /\ Len(<<a>> \o <<b>>) = 2 /\ (<<a>> \o <<b>>)[1] = <<a>>[1]
        /\ (<<a>> \o <<b>>)[2] = <<b>>[1] /\ DOMAIN (<<a>> \o <<b>>) = 1..2
    OBVIOUS
  <2> QED
    BY <1>1, <2>1, <2>2
<1> QED
  BY <1>3, <1>4

\* A move that fails records that in its journals.
LEMMA FailedEffect ==
  ASSUME TypeInv, NEW t \in Threads, th[t].pc \in MovePCs, Failed(t)
  PROVE  /\ Typed(t) /\ SameRun(t) /\ SameConn(t) /\ th'[t].home = th[t].home
         /\ th'[t].mode = "failed" /\ th'[t].pc = "verify" /\ th'[t].left = Journals(t)
<1> DEFINE o == th[t]
           new == [o EXCEPT !.mode = "failed", !.left = Journals(t), !.pc = "verify"]
<1>1. /\ o \in ThreadStates /\ Shape(o) /\ ThreadsOK
  BY ThreadTypes
<1>2. /\ o.task = "move" /\ o.home \in Homes /\ o.to \in Homes /\ o.conn = "none" /\ o.gen = 0
      /\ Journals(t) \in Seq(Homes)
  BY <1>1, MoveTypes, JournalsOf
<1>3. CASE TRUE
  <2>1. new \in ThreadStates
    BY <1>1, <1>2, <1>3 DEF ThreadStates, Place, UsePCs, LookupPCs, MovePCs, RecordPCs
  <2>2. /\ new.pc = "verify" /\ new.task = o.task /\ new.id = o.id /\ new.then = o.then
        /\ new.gen = o.gen /\ new.seen = o.seen /\ new.home = o.home /\ new.conn = o.conn
        /\ new.fresh = o.fresh /\ new.to = o.to /\ new.mode = "failed"
        /\ new.left = Journals(t) /\ new.entries = o.entries
    BY <1>1 DEF ThreadStates
  <2> HIDE DEF new
  <2>3. Shape(new)
    BY <1>1, <1>2, <1>3, <2>2, Places DEF Shape, UsePCs, LookupPCs, RecordPCs, MovePCs
  <2>4. th' = [th EXCEPT ![t] = new]
    BY <1>3 DEF Failed, new
  <2> QED
    BY <1>1, <1>3, <2>1, <2>2, <2>3, <2>4, Becomes DEF SameRun, SameConn, SameHome
<1> QED
  BY <1>3

\* A move from one of its places to another.
LEMMA MoveGoto ==
  ASSUME TypeInv, NEW t \in Threads, th[t].pc \in MovePCs, NEW p \in MovePCs, Goto(t, p)
  PROVE  Typed(t) /\ SameRun(t) /\ SameConn(t) /\ SameHome(t) /\ th'[t].pc = p
<1>1. p \in TaskPCs[th[t].task] /\ th[t].home \in Homes /\ th[t].task = "move"
  BY MoveTypes, Places
<1>2. /\ p \notin LookupPCs \cup {"idle", "append"} /\ p \notin {"commit", "compare", "push"}
      /\ th[t].task # "reset"
  BY <1>1 DEF MovePCs, LookupPCs
<1> QED
  BY <1>1, <1>2, GotoEffect

\* A move that has its database at the target, copied or found there, sets the setting.
LEMMA ChosenEffect ==
  ASSUME TypeInv, NEW t \in Threads, th[t].pc \in MovePCs, NEW m \in {"link", "copy"},
         th' = [th EXCEPT ![t].mode = m, ![t].pc = "setting"]
  PROVE  /\ Typed(t) /\ SameRun(t) /\ SameConn(t) /\ th'[t].home = th[t].home
         /\ th'[t].mode = m /\ th'[t].pc = "setting"
<1> DEFINE o == th[t]
           new == [o EXCEPT !.mode = m, !.pc = "setting"]
<1>1. /\ o \in ThreadStates /\ Shape(o) /\ ThreadsOK
  BY ThreadTypes
<1>2. o.task = "move" /\ o.home \in Homes /\ o.to \in Homes /\ o.conn = "none" /\ o.gen = 0
  BY <1>1, MoveTypes
<1>3. CASE TRUE
  <2>1. new \in ThreadStates
    BY <1>1, <1>2, <1>3 DEF ThreadStates, Place, UsePCs, LookupPCs, MovePCs, RecordPCs
  <2>2. /\ new.pc = "setting" /\ new.task = o.task /\ new.id = o.id /\ new.then = o.then
        /\ new.gen = o.gen /\ new.seen = o.seen /\ new.home = o.home /\ new.conn = o.conn
        /\ new.fresh = o.fresh /\ new.to = o.to /\ new.mode = m /\ new.left = o.left
        /\ new.entries = o.entries
    BY <1>1 DEF ThreadStates
  <2> HIDE DEF new
  <2>3. Shape(new)
    BY <1>1, <1>2, <1>3, <2>2, Places DEF Shape, UsePCs, LookupPCs, RecordPCs, MovePCs
  <2>4. th' = [th EXCEPT ![t] = new]
    BY <1>3 DEF new
  <2> QED
    BY <1>1, <1>3, <2>1, <2>2, <2>3, <2>4, Becomes DEF SameRun, SameConn, SameHome
<1> QED
  BY <1>3
\* A step of a move that does not end it.
MovesOn(t) == Typed(t) /\ SameRun(t) /\ SameConn(t) /\ th'[t].home = th[t].home
\* What has gone wrong is recorded.
Gives(t) == th'[t].pc = "verify" /\ th'[t].mode = "failed" /\ th'[t].left = Journals(t)

\* The choice between linking and copying.
LEMMA TargetEffect ==
  ASSUME TypeInv, NEW t \in Threads, Target(t)
  PROVE  /\ MovesOn(t) /\ th[t].pc = "target"
         /\ \/ th'[t].pc = "unlock"
            \/ th'[t].pc = "checkpoint" /\ From(t) # th[t].to /\ ~db[th[t].to].file
            \/ Gives(t)
            \/ th'[t].pc = "setting" /\ th'[t].mode = "link"
<1>1. th[t].pc = "target" /\ th[t].pc \in MovePCs
  BY DEF Target, At, MovePCs
<1>2. "unlock" \in MovePCs /\ "checkpoint" \in MovePCs
  BY DEF MovePCs
<1>3. CASE Goto(t, "unlock")
  BY <1>1, <1>2, <1>3, MoveGoto DEF MovesOn, SameHome
<1>4. CASE Goto(t, "checkpoint") /\ th[t].to # From(t) /\ ~db[th[t].to].file
  BY <1>1, <1>2, <1>4, MoveGoto DEF MovesOn, SameHome
<1>5. CASE Failed(t)
  BY <1>1, <1>5, FailedEffect DEF MovesOn, Gives
<1>6. CASE th' = [th EXCEPT ![t].mode = "link", ![t].pc = "setting"]
  BY <1>1, <1>6, ChosenEffect DEF MovesOn
<1> QED
  BY <1>3, <1>4, <1>5, <1>6 DEF Target

\* The checkpoint, and the pool it drops.
LEMMA CheckpointEffect ==
  ASSUME TypeInv, NEW t \in Threads, Checkpoint(t)
  PROVE  /\ MovesOn(t) /\ SameHome(t) /\ th[t].pc = "checkpoint"
         /\ \/ /\ th'[t].pc = "copy" /\ Openable(From(t)) /\ Invalidate
               /\ \E kept \in SUBSET db[From(t)].wal :
                    /\ kept # {} => \E u \in Threads : th[u].conn = From(t)
                    /\ db' = [Opened(From(t)) EXCEPT
                                ![From(t)].main = @ \cup (db[From(t)].wal \ kept),
                                ![From(t)].wal = kept]
            \/ th'[t].pc = "unlock" /\ db' = db /\ UNCHANGED links
<1>1. th[t].pc = "checkpoint" /\ th[t].pc \in MovePCs
  BY DEF Checkpoint, At, MovePCs
<1>2. "copy" \in MovePCs /\ "unlock" \in MovePCs
  BY DEF MovePCs
<1>3. ASSUME NEW p \in {"copy", "unlock"}, Goto(t, p)
      PROVE  MovesOn(t) /\ SameHome(t) /\ th'[t].pc = p
  BY <1>1, <1>2, <1>3, MoveGoto DEF MovesOn, SameHome
<1>4. CASE Goto(t, "copy") /\ Openable(From(t)) /\ Invalidate
  <2>1. \E kept \in SUBSET db[From(t)].wal :
          /\ kept # {} => \E u \in Threads : th[u].conn = From(t)
          /\ db' = [Opened(From(t)) EXCEPT
                      ![From(t)].main = @ \cup (db[From(t)].wal \ kept),
                      ![From(t)].wal = kept]
    BY <1>4 DEF Checkpoint
  <2>2. MovesOn(t) /\ SameHome(t) /\ th'[t].pc = "copy"
    BY <1>3, <1>4
  <2> QED
    BY <1>1, <1>4, <2>1, <2>2
<1>5. CASE Goto(t, "unlock") /\ db' = db /\ UNCHANGED links
  BY <1>1, <1>3, <1>5
<1> QED
  BY <1>4, <1>5 DEF Checkpoint

\* The copy.
LEMMA CopyEffect ==
  ASSUME TypeInv, NEW t \in Threads, Copy(t)
  PROVE  /\ MovesOn(t) /\ th[t].pc = "copy"
         /\ \/ /\ th'[t].pc = "setting" /\ th'[t].mode = "copy"
               /\ db' = [db EXCEPT ![th[t].to] = [db[From(t)] EXCEPT !.wal = {}]]
            \/ Gives(t) /\ db' = db
<1>1. th[t].pc = "copy" /\ th[t].pc \in MovePCs
  BY DEF Copy, At, MovePCs
<1>2. CASE th' = [th EXCEPT ![t].mode = "copy", ![t].pc = "setting"]
           /\ db' = [db EXCEPT ![th[t].to] = [db[From(t)] EXCEPT !.wal = {}]]
  BY <1>1, <1>2, ChosenEffect DEF MovesOn
<1>3. CASE Failed(t) /\ db' = db
  BY <1>1, <1>3, FailedEffect DEF MovesOn, Gives
<1> QED
  BY <1>2, <1>3 DEF Copy

\* The setting is read, emptied and filled: it is unreadable in between.
LEMMA SettingEffect ==
  ASSUME TypeInv, NEW t \in Threads, ReadForSetting(t) \/ Truncate(t) \/ Fill(t)
  PROVE  /\ MovesOn(t) /\ SameHome(t) /\ th[t].pc \in {"setting", "truncate", "fill"}
         /\ \/ /\ th[t].pc = "setting" /\ setting' = setting
               /\ th'[t].pc \in {"abandon", "truncate"}
            \/ /\ th[t].pc = "truncate" /\ setting' \in {"torn", setting}
               /\ th'[t].pc \in {"fill", "switchBack"}
            \/ /\ th[t].pc = "fill" /\ setting' \in {th[t].to, setting}
               /\ th'[t].pc \in {"switch", "switchBack"}
<1>1. {"abandon", "truncate", "fill", "switch", "switchBack", "setting"} \subseteq MovePCs
  BY DEF MovePCs
<1>2. ASSUME NEW p \in MovePCs, th[t].pc \in MovePCs, Goto(t, p)
      PROVE  MovesOn(t) /\ SameHome(t) /\ th'[t].pc = p
  BY <1>2, MoveGoto DEF MovesOn, SameHome
<1>3. CASE ReadForSetting(t)
  <2>1. th[t].pc = "setting" /\ th[t].pc \in MovePCs /\ setting' = setting
    BY <1>3 DEF ReadForSetting, At, stores, MovePCs
  <2>2. Goto(t, "abandon") \/ Goto(t, "truncate")
    BY <1>3 DEF ReadForSetting
  <2>3. MovesOn(t) /\ SameHome(t) /\ th'[t].pc \in {"abandon", "truncate"}
    BY <1>1, <1>2, <2>1, <2>2
  <2> QED
    BY <2>1, <2>3
<1>4. CASE Truncate(t)
  <2>1. th[t].pc = "truncate" /\ th[t].pc \in MovePCs /\ setting' \in {"torn", setting}
    BY <1>4 DEF Truncate, At, MovePCs
  <2>2. Goto(t, "fill") \/ Goto(t, "switchBack")
    BY <1>4 DEF Truncate
  <2>3. MovesOn(t) /\ SameHome(t) /\ th'[t].pc \in {"fill", "switchBack"}
    BY <1>1, <1>2, <2>1, <2>2
  <2> QED
    BY <2>1, <2>3
<1>5. CASE Fill(t)
  <2>1. th[t].pc = "fill" /\ th[t].pc \in MovePCs /\ setting' \in {th[t].to, setting}
    BY <1>5 DEF Fill, At, MovePCs
  <2>2. Goto(t, "switch") \/ Goto(t, "switchBack")
    BY <1>5 DEF Fill
  <2>3. MovesOn(t) /\ SameHome(t) /\ th'[t].pc \in {"switch", "switchBack"}
    BY <1>1, <1>2, <2>1, <2>2
  <2> QED
    BY <2>1, <2>3
<1> QED
  BY <1>3, <1>4, <1>5

\* What was cached goes, and a move that succeeded is recorded.
LEMMA SwitchEffect ==
  ASSUME TypeInv, NEW t \in Threads, Switch(t)
  PROVE  /\ MovesOn(t) /\ SameHome(t) /\ Invalidate /\ th[t].pc \in {"switch", "switchBack"}
         /\ \/ th[t].pc = "switchBack" /\ th'[t].pc = "abandon"
            \/ th'[t].pc = "verify" /\ th'[t].left = Journals(t)
<1>1. th[t].pc \in {"switch", "switchBack"} /\ th[t].pc \in MovePCs
  BY DEF Switch, At, MovePCs
<1>2. CASE th[t].pc = "switchBack" /\ Goto(t, "abandon")
  <2>1. "abandon" \in MovePCs
    BY DEF MovePCs
  <2>2. MovesOn(t) /\ SameHome(t) /\ th'[t].pc = "abandon"
    BY <1>1, <1>2, <2>1, MoveGoto DEF MovesOn, SameHome
  <2> QED
    BY <1>1, <1>2, <2>2 DEF Switch
<1>3. CASE th' = [th EXCEPT ![t].left = Journals(t), ![t].pc = "verify"]
  <2> DEFINE o == th[t]
             new == [o EXCEPT !.left = Journals(t), !.pc = "verify"]
  <2>1. o \in ThreadStates /\ Shape(o) /\ ThreadsOK
    BY ThreadTypes
  <2>2. /\ o.task = "move" /\ o.home \in Homes /\ o.to \in Homes /\ o.conn = "none" /\ o.gen = 0
        /\ Journals(t) \in Seq(Homes)
    BY <1>1, MoveTypes, JournalsOf
  <2>3. new \in ThreadStates
    BY <2>1, <2>2 DEF ThreadStates, RecordPCs
  <2>4. /\ new.pc = "verify" /\ new.task = o.task /\ new.id = o.id /\ new.then = o.then
        /\ new.gen = o.gen /\ new.seen = o.seen /\ new.home = o.home /\ new.conn = o.conn
        /\ new.fresh = o.fresh /\ new.to = o.to /\ new.mode = o.mode
        /\ new.left = Journals(t) /\ new.entries = o.entries
    BY <2>1 DEF ThreadStates
  <2> HIDE DEF new
  <2>5. Shape(new)
    BY <2>1, <2>2, <2>4, Places DEF Shape, UsePCs, LookupPCs, RecordPCs, MovePCs
  <2>6. th' = [th EXCEPT ![t] = new]
    BY <1>3 DEF new
  <2> QED
    BY <1>1, <2>1, <2>3, <2>4, <2>5, <2>6, Becomes
    DEF MovesOn, SameRun, SameConn, SameHome, Switch
<1> QED
  BY <1>2, <1>3 DEF Switch, At

\* A move whose setting could not be changed takes its copy back.
LEMMA AbandonEffect ==
  ASSUME TypeInv, NEW t \in Threads, Abandon(t)
  PROVE  /\ MovesOn(t) /\ Gives(t) /\ th[t].pc = "abandon"
         /\ db' = IF th[t].mode = "copy" /\ th[t].to \in reach
                  THEN [db EXCEPT ![th[t].to] = Missing] ELSE db
<1>1. th[t].pc = "abandon" /\ th[t].pc \in MovePCs
  BY DEF Abandon, At, MovePCs
<1> QED
  BY <1>1, FailedEffect DEF Abandon, MovesOn, Gives

\* The end of a move unlocks.
LEMMA MoveEndsEffect ==
  ASSUME TypeInv, NEW t \in Threads, MoveEnds(t)
  PROVE  /\ Typed(t) /\ th'[t] = Idle /\ th[t].pc \in {"recorded", "unlock"}
         /\ th[t].task = "move" /\ th[t].home \in Homes /\ th[t].to \in Homes /\ ~restoring'
         /\ \/ done' = done
            \/ /\ th[t].pc = "recorded"
               /\ done' = done \cup {[id |-> th[t].id, homes |-> {From(t), th[t].to}]}
<1>1. /\ th[t] \in ThreadStates /\ Shape(th[t]) /\ ThreadsOK /\ th[t].pc \in {"recorded", "unlock"}
      /\ th[t].home \in Homes
  BY ThreadTypes DEF MoveEnds, At, Shape, RecordPCs, MovePCs
<1>2. th[t].task = "move"
  BY <1>1, Tasks DEF MoveEnds, At, MovePCs
<1>3. th[t].to \in Homes
  BY <1>1, <1>2 DEF Shape
<1> QED
  BY <1>1, <1>2, <1>3, DoneEffect DEF MoveEnds, At

\* Where a command records itself.
LEMMA RecordTypes ==
  ASSUME TypeInv, NEW t \in Threads, th[t].pc \in RecordPCs
  PROVE  /\ th[t].home \in Homes /\ th[t].left \in Seq(Homes)
         /\ th[t].task \in {"reset", "move"}
         /\ th[t].task = "reset" => th[t].conn \in Homes
         /\ th[t].task = "move" => th[t].to \in Homes /\ th[t].conn = "none" /\ th[t].gen = 0
         /\ th[t].pc = "append" => th[t].left # <<>>
BY ThreadTypes, Tasks DEF Shape, ThreadStates

\* The next journal is the first of those that are left.
LEMMA NextJournalOf ==
  ASSUME NEW s \in Seq(Homes), s # <<>>
  PROVE  /\ Head(s) \in Homes /\ Tail(s) \in Seq(Homes)
         /\ \A h : (\E i \in DOMAIN s : s[i] = h) =>
              h = Head(s) \/ \E i \in DOMAIN Tail(s) : Tail(s)[i] = h
<1>1. ASSUME NEW h, NEW i \in DOMAIN s, s[i] = h, h # Head(s)
      PROVE  \E j \in DOMAIN Tail(s) : Tail(s)[j] = h
  <2>1. i # 1 /\ i \in 1..Len(s)
    BY <1>1
  <2>2. i - 1 \in DOMAIN Tail(s) /\ Tail(s)[i - 1] = h
    BY <1>1, <2>1
  <2> QED
    BY <2>2
<1> QED
  BY <1>1

\* A journal that can be continued is, and the others are passed over.
LEMMA VerifyEffect ==
  ASSUME TypeInv, NEW t \in Threads, VerifyJournal(t)
  PROVE  /\ Typed(t) /\ SameRun(t) /\ SameConn(t) /\ SameHome(t) /\ th[t].pc = "verify"
         /\ \/ th[t].left = <<>> /\ th'[t].pc = "recorded"
            \/ /\ th[t].left # <<>> /\ th'[t].pc = "verify" /\ th'[t].left = Tail(th[t].left)
               /\ trail[Head(th[t].left)].broken \/ Head(th[t].left) \notin reach
            \/ th[t].left # <<>> /\ th'[t].pc = "append" /\ th'[t].left = th[t].left
<1> DEFINE o == th[t]
           past == [o EXCEPT !.left = Tail(o.left)]
           next == [o EXCEPT !.entries = Cardinality(trail[Head(o.left)].events), !.pc = "append"]
<1>1. /\ o \in ThreadStates /\ Shape(o) /\ ThreadsOK /\ gen \in Nat /\ o.pc = "verify"
  BY ThreadTypes DEF VerifyJournal, At
<1>2. o.task \in {"reset", "move"} /\ o.home \in Homes /\ o.left \in Seq(Homes)
      /\ (o.task = "reset" => o.conn \in Homes)
      /\ (o.task = "move" => o.to \in Homes /\ o.conn = "none" /\ o.gen = 0)
      /\ (o.left # <<>> => Head(o.left) \in Homes /\ Tail(o.left) \in Seq(Homes))
  BY <1>1, RecordTypes, NextJournalOf DEF RecordPCs
<1>3. CASE NextJournal(t) /\ o.left # <<>>
           /\ (trail[Head(o.left)].broken \/ Head(o.left) \notin reach)
  <2>1. past \in ThreadStates
    BY <1>1, <1>2, <1>3 DEF ThreadStates, Place, UsePCs, LookupPCs, MovePCs, RecordPCs
  <2>2. /\ past.pc = o.pc /\ past.task = o.task /\ past.id = o.id /\ past.then = o.then
        /\ past.gen = o.gen /\ past.seen = o.seen /\ past.home = o.home
        /\ past.conn = o.conn /\ past.fresh = o.fresh /\ past.to = o.to
        /\ past.mode = o.mode /\ past.left = Tail(o.left) /\ past.entries = o.entries
    BY <1>1 DEF ThreadStates
  <2> HIDE DEF past
  <2>3. Shape(past)
    BY <1>1, <1>2, <1>3, <2>2, Places DEF Shape, UsePCs, LookupPCs, RecordPCs, MovePCs
  <2>4. th' = [th EXCEPT ![t] = past]
    BY <1>3 DEF NextJournal, past
  <2> QED
    BY <1>1, <1>3, <2>1, <2>2, <2>3, <2>4, Becomes DEF SameRun, SameConn, SameHome
<1>5. o.left # <<>> => Cardinality(trail[Head(o.left)].events) \in Nat
  BY <1>2, FS_CardinalityType DEF TypeInv
<1>4. CASE /\ th' = [th EXCEPT ![t] = next]
           /\ o.left # <<>>
  <2>1. next \in ThreadStates
    BY <1>1, <1>2, <1>4, <1>5 DEF ThreadStates, Place, UsePCs, LookupPCs, MovePCs, RecordPCs
  <2>2. /\ next.pc = "append" /\ next.task = o.task /\ next.id = o.id /\ next.then = o.then
        /\ next.gen = o.gen /\ next.seen = o.seen /\ next.home = o.home
        /\ next.conn = o.conn /\ next.fresh = o.fresh /\ next.to = o.to
        /\ next.mode = o.mode /\ next.left = o.left
        /\ next.entries = Cardinality(trail[Head(o.left)].events)
    BY <1>1 DEF ThreadStates
  <2> HIDE DEF next
  <2>3. Shape(next)
    BY <1>1, <1>2, <1>4, <2>2, Places DEF Shape, UsePCs, LookupPCs, RecordPCs, MovePCs
  <2>4. th' = [th EXCEPT ![t] = next]
    BY <1>4
  <2> QED
    BY <1>1, <1>4, <2>1, <2>2, <2>3, <2>4, Becomes DEF SameRun, SameConn, SameHome
<1>6. CASE o.left = <<>> /\ Goto(t, "recorded")
  BY <1>1, <1>2, <1>6, GotoEffect, Places DEF UsePCs, LookupPCs, MovePCs, RecordPCs
<1> QED
  BY <1>3, <1>4, <1>6 DEF VerifyJournal, At, NextJournal

\* An event goes to the end of the journal it was meant for, or nowhere.
LEMMA AppendEffect ==
  ASSUME TypeInv, NEW t \in Threads, AppendJournal(t)
  PROVE  /\ Typed(t) /\ SameRun(t) /\ SameConn(t) /\ SameHome(t) /\ th[t].pc = "append"
         /\ th[t].left # <<>> /\ th'[t].pc = "verify" /\ th'[t].left = Tail(th[t].left)
<1> DEFINE o == th[t]
           new == [o EXCEPT !.left = Tail(o.left), !.entries = 0, !.pc = "verify"]
<1>1. /\ o \in ThreadStates /\ Shape(o) /\ ThreadsOK /\ gen \in Nat /\ o.pc = "append"
  BY ThreadTypes DEF AppendJournal, At
<1>2. o.task \in {"reset", "move"} /\ o.home \in Homes /\ o.left \in Seq(Homes)
      /\ (o.task = "reset" => o.conn \in Homes)
      /\ (o.task = "move" => o.to \in Homes /\ o.conn = "none" /\ o.gen = 0)
      /\ o.left # <<>> /\ Head(o.left) \in Homes /\ Tail(o.left) \in Seq(Homes)
  BY <1>1, RecordTypes, NextJournalOf DEF RecordPCs
<1>3. CASE TRUE
  <2>1. new \in ThreadStates
    BY <1>1, <1>2, <1>3 DEF ThreadStates, Place, UsePCs, LookupPCs, MovePCs, RecordPCs
  <2>2. /\ new.pc = "verify" /\ new.task = o.task /\ new.id = o.id /\ new.then = o.then
        /\ new.gen = o.gen /\ new.seen = o.seen /\ new.home = o.home /\ new.conn = o.conn
        /\ new.fresh = o.fresh /\ new.to = o.to /\ new.mode = o.mode
        /\ new.left = Tail(o.left) /\ new.entries = 0
    BY <1>1 DEF ThreadStates
  <2> HIDE DEF new
  <2>3. Shape(new)
    BY <1>1, <1>2, <1>3, <2>2, Places DEF Shape, UsePCs, LookupPCs, RecordPCs, MovePCs
  <2>4. th' = [th EXCEPT ![t] = new]
    BY <1>3 DEF AppendJournal, new
  <2> QED
    BY <1>1, <1>2, <1>3, <2>1, <2>2, <2>3, <2>4, Becomes DEF SameRun, SameConn, SameHome
<1> QED
  BY <1>3 DEF AppendJournal, At
-----------------------------------------------------------------------------
(* Databases: what each step does to them. *)

\* Two databases that differ at most in the writes they hold, and in that the search
\* index of the first has been made anew.
Like(d, e) == /\ d.origin = e.origin /\ d.version = e.version /\ d.has = e.has
              /\ d.azure = e.azure
              /\ \/ d.index = e.index /\ d.triggers = e.triggers
                 \/ d.index = "full" /\ d.triggers

\* A database with other writes is a database like it.
LEMMA Rewritten ==
  ASSUME NEW d \in Databases, NEW m \in SUBSET Nat, NEW w \in SUBSET Nat
  PROVE  LET e == [d EXCEPT !.main = m, !.wal = w]
         IN  /\ e \in Databases /\ Like(e, d) /\ e.file = d.file /\ e.sealed = d.sealed
             /\ e.main = m /\ e.wal = w
BY DEF Databases, Like

\* The databases that there may be at first, and what opening one creates.
LEMMA Originals ==
  /\ Missing \in Databases /\ Blank \in Databases /\ Old \in Databases /\ Recent \in Databases
  /\ [Old EXCEPT !.sealed = FALSE] \in Databases
  /\ Missing.has = {} /\ Missing.main = {} /\ Missing.wal = {} /\ Missing.version = 0
  /\ Missing.origin = "fresh" /\ Missing.index = "none" /\ ~Missing.file
  /\ Blank.has = {} /\ Blank.main = {} /\ Blank.wal = {} /\ Blank.version = 0
  /\ Blank.origin = "fresh" /\ Blank.index = "none" /\ Blank.file
  /\ Like(Blank, Missing)
<1>1. NoAccounts \in [Staff -> Account]
  BY DEF NoAccounts, Account, Value
<1>2. OldAccounts \in [Staff -> Account]
  <2>1. ASSUME NEW S, NEW x \in S, NEW y \in S, NEW z \in S PROVE <<x, y, z>> \in [1..3 -> S]
    OBVIOUS
  <2>2. /\ [old |-> "a", new |-> "b"] \in Account /\ [old |-> "a", new |-> "none"] \in Account
        /\ [old |-> "blank", new |-> "b"] \in Account
    BY DEF Account, Value
  <2> QED
    BY <2>1, <2>2 DEF OldAccounts, Staff
<1>3. /\ Missing \in Databases /\ Missing.has = {} /\ Missing.main = {} /\ Missing.wal = {}
      /\ Missing.version = 0 /\ Missing.origin = "fresh" /\ Missing.index = "none"
      /\ Missing.file = FALSE
  BY <1>1 DEF Missing, Databases
<1>4. /\ Blank \in Databases /\ Blank.has = {} /\ Blank.main = {} /\ Blank.wal = {}
      /\ Blank.version = 0 /\ Blank.origin = "fresh" /\ Blank.index = "none" /\ Blank.file
      /\ Blank.azure = Missing.azure /\ Blank.triggers = Missing.triggers
  BY <1>3 DEF Blank, Databases
<1>5. Old \in Databases
  <2>1. OldParts \subseteq Parts
    BY DEF Parts
  <2> QED
    BY <1>2, <1>4, <2>1 DEF Old, Databases
<1>6. Recent \in Databases
  <2>1. Required \subseteq Parts
    BY DEF Parts
  <2> QED
    BY <1>4, <2>1 DEF Recent, Databases
<1>7. [Old EXCEPT !.sealed = FALSE] \in Databases
  BY <1>5 DEF Databases
<1> QED
  BY <1>3, <1>4, <1>5, <1>6, <1>7 DEF Like

\* Opening a database creates a file where there is none, and that is all.
LEMMA OpenedFacts ==
  ASSUME db \in [Homes -> Databases], NEW h \in Homes
  PROVE  /\ Opened(h) \in [Homes -> Databases]
         /\ \A g \in Homes \ {h} : Opened(h)[g] = db[g]
         /\ Opened(h)[h] = IF db[h].file THEN db[h] ELSE Blank
BY Originals DEF Opened

\* What a command does to the databases: each stays like one that there was, or
\* like none, and safety snapshots are of databases and stay.
LikeBefore == \A h \in Homes : Like(db'[h], Missing) \/ \E g \in Homes : Like(db'[h], db[g])
Kept == /\ db' \in [Homes -> Databases] /\ snaps' \subseteq Databases /\ snaps \subseteq snaps'
        /\ LikeBefore

\* One database gets another content, like one that there was or like none.
LEMMA OneChanges ==
  ASSUME TypeInv, NEW h \in Homes, NEW d \in Databases, db' = [db EXCEPT ![h] = d],
         Like(d, Missing) \/ \E g \in Homes : Like(d, db[g]), snaps' = snaps
  PROVE  Kept
BY DEF Kept, LikeBefore, Like, TypeInv

\* Nothing changes.
LEMMA NoneChanges ==
  ASSUME TypeInv, db' = db, snaps' = snaps
  PROVE  Kept
BY DEF Kept, LikeBefore, Like, TypeInv

\* A database is opened.
LEMMA OpeningKeeps ==
  ASSUME TypeInv, NEW h \in Homes, db' = Opened(h), snaps \subseteq snaps',
         snaps' \subseteq snaps \cup {db'[h]}
  PROVE  Kept
<1>1. /\ db' \in [Homes -> Databases] /\ \A g \in Homes \ {h} : db'[g] = db[g]
      /\ db'[h] = IF db[h].file THEN db[h] ELSE Blank
  BY OpenedFacts DEF TypeInv
<1>2. LikeBefore
  BY <1>1, Originals DEF LikeBefore, Like
<1> QED
  BY <1>1, <1>2 DEF Kept, TypeInv

\* What a commit puts into its database.
LEMMA CommitKeeps ==
  ASSUME TypeInv, NEW t \in Threads, Commit(t)
  PROVE  Kept /\ acked' \subseteq Nat
<1> DEFINE h == th[t].conn
<1>1. h \in Homes /\ th[t].id \in Nat
  BY CommitEffect, ThreadTypes DEF ThreadStates
<1>2. db \in [Homes -> Databases] /\ db[h] \in Databases /\ acked \subseteq Nat /\ snaps' = snaps
  BY <1>1 DEF TypeInv, Commit
<1>3. db[h].main \in SUBSET Nat /\ db[h].wal \in SUBSET Nat
  BY <1>2 DEF Databases
<1> HIDE DEF h
<1>4. ASSUME NEW m \in SUBSET Nat, NEW w \in SUBSET Nat,
             db' = [db EXCEPT ![h] = [db[h] EXCEPT !.main = m, !.wal = w]]
      PROVE  Kept
  <2> DEFINE d == [db[h] EXCEPT !.main = m, !.wal = w]
  <2>1. d \in Databases /\ Like(d, db[h])
    BY <1>2, <1>3, Rewritten
  <2>2. db' = [db EXCEPT ![h] = d]
    BY <1>4
  <2> HIDE DEF d
  <2> QED
    BY <1>1, <1>2, <2>1, <2>2, OneChanges
<1>5. ASSUME db' = [db EXCEPT ![h].main = Holds(db[h]) \cup {th[t].id}, ![h].wal = {}]
      PROVE  Kept
  <2> DEFINE m == Holds(db[h]) \cup {th[t].id}
  <2>1. m \in SUBSET Nat
    BY <1>1, <1>3 DEF Holds
  <2>2. db' = [db EXCEPT ![h] = [db[h] EXCEPT !.main = m, !.wal = {}]]
    BY <1>2, <1>5
  <2> HIDE DEF m
  <2> QED
    BY <1>4, <2>1, <2>2
<1>6. ASSUME db' = [db EXCEPT ![h].wal = @ \cup {th[t].id}]
      PROVE  Kept
  <2> DEFINE w == db[h].wal \cup {th[t].id}
  <2>1. w \in SUBSET Nat
    BY <1>1, <1>3
  <2>2. [db[h] EXCEPT !.wal = w] = [db[h] EXCEPT !.main = db[h].main, !.wal = w]
    BY <1>2 DEF Databases
  <2>3. db' = [db EXCEPT ![h] = [db[h] EXCEPT !.wal = w]]
    BY <1>6
  <2> HIDE DEF w
  <2> QED
    BY <1>3, <1>4, <2>1, <2>2, <2>3
<1>7. ASSUME db' = [db EXCEPT ![h] = Emptied(db[h])]
      PROVE  Kept
  <2>1. Emptied(db[h]) \in Databases /\ Like(Emptied(db[h]), db[h])
    BY <1>2 DEF Emptied, Databases, Like
  <2> QED
    BY <1>1, <1>2, <1>7, <2>1, OneChanges
<1>8. ASSUME db' = db PROVE Kept
  BY <1>2, <1>8, NoneChanges
<1>9. /\ db' \in {[db EXCEPT ![h].main = Holds(db[h]) \cup {th[t].id}, ![h].wal = {}],
                  [db EXCEPT ![h].wal = @ \cup {th[t].id}]}
         \/ db' = [db EXCEPT ![h] = Emptied(db[h])] \/ db' = db
      /\ acked' = acked \/ acked' = acked \cup {th[t].id}
  BY DEF Commit, h
<1> QED
  BY <1>1, <1>2, <1>5, <1>6, <1>7, <1>8, <1>9

\* What a checkpoint, a copy and the removal of a copy do.
LEMMA CheckpointKeeps ==
  ASSUME TypeInv, NEW h \in Homes, NEW kept \in SUBSET db[h].wal, snaps' = snaps,
         db' = [Opened(h) EXCEPT ![h].main = @ \cup (db[h].wal \ kept), ![h].wal = kept]
  PROVE  /\ Kept
         /\ \A g \in Homes \ {h} : db'[g] = db[g]
         /\ db'[h].main = Opened(h)[h].main \cup (db[h].wal \ kept) /\ db'[h].wal = kept
         /\ db'[h].file = Opened(h)[h].file /\ db'[h].has = Opened(h)[h].has
<1>1. /\ db \in [Homes -> Databases] /\ Opened(h) \in [Homes -> Databases]
      /\ \A g \in Homes \ {h} : Opened(h)[g] = db[g]
      /\ Opened(h)[h] = IF db[h].file THEN db[h] ELSE Blank
  BY OpenedFacts DEF TypeInv
<1> DEFINE c == Opened(h)
           m == c[h].main \cup (db[h].wal \ kept)
           d == [c[h] EXCEPT !.main = m, !.wal = kept]
<1>2. c[h] \in Databases /\ db[h] \in Databases
  BY <1>1
<1>3. m \in SUBSET Nat /\ kept \in SUBSET Nat
  BY <1>2 DEF Databases
<1>4. d \in Databases /\ Like(d, c[h]) /\ d.main = m /\ d.wal = kept /\ d.file = c[h].file
  <2> HIDE DEF c, m
  <2> QED
    BY <1>2, <1>3 DEF Databases, Like
<1>5. db' = [c EXCEPT ![h] = d]
  BY <1>1
<1> HIDE DEF m, d, c
<1>6. db' = [db EXCEPT ![h] = d]
  BY <1>1, <1>5 DEF c
<1>7. Like(c[h], Missing) \/ Like(c[h], db[h])
  BY <1>1, Originals DEF c, Like
<1>8. Like(d, Missing) \/ Like(d, db[h])
  BY <1>4, <1>7 DEF Like
<1>9. Kept
  BY <1>4, <1>6, <1>8, OneChanges
<1>10. db'[h] = d /\ \A g \in Homes \ {h} : db'[g] = db[g]
  BY <1>1, <1>6
<1> QED
  BY <1>4, <1>9, <1>10 DEF c, m, Like

\* A copy of a database is like it, without its log.
LEMMA CopyKeeps ==
  ASSUME TypeInv, NEW g \in Homes, NEW h \in Homes, snaps' = snaps,
         db' = [db EXCEPT ![h] = [db[g] EXCEPT !.wal = {}]]
  PROVE  /\ Kept /\ \A k \in Homes \ {h} : db'[k] = db[k]
         /\ db'[h].main = db[g].main /\ db'[h].wal = {} /\ db'[h].file = db[g].file
         /\ db'[h].has = db[g].has
<1> DEFINE d == [db[g] EXCEPT !.wal = {}]
<1>1. db \in [Homes -> Databases] /\ db[g] \in Databases
  BY DEF TypeInv
<1>2. /\ d \in Databases /\ Like(d, db[g]) /\ d.main = db[g].main /\ d.wal = {}
      /\ d.file = db[g].file /\ d.has = db[g].has
  BY <1>1 DEF Databases, Like
<1> HIDE DEF d
<1> QED
  BY <1>1, <1>2, OneChanges DEF d

\* Every step of a command keeps the databases so.
LEMMA StepKeeps ==
  ASSUME TypeInv, NEW t \in Threads, Step(t)
  PROVE  Kept /\ acked' \subseteq Nat /\ export' = export /\ setting' \in Homes \cup {"torn"}
<1>1. export \subseteq Homes /\ setting \in Homes \cup {"torn"} /\ acked \subseteq Nat
  BY DEF TypeInv
<1>2. CASE Lookup(t)
  BY <1>1, <1>2, NoneChanges DEF Lookup, stores, history
<1>3. CASE Record(t)
  BY <1>1, <1>3, NoneChanges DEF Record, stores, history
<1>4. CASE Check(t) \/ ReadGeneration(t) \/ Pop(t) \/ Compare(t) \/ Push(t)
  BY <1>1, <1>4, NoneChanges DEF Check, ReadGeneration, Pop, Compare, Push, stores, history
<1>5. CASE Connect(t)
  BY <1>1, <1>5, ConnectEffect, NoneChanges, OpeningKeeps DEF Connect, history
<1>6. CASE Commit(t)
  BY <1>1, <1>6, CommitKeeps DEF Commit
<1>7. CASE ResetSnapshot(t)
  BY <1>1, <1>7, ResetSnapshotEffect, NoneChanges, OpeningKeeps DEF ResetSnapshot, history
<1>8. CASE ResetJournal(t) \/ ResetEnds(t) \/ Lock(t) \/ Target(t) \/ ReadForSetting(t)
           \/ Switch(t) \/ MoveEnds(t)
  BY <1>1, <1>8, NoneChanges DEF ResetJournal, ResetEnds, Lock, Target, ReadForSetting, Switch,
     MoveEnds, stores, history
<1>9. CASE Checkpoint(t)
  <2>1. From(t) \in Homes
    BY <1>9, MoveTypes DEF Checkpoint, At, From, MovePCs
  <2>2. export' = export /\ setting' = setting /\ snaps' = snaps /\ acked' = acked
    BY <1>9 DEF Checkpoint, history
  <2> QED
    BY <1>1, <1>9, <2>1, <2>2, CheckpointEffect, CheckpointKeeps, NoneChanges
<1>10. CASE Copy(t)
  <2>1. From(t) \in Homes /\ th[t].to \in Homes
    BY <1>10, MoveTypes DEF Copy, At, From, MovePCs
  <2>2. export' = export /\ setting' = setting /\ snaps' = snaps /\ acked' = acked
    BY <1>10 DEF Copy, history
  <2> QED
    BY <1>1, <1>10, <2>1, <2>2, CopyEffect, CopyKeeps, NoneChanges
<1>11. CASE Truncate(t) \/ Fill(t)
  <2>1. th[t].to \in Homes /\ setting' \in {"torn", setting, th[t].to}
    BY <1>11, MoveTypes DEF Truncate, Fill, At, MovePCs
  <2>2. export' = export /\ db' = db /\ snaps' = snaps /\ acked' = acked
    BY <1>11 DEF Truncate, Fill, history
  <2> QED
    BY <1>1, <2>1, <2>2, NoneChanges
<1>12. CASE Abandon(t)
  <2>1. th[t].to \in Homes
    BY <1>12, MoveTypes DEF Abandon, At, MovePCs
  <2>2. export' = export /\ setting' = setting /\ snaps' = snaps /\ acked' = acked
    BY <1>12 DEF Abandon, history
  <2>3. Missing \in Databases /\ Like(Missing, Missing)
    BY Originals DEF Like
  <2>4. CASE db' = [db EXCEPT ![th[t].to] = Missing]
    BY <2>1, <2>2, <2>3, <2>4, OneChanges, <1>1
  <2> QED
    BY <1>1, <1>12, <2>2, <2>4, AbandonEffect, NoneChanges
<1> QED
  BY <1>2, <1>3, <1>4, <1>5, <1>6, <1>7, <1>8, <1>9, <1>10, <1>11, <1>12
  DEF Step, Use, Reset, Move
-----------------------------------------------------------------------------
(* Types: what each step of a command does to the rest. *)

\* Only a served program runs commands.
LEMMA Running ==
  ASSUME TypeInv, NEW t \in Threads, th[t].pc # "idle"
  PROVE  ready /\ app = "up"
<1>1. Idle.pc = "idle"
  BY DEF Idle
<1> QED
  BY <1>1 DEF TypeInv

\* A thread that takes a step runs a command.
LEMMA NotIdle ==
  ASSUME NEW t \in Threads, Step(t)
  PROVE  th[t].pc # "idle"
<1>1. CASE Lookup(t)
  BY <1>1 DEF Lookup, ReadCache, ReadSetting, StorePath, At
<1>2. CASE Use(t)
  BY <1>2 DEF Use, Check, ReadGeneration, Pop, Connect, Commit, Compare, Push, At
<1>3. CASE Reset(t)
  BY <1>3 DEF Reset, ResetSnapshot, ResetJournal, ResetEnds, At
<1>4. CASE Move(t)
  BY <1>4 DEF Move, Lock, Target, Checkpoint, Copy, ReadForSetting, Truncate, Fill, Switch,
     Abandon, MoveEnds, At
<1>5. CASE Record(t)
  BY <1>5 DEF Record, VerifyJournal, AppendJournal, At
<1> QED
  BY <1>1, <1>2, <1>3, <1>4, <1>5 DEF Step

\* The threads keep their types.
LEMMA StepThreads ==
  ASSUME TypeInv, NEW t \in Threads, Step(t)
  PROVE  ThreadsOK'
<1>1. CASE Lookup(t)
  BY <1>1, ReadCacheEffect, ReadSettingEffect, StorePathEffect DEF Lookup, Typed
<1>2. CASE Check(t) \/ ReadGeneration(t) \/ Pop(t) \/ Connect(t)
  BY <1>2, CheckEffect, ReadGenerationEffect, PopEffect, ConnectEffect DEF Typed
<1>3. CASE Commit(t) \/ Compare(t) \/ Push(t)
  BY <1>3, CommitEffect, CompareEffect, PushEffect DEF Typed
<1>4. CASE Reset(t)
  BY <1>4, ResetSnapshotEffect, ResetJournalEffect, ResetEndsEffect DEF Reset, Typed
<1>5. CASE Lock(t)
  BY <1>5, LockEffect
<1>6. CASE Target(t) \/ Checkpoint(t) \/ Copy(t)
  BY <1>6, TargetEffect, CheckpointEffect, CopyEffect DEF MovesOn, Typed
<1>7. CASE ReadForSetting(t) \/ Truncate(t) \/ Fill(t)
  BY <1>7, SettingEffect DEF MovesOn, Typed
<1>8. CASE Switch(t) \/ Abandon(t) \/ MoveEnds(t)
  BY <1>8, SwitchEffect, AbandonEffect, MoveEndsEffect DEF MovesOn, Typed
<1>9. CASE Record(t)
  BY <1>9, VerifyEffect, AppendEffect DEF Record, Typed
<1> QED
  BY <1>1, <1>2, <1>3, <1>4, <1>5, <1>6, <1>7, <1>8, <1>9 DEF Step, Use, Move

\* What is cached and pooled, and under which generation.
LinksOK ==
  /\ gen \in Nat \ {0} /\ cache \in [gen : Nat, home : Place]
  /\ pool \in Seq([gen : Nat, home : Homes, keys : BOOLEAN]) /\ Len(pool) <= PoolSize
  /\ cache.gen = gen => cache.home \in Homes

\* What is cached goes with the generation.
LEMMA InvalidateLinks ==
  ASSUME TypeInv, Invalidate
  PROVE  LinksOK' /\ gen' = gen + 1 /\ cache'.gen = 0 /\ cache'.home = "none" /\ pool' = <<>>
         /\ DOMAIN pool' = {}
<1>1. gen \in Nat \ {0} /\ gen' = gen + 1 /\ pool' = <<>> /\ cache' = None
  BY DEF TypeInv, Invalidate
<1>2. None \in [gen : Nat, home : Place] /\ None.gen = 0 /\ None.home = "none"
  BY DEF None, Place
<1>3. <<>> \in Seq([gen : Nat, home : Homes, keys : BOOLEAN]) /\ Len(<<>>) = 0 /\ DOMAIN <<>> = {}
  OBVIOUS
<1> QED
  BY <1>1, <1>2, <1>3 DEF LinksOK, PoolSize

\* Every step of a command keeps the types of what is cached and pooled, and what
\* it adds to the pool enforces references.
LEMMA StepLinks ==
  ASSUME TypeInv, NEW t \in Threads, Step(t)
  PROVE  /\ LinksOK'
         /\ \A i \in DOMAIN pool' : pool'[i].keys \/ (i \in DOMAIN pool /\ pool'[i] = pool[i])
<1>1. LinksOK
  BY DEF TypeInv, LinksOK
<1>2. CASE UNCHANGED links
  BY <1>1, <1>2 DEF LinksOK, links
<1>3. CASE Invalidate
  BY <1>3, InvalidateLinks
<1>4. CASE StorePath(t) /\ UNCHANGED <<gen, pool>>
  <2>1. cache' = [gen |-> th[t].seen, home |-> th[t].home] /\ th[t].home \in Homes
    BY <1>4, StorePathEffect
  <2>2. th[t].seen \in Nat
    BY ThreadTypes DEF ThreadStates
  <2> QED
    BY <1>1, <1>4, <2>1, <2>2 DEF LinksOK, Place
<1>5. CASE (Pop(t) \/ Push(t)) /\ UNCHANGED <<gen, cache>>
  <2>1. /\ pool' \in Seq([gen : Nat, home : Homes, keys : BOOLEAN]) /\ Len(pool') <= PoolSize
        /\ \A i \in DOMAIN pool' :
             \/ i \in DOMAIN pool /\ pool'[i] = pool[i]
             \/ pool'[i] = [gen |-> th[t].gen, home |-> th[t].conn, keys |-> TRUE]
    BY <1>5, PopEffect, PushEffect
  <2> QED
    BY <1>1, <1>5, <2>1 DEF LinksOK
<1>6. Lookup(t) => UNCHANGED links \/ (StorePath(t) /\ UNCHANGED <<gen, pool>>)
  BY DEF Lookup, ReadCache, ReadSetting, links
<1>7. Use(t) => UNCHANGED links \/ ((Pop(t) \/ Push(t)) /\ UNCHANGED <<gen, cache>>)
  BY DEF Use, Check, ReadGeneration, Pop, Connect, Commit, Compare, Push
<1>8. Reset(t) => UNCHANGED links \/ Invalidate
  BY DEF Reset, ResetSnapshot, ResetJournal, ResetEnds
<1>9. Move(t) => UNCHANGED links \/ Invalidate
  BY DEF Move, Lock, Target, Checkpoint, Copy, ReadForSetting, Truncate, Fill, Switch, Abandon,
     MoveEnds
<1>10. Record(t) => UNCHANGED links
  BY DEF Record
<1>11. \/ UNCHANGED links \/ Invalidate \/ (StorePath(t) /\ UNCHANGED <<gen, pool>>)
       \/ (Pop(t) \/ Push(t)) /\ UNCHANGED <<gen, cache>>
  BY <1>6, <1>7, <1>8, <1>9, <1>10 DEF Step
<1> QED
  BY <1>2, <1>3, <1>4, <1>5, <1>11

\* The journals keep their types, and lose nothing.
TrailOK == /\ trail \in [Homes -> [file : BOOLEAN, broken : BOOLEAN, events : SUBSET Nat]]
           /\ \A h \in Homes : IsFiniteSet(trail[h].events)
Grows   == \A h \in Homes : /\ trail[h].broken => trail'[h].broken
                            /\ trail[h].events \subseteq trail'[h].events

\* An event that is appended is in its journal, if that is in reach, and the others stay.
LEMMA AppendKeeps ==
  ASSUME TypeInv, NEW t \in Threads, AppendJournal(t)
  PROVE  /\ TrailOK' /\ Grows /\ th[t].left # <<>> /\ Head(th[t].left) \in Homes
         /\ Head(th[t].left) \in reach => th[t].id \in trail'[Head(th[t].left)].events
<1> DEFINE h == Head(th[t].left)
           J == [file : BOOLEAN, broken : BOOLEAN, events : SUBSET Nat]
           b == trail[h].broken \/ ~Continues(trail[h], th[t].entries)
           e == trail[h].events \cup {th[t].id}
           n == [file |-> TRUE, events |-> e, broken |-> b]
<1>1. th[t].left # <<>> /\ h \in Homes /\ th[t].id \in Nat
  <2>1. th[t].left # <<>> /\ th[t].left \in Seq(Homes) /\ th[t].id \in Nat
    BY AppendEffect, ThreadTypes DEF ThreadStates
  <2> QED
    BY <2>1, NextJournalOf
<1>2. TrailOK /\ trail[h] \in J
  BY <1>1 DEF TypeInv, TrailOK
<1>3. IsFiniteSet(e)
  <2>1. IsFiniteSet(trail[h].events)
    BY <1>1, <1>2 DEF TrailOK
  <2> HIDE DEF h
  <2> QED
    BY <2>1, FS_AddElement
<1>4. n \in J /\ n.events = e /\ (trail[h].broken => n.broken)
  <2>1. b \in BOOLEAN
    BY <1>2
  <2>2. e \in SUBSET Nat
    BY <1>1, <1>2
  <2>3. trail[h].broken => b
    OBVIOUS
  <2> HIDE DEF b, e
  <2> QED
    BY <2>1, <2>2, <2>3
<1>5. \/ h \in reach /\ trail' = [trail EXCEPT ![h] = n]
      \/ h \notin reach /\ trail' = trail
  BY DEF AppendJournal
<1>6. th[t].id \in e /\ trail[h].events \subseteq e
  OBVIOUS
<1> HIDE DEF n, h, e, b
<1>7. CASE trail' = trail /\ h \notin reach
  BY <1>1, <1>2, <1>7 DEF TrailOK, Grows, h
<1>8. CASE trail' = [trail EXCEPT ![h] = n]
  <2>1. trail'[h] = n /\ \A g \in Homes \ {h} : trail'[g] = trail[g]
    BY <1>1, <1>2, <1>8 DEF TrailOK
  <2>2. trail' \in [Homes -> J]
    BY <1>1, <1>2, <1>4, <1>8 DEF TrailOK
  <2>3. TrailOK'
    BY <1>2, <1>3, <1>4, <2>1, <2>2 DEF TrailOK
  <2>4. Grows
    BY <1>4, <1>6, <2>1 DEF Grows
  <2> QED
    BY <1>1, <1>4, <1>6, <2>1, <2>3, <2>4 DEF h
<1> QED
  BY <1>5, <1>7, <1>8

\* Every step of a command keeps the journals so.
LEMMA StepTrail ==
  ASSUME TypeInv, NEW t \in Threads, Step(t)
  PROVE  TrailOK' /\ Grows
<1>1. CASE trail' = trail
  BY <1>1 DEF TypeInv, TrailOK, Grows
<1>2. CASE AppendJournal(t)
  BY <1>2, AppendKeeps
<1>3. trail' = trail \/ AppendJournal(t)
  BY DEF Step, Lookup, Use, Reset, ResetSnapshot, ResetJournal, ResetEnds, Move, Lock, Target,
     Checkpoint, Copy, ReadForSetting, Truncate, Fill, Switch, Abandon, MoveEnds, Record,
     VerifyJournal
<1> QED
  BY <1>1, <1>2, <1>3

\* Every step of a command keeps the types.
LEMMA StepTypes ==
  ASSUME TypeInv, NEW t \in Threads, Step(t)
  PROVE  TypeInv'
<1>1. Kept /\ acked' \subseteq Nat /\ export' = export /\ setting' \in Homes \cup {"torn"}
  BY StepKeeps
<1>2. ThreadsOK' /\ LinksOK' /\ TrailOK'
  BY StepThreads, StepLinks, StepTrail
<1>3. ready /\ app = "up"
  BY NotIdle, Running
<1>4. restoring' \in BOOLEAN
  <2>1. restoring' \in {restoring, TRUE, FALSE}
    BY DEF Step, Lookup, Use, Reset, ResetSnapshot, ResetJournal, ResetEnds, Move, Lock, Target,
       Checkpoint, Copy, ReadForSetting, Truncate, Fill, Switch, Abandon, MoveEnds, Record
  <2> QED
    BY <2>1 DEF TypeInv
<1>5. UNCHANGED <<reach, app, todo, enforced, ready, strain, begun, mishaps>>
  BY DEF Step, starting, bounds
<1> QED
  BY <1>1, <1>2, <1>3, <1>4, <1>5 DEF TypeInv, Kept, LinksOK, TrailOK, Boots
-----------------------------------------------------------------------------
(* The upgrade: what each step does to the database. *)

\* The step that brings each part.
LEMMA Bringers ==
  \A p \in Required \ Signing :
    \/ p \in {"tables", "claims", "policies", "codes"} /\ BroughtBy[p] = "base"
    \/ p = "employeeColumns" /\ BroughtBy[p] = "employees"
    \/ p = "teamColumns" /\ BroughtBy[p] = "teams"
    \/ p = "accountColumns" /\ BroughtBy[p] = "accounts"
    \/ p = "assetColumns" /\ BroughtBy[p] = "assets"
    \/ p = "importColumns" /\ BroughtBy[p] = "imports"
    \/ p = "requestColumns" /\ BroughtBy[p] = "requests"
    \/ p \in {"manual", "nullable"} /\ BroughtBy[p] = "phaseC"
    \/ p = "categories" /\ BroughtBy[p] = "categories"
    \/ p = "prefixes" /\ BroughtBy[p] = "prefixes"
    \/ p = "accounts" /\ BroughtBy[p] = "seed"
    \/ p = "super" /\ BroughtBy[p] = "promote"
BY DEF Required, Signing, NewTables, NewColumns, NewRules, BroughtBy

\* So does what removes the relics of the old release.
LEMMA Removers ==
  /\ RemovedBy["oldField"] = "dropField" /\ RemovedBy["cascade"] = "retain"
  /\ RemovedBy["assetComputerNames"] = "assets"
BY DEF RemovedBy

Relics == {"oldField", "cascade", "assetComputerNames"}

\* What a step makes of the parts of the schema: it brings what it is to bring and
\* removes what it is to remove; nothing required goes again, but for the super
\* admin, who is there again after the next step.
Improves(step, old, new) ==
  /\ new \in SUBSET Parts
  /\ \A p \in Required \ Signing : /\ step = BroughtBy[p] => p \in new
                                   /\ p \in old => p \in new \/ (p = "super" /\ step = "seed")
  /\ \A p \in Relics : p \in new => p \in old /\ step # RemovedBy[p]

\* The steps that change the schema.
SchemaChanges ==
  {"base", "employees", "teams", "accounts", "codes", "assets", "imports", "categories",
   "prefixes", "requests", "phaseC", "retain", "policies", "seed", "promote", "newField",
   "dropField"}

\* Each of them improves what a database has, and changes nothing else.
LEMMA SchemaAfter ==
  ASSUME NEW d \in Databases, NEW step \in SchemaChanges
  PROVE  \E new : Improves(step, d.has, new) /\ After(step, d) = [d EXCEPT !.has = new]
<1> DEFINE R == Required \ Signing
<1>1. d.has \in SUBSET Parts
  BY DEF Databases
<1>2. /\ R \cup Signing \cup {"newField"} \subseteq Parts
      /\ {"tables", "claims", "policies", "codes", "employeeColumns", "teamColumns",
          "accountColumns", "assetColumns", "importColumns", "requestColumns", "manual",
          "nullable", "categories", "prefixes", "accounts", "super"} \subseteq R
      /\ "signing" \notin R /\ R \cap Relics = {} /\ "newField" \notin Relics
      /\ "signing" \notin Relics /\ "newField" \notin R
  BY DEF Parts, Required, Signing, NewTables, NewColumns, NewRules, Relics
<1>3. ASSUME NEW x, x \in SUBSET (R \cup Signing),
             step \notin {"dropField", "retain", "assets", "seed"},
             \A p \in R : step = BroughtBy[p] => p \in x,
             After(step, d) = [d EXCEPT !.has = d.has \cup x]
      PROVE  \E new : Improves(step, d.has, new) /\ After(step, d) = [d EXCEPT !.has = new]
  <2>1. Improves(step, d.has, d.has \cup x)
    <3>1. d.has \cup x \in SUBSET Parts
      BY <1>1, <1>2, <1>3
    <3>2. \A p \in Relics : p \in d.has \cup x => p \in d.has
      BY <1>2, <1>3 DEF Signing
    <3>3. \A p \in Relics : step # RemovedBy[p]
      BY <1>3, Removers DEF Relics
    <3> QED
      BY <1>3, <3>1, <3>2, <3>3 DEF Improves
  <2> QED
    BY <1>3, <2>1
<1>4. ASSUME NEW x \in SUBSET (R \cup Signing),
             step \notin {"dropField", "retain", "assets", "seed"},
             \A p \in R : step = BroughtBy[p] => p \in x,
             After(step, d) = With(d, x)
      PROVE  \E new : Improves(step, d.has, new) /\ After(step, d) = [d EXCEPT !.has = new]
  <2>1. After(step, d) = [d EXCEPT !.has = d.has \cup x]
    BY <1>4 DEF With
  <2> QED
    BY <1>3, <1>4, <2>1
<1>5. CASE step \in {"employees", "teams", "accounts", "codes", "imports", "categories",
                      "prefixes", "policies", "promote", "requests"}
  <2>1. CASE step = "employees"
    <3>1. After(step, d) = With(d, {"employeeColumns"})
      BY <2>1 DEF After, EmployeeColumns
    <3>2. \A p \in R : step = BroughtBy[p] => p \in {"employeeColumns"}
      BY <2>1, Bringers
    <3> HIDE DEF R
    <3> QED
      BY <1>2, <1>4, <2>1, <3>1, <3>2
  <2>2. CASE step = "teams"
    <3>1. After(step, d) = With(d, {"teamColumns"})
      BY <2>2 DEF After, TeamColumns
    <3>2. \A p \in R : step = BroughtBy[p] => p \in {"teamColumns"}
      BY <2>2, Bringers
    <3> HIDE DEF R
    <3> QED
      BY <1>2, <1>4, <2>2, <3>1, <3>2
  <2>3. CASE step = "accounts"
    <3>1. After(step, d) = With(d, {"accountColumns"})
      BY <2>3 DEF After, AccountColumns
    <3>2. \A p \in R : step = BroughtBy[p] => p \in {"accountColumns"}
      BY <2>3, Bringers
    <3> HIDE DEF R
    <3> QED
      BY <1>2, <1>4, <2>3, <3>1, <3>2
  <2>4. CASE step = "codes"
    <3>1. After(step, d) = With(d, {"codes"})
      BY <2>4 DEF After, CodesTable
    <3>2. \A p \in R : step = BroughtBy[p] => p \in {"codes"}
      BY <2>4, Bringers
    <3> HIDE DEF R
    <3> QED
      BY <1>2, <1>4, <2>4, <3>1, <3>2
  <2>5. CASE step = "imports"
    <3>1. After(step, d) = With(d, {"importColumns"})
      BY <2>5 DEF After, ImportColumns
    <3>2. \A p \in R : step = BroughtBy[p] => p \in {"importColumns"}
      BY <2>5, Bringers
    <3> HIDE DEF R
    <3> QED
      BY <1>2, <1>4, <2>5, <3>1, <3>2
  <2>6. CASE step = "categories"
    <3>1. After(step, d) = With(d, {"categories"})
      BY <2>6 DEF After, Categories
    <3>2. \A p \in R : step = BroughtBy[p] => p \in {"categories"}
      BY <2>6, Bringers
    <3> HIDE DEF R
    <3> QED
      BY <1>2, <1>4, <2>6, <3>1, <3>2
  <2>7. CASE step = "prefixes"
    <3>1. After(step, d) = With(d, {"prefixes"})
      BY <2>7 DEF After, Prefixes
    <3>2. \A p \in R : step = BroughtBy[p] => p \in {"prefixes"}
      BY <2>7, Bringers
    <3> HIDE DEF R
    <3> QED
      BY <1>2, <1>4, <2>7, <3>1, <3>2
  <2>8. CASE step = "policies"
    <3>1. After(step, d) = With(d, {"policies"})
      BY <2>8 DEF After, Policies
    <3>2. \A p \in R : step = BroughtBy[p] => p \in {"policies"}
      BY <2>8, Bringers
    <3> HIDE DEF R
    <3> QED
      BY <1>2, <1>4, <2>8, <3>1, <3>2
  <2>9. CASE step = "promote"
    <3>1. After(step, d) = With(d, {"super"})
      BY <2>9 DEF After, PromoteAdmin
    <3>2. \A p \in R : step = BroughtBy[p] => p \in {"super"}
      BY <2>9, Bringers
    <3> HIDE DEF R
    <3> QED
      BY <1>2, <1>4, <2>9, <3>1, <3>2
  <2>10. CASE step = "requests"
    <3>1. After(step, d) = With(d, {"requestColumns"} \cup Signing)
      BY <2>10 DEF After, RequestColumns
    <3>2. \A p \in R : step = BroughtBy[p] => p \in {"requestColumns"} \cup Signing
      BY <2>10, Bringers
    <3> HIDE DEF R
    <3> QED
      BY <1>2, <1>4, <2>10, <3>1, <3>2
  <2> QED
    BY <1>5, <2>1, <2>2, <2>3, <2>4, <2>5, <2>6, <2>7, <2>8, <2>9, <2>10
<1>6. CASE step = "base"
  <2> DEFINE x == IF "tables" \in d.has THEN NewTables
                  ELSE Required \ {"categories", "prefixes", "accounts", "super"}
  <2>1. After(step, d) = [d EXCEPT !.has = d.has \cup x]
    BY <1>6 DEF After, BaseSchema
  <2>2. \A p \in R : step = BroughtBy[p] => p \in d.has \cup x
    BY <1>2, <1>6, Bringers DEF NewTables
  <2>3. x \in SUBSET (R \cup Signing)
    BY DEF Required
  <2> DEFINE y == x \cup (d.has \cap {"tables"})
  <2>4. y \in SUBSET (R \cup Signing) /\ d.has \cup y = d.has \cup x
    BY <1>2, <2>3
  <2>5. \A p \in R : step = BroughtBy[p] => p \in y
    BY <1>2, <1>6, Bringers DEF NewTables
  <2> HIDE DEF x, y
  <2> QED
    BY <1>3, <1>6, <2>1, <2>4, <2>5
<1>7. CASE step = "phaseC"
  <2> DEFINE add == d.has \cup ({"manual"} \cup Signing)
             n == (IF "nullable" \in d.has THEN add ELSE (add \ Signing) \cup {"nullable"})
                  \cup {"claims"}
  <2>1. After(step, d) = [d EXCEPT !.has = n]
    BY <1>7 DEF After, PhaseC, With, Databases
  <2>2. n \in SUBSET Parts
    BY <1>1, <1>2
  <2>3. \A p \in R : (step = BroughtBy[p] => p \in n) /\ (p \in d.has => p \in n)
    BY <1>2, <1>7, Bringers DEF Signing
  <2>4. \A p \in Relics : p \in n => p \in d.has /\ step # RemovedBy[p]
    BY <1>2, <1>7, Removers DEF Relics, Signing
  <2> QED
    BY <2>1, <2>2, <2>3, <2>4 DEF Improves
<1>8. CASE step = "assets"
  <2> DEFINE n == (d.has \cup {"assetColumns"}) \ {"assetComputerNames"}
  <2>1. After(step, d) = [d EXCEPT !.has = n]
    BY <1>8 DEF After, AssetColumns, With, Databases
  <2>2. n \in SUBSET Parts
    BY <1>1, <1>2
  <2>3. \A p \in R : (step = BroughtBy[p] => p \in n) /\ (p \in d.has => p \in n)
    BY <1>2, <1>8, Bringers DEF Relics
  <2>4. \A p \in Relics : p \in n => p \in d.has /\ step # RemovedBy[p]
    BY <1>2, <1>8, Removers DEF Relics
  <2> QED
    BY <2>1, <2>2, <2>3, <2>4 DEF Improves
<1>9. CASE step = "seed"
  <2> DEFINE n == (d.has \cup {"accounts"}) \ {"super"}
  <2>1. After(step, d) = [d EXCEPT !.has = n]
    BY <1>9 DEF After, SeedAccounts, With, Databases
  <2>2. n \in SUBSET Parts
    BY <1>1, <1>2
  <2>3. \A p \in R : (step = BroughtBy[p] => p \in n) /\ (p \in d.has => p \in n \/ p = "super")
    BY <1>2, <1>9, Bringers
  <2>4. \A p \in Relics : p \in n => p \in d.has /\ step # RemovedBy[p]
    BY <1>2, <1>9, Removers DEF Relics
  <2> QED
    BY <1>9, <2>1, <2>2, <2>3, <2>4 DEF Improves
<1>10. CASE step = "retain"
  <2> DEFINE n == d.has \ {"cascade"}
  <2>1. After(step, d) = [d EXCEPT !.has = n]
    BY <1>10 DEF After, RetainItems
  <2>2. n \in SUBSET Parts
    BY <1>1
  <2>3. \A p \in R : (step = BroughtBy[p] => p \in n) /\ (p \in d.has => p \in n)
    BY <1>2, <1>10, Bringers DEF Relics
  <2>4. \A p \in Relics : p \in n => p \in d.has /\ step # RemovedBy[p]
    BY <1>10, Removers DEF Relics
  <2> QED
    BY <2>1, <2>2, <2>3, <2>4 DEF Improves
<1>11. CASE step = "dropField"
  <2> DEFINE n == d.has \ {"oldField"}
  <2>1. After(step, d) = [d EXCEPT !.has = n]
    BY <1>11 DEF After, DropField
  <2>2. n \in SUBSET Parts
    BY <1>1
  <2>3. \A p \in R : (step = BroughtBy[p] => p \in n) /\ (p \in d.has => p \in n)
    BY <1>2, <1>11, Bringers DEF Relics
  <2>4. \A p \in Relics : p \in n => p \in d.has /\ step # RemovedBy[p]
    BY <1>11, Removers DEF Relics
  <2> QED
    BY <2>1, <2>2, <2>3, <2>4 DEF Improves
<1>12. CASE step = "newField"
  <2> DEFINE n == IF "oldField" \in d.has THEN d.has \cup {"newField"} ELSE d.has
  <2>1. After(step, d) = [d EXCEPT !.has = n]
    BY <1>12 DEF After, NewField, With, Databases
  <2>2. n \in SUBSET Parts
    BY <1>1, <1>2
  <2>3. \A p \in R : (step = BroughtBy[p] => p \in n) /\ (p \in d.has => p \in n)
    BY <1>2, <1>12, Bringers
  <2>4. \A p \in Relics : p \in n => p \in d.has /\ step # RemovedBy[p]
    BY <1>2, <1>12, Removers DEF Relics
  <2> QED
    BY <2>1, <2>2, <2>3, <2>4 DEF Improves
<1> QED
  BY <1>5, <1>6, <1>7, <1>8, <1>9, <1>10, <1>11, <1>12 DEF SchemaChanges
\* What the three steps on the old values do to the account of each employee.
Merged(a) == IF Filled(a.old) /\ a.new # "none" THEN [a EXCEPT !.new = a.old] ELSE a
Filling(a) == IF Filled(a.old) /\ a.new = "none" THEN [a EXCEPT !.new = a.old] ELSE a
Dropped(a) == [a EXCEPT !.old = "none"]

\* They change the accounts, and nothing else.
LEMMA AccountsAfter ==
  ASSUME NEW d \in Databases
  PROVE  /\ After("mergeValues", d) = [d EXCEPT !.azure = [e \in Staff |-> Merged(d.azure[e])]]
         /\ After("copyValues", d) = [d EXCEPT !.azure = [e \in Staff |-> Filling(d.azure[e])]]
         /\ After("dropValues", d) = [d EXCEPT !.azure = [e \in Staff |-> Dropped(d.azure[e])]]
         /\ \A a \in Account : Merged(a) \in Account /\ Filling(a) \in Account
                               /\ Dropped(a) \in Account
<1>1. After("mergeValues", d) = [d EXCEPT !.azure = [e \in Staff |-> Merged(d.azure[e])]]
  BY DEF After, MergeValues, Merged
<1>2. After("copyValues", d) = [d EXCEPT !.azure = [e \in Staff |-> Filling(d.azure[e])]]
  BY DEF After, CopyValues, Filling
<1>3. After("dropValues", d) = [d EXCEPT !.azure = [e \in Staff |-> Dropped(d.azure[e])]]
  BY DEF After, DropValues, Dropped
<1>4. ASSUME NEW a \in Account
      PROVE  Merged(a) \in Account /\ Filling(a) \in Account /\ Dropped(a) \in Account
  BY DEF Account, Value, Merged, Filling, Dropped
<1> QED
  BY <1>1, <1>2, <1>3, <1>4

\* The same of each employee.
LEMMA EachAccountAfter ==
  ASSUME NEW d \in Databases, NEW e \in Staff
  PROVE  /\ After("mergeValues", d).azure[e] = Merged(d.azure[e])
         /\ After("copyValues", d).azure[e] = Filling(d.azure[e])
         /\ After("dropValues", d).azure[e] = Dropped(d.azure[e])
<1>1. ASSUME NEW f \in [Staff -> Account] PROVE [d EXCEPT !.azure = f].azure = f
  BY DEF Databases
<1>2. d.azure \in [Staff -> Account]
  BY DEF Databases
<1>3. /\ [x \in Staff |-> Merged(d.azure[x])] \in [Staff -> Account]
      /\ [x \in Staff |-> Filling(d.azure[x])] \in [Staff -> Account]
      /\ [x \in Staff |-> Dropped(d.azure[x])] \in [Staff -> Account]
  BY <1>2, AccountsAfter
<1>4. /\ After("mergeValues", d).azure = [x \in Staff |-> Merged(d.azure[x])]
      /\ After("copyValues", d).azure = [x \in Staff |-> Filling(d.azure[x])]
      /\ After("dropValues", d).azure = [x \in Staff |-> Dropped(d.azure[x])]
  BY <1>1, <1>3, AccountsAfter
<1> QED
  BY <1>4

\* What a step may do to the rest of a database.
AfterOK(step, d, e) ==
  /\ e \in Databases
  /\ e.file = d.file /\ e.sealed = d.sealed /\ e.origin = d.origin
  /\ e.main = d.main /\ e.wal = d.wal
  /\ Improves(step, d.has, e.has)
  /\ e.version = IF step = "stamp" THEN SCHEMA_USER_VERSION ELSE d.version
  /\ e.index = CASE step = "dropIndex"   -> "none"
                 [] step = "createIndex" -> "empty"
                 [] step = "fillIndex"   -> "full"
                 [] OTHER                -> d.index
  /\ e.triggers = IF step \in {"dropTriggers", "createTriggers"}
                  THEN step = "createTriggers" ELSE d.triggers
  /\ step \notin {"mergeValues", "copyValues", "dropValues"} => e.azure = d.azure

\* Every step of the upgrade keeps to that.
LEMMA AfterFacts ==
  ASSUME NEW d \in Databases, NEW step \in Steps
  PROVE  AfterOK(step, d, After(step, d))
<1> DEFINE e == After(step, d)
<1>1. CASE step \in SchemaChanges
  <2>1. PICK new : Improves(step, d.has, new) /\ e = [d EXCEPT !.has = new]
    BY <1>1, SchemaAfter
  <2>2. new \in SUBSET Parts
    BY <2>1 DEF Improves
  <2>3. /\ e \in Databases /\ e.has = new /\ e.azure = d.azure /\ e.version = d.version
        /\ e.index = d.index /\ e.file = d.file /\ e.sealed = d.sealed /\ e.origin = d.origin
        /\ e.main = d.main /\ e.wal = d.wal /\ e.triggers = d.triggers
    BY <2>1, <2>2 DEF Databases
  <2> HIDE DEF e
  <2>4. step # "stamp" /\ step \notin IndexWork
    BY <1>1 DEF SchemaChanges, IndexWork
  <2>5. AfterOK(step, d, e)
    BY <2>1, <2>3, <2>4 DEF AfterOK, IndexWork
  <2> QED
    BY <2>5 DEF e
<1>2. step \notin SchemaChanges => Improves(step, d.has, d.has)
  <2>1. d.has \in SUBSET Parts
    BY DEF Databases
  <2>2. \A p \in Required \ Signing : BroughtBy[p] \in SchemaChanges
    BY Bringers DEF SchemaChanges
  <2>3. \A p \in Relics : RemovedBy[p] \in SchemaChanges
    BY Removers DEF SchemaChanges, Relics
  <2> QED
    BY <2>1, <2>2, <2>3 DEF Improves
<1>3. CASE step \in {"mergeValues", "copyValues", "dropValues"}
  <2>1. PICK f \in [Staff -> Account] : e = [d EXCEPT !.azure = f]
    <3>1. d.azure \in [Staff -> Account]
      BY DEF Databases
    <3>2. CASE step = "mergeValues"
      <4>1. [x \in Staff |-> Merged(d.azure[x])] \in [Staff -> Account]
        BY <3>1, AccountsAfter
      <4> QED
        BY <3>2, <4>1, AccountsAfter
    <3>3. CASE step = "copyValues"
      <4>1. [x \in Staff |-> Filling(d.azure[x])] \in [Staff -> Account]
        BY <3>1, AccountsAfter
      <4> QED
        BY <3>3, <4>1, AccountsAfter
    <3>4. CASE step = "dropValues"
      <4>1. [x \in Staff |-> Dropped(d.azure[x])] \in [Staff -> Account]
        BY <3>1, AccountsAfter
      <4> QED
        BY <3>4, <4>1, AccountsAfter
    <3> QED
      BY <1>3, <3>2, <3>3, <3>4
  <2>2. /\ e \in Databases /\ e.has = d.has /\ e.version = d.version
        /\ e.index = d.index /\ e.file = d.file /\ e.sealed = d.sealed /\ e.origin = d.origin
        /\ e.main = d.main /\ e.wal = d.wal /\ e.triggers = d.triggers
    BY <2>1 DEF Databases
  <2> HIDE DEF e
  <2>3. step \notin SchemaChanges /\ step # "stamp" /\ step \notin IndexWork
    BY <1>3 DEF SchemaChanges, IndexWork
  <2>4. AfterOK(step, d, e)
    BY <1>2, <1>3, <2>2, <2>3 DEF AfterOK, IndexWork
  <2> QED
    BY <2>4 DEF e
<1>4. CASE step \in {"dropTriggers", "dropIndex", "createIndex", "fillIndex", "createTriggers",
                     "stamp", "relax", "enforce", "index"}
  <2>1. /\ e \in Databases /\ e.has = d.has /\ e.azure = d.azure
        /\ e.file = d.file /\ e.sealed = d.sealed /\ e.origin = d.origin
        /\ e.main = d.main /\ e.wal = d.wal
        /\ e.version = IF step = "stamp" THEN SCHEMA_USER_VERSION ELSE d.version
        /\ e.index = CASE step = "dropIndex"   -> "none"
                       [] step = "createIndex" -> "empty"
                       [] step = "fillIndex"   -> "full"
                       [] OTHER                -> d.index
        /\ e.triggers = IF step \in {"dropTriggers", "createTriggers"}
                        THEN step = "createTriggers" ELSE d.triggers
    <3>1. CASE step \in {"dropTriggers", "createTriggers"}
      BY <3>1 DEF After, Databases
    <3>2. CASE step \in {"dropIndex", "createIndex", "fillIndex"}
      BY <3>2 DEF After, Databases
    <3>3. CASE step = "stamp"
      BY <3>3 DEF After, Databases, SCHEMA_USER_VERSION
    <3>4. CASE step \in {"relax", "enforce", "index"}
      BY <3>4 DEF After, Databases
    <3> QED
      BY <1>4, <3>1, <3>2, <3>3, <3>4
  <2> HIDE DEF e
  <2>2. step \notin SchemaChanges
    BY <1>4 DEF SchemaChanges
  <2>3. AfterOK(step, d, e)
    BY <1>2, <2>1, <2>2 DEF AfterOK
  <2> QED
    BY <2>3 DEF e
<1>5. Steps \subseteq SchemaChanges \cup {"mergeValues", "copyValues", "dropValues"}
        \cup {"dropTriggers", "dropIndex", "createIndex", "fillIndex", "createTriggers",
              "stamp", "relax", "enforce", "index"}
  BY DEF Steps, SchemaChanges
<1> QED
  BY <1>1, <1>3, <1>4, <1>5
-----------------------------------------------------------------------------
(* Types: the start, and the environment. *)

\* During the start there is no pool and no command.
LEMMA Starting ==
  ASSUME TypeInv, app # "up"
  PROVE  /\ ~ready /\ pool = <<>> /\ \A t \in Threads : th[t] = Idle
         /\ app \in Boots => Home \in Homes /\ db[Home] \in Databases
BY DEF TypeInv, Home

\* Opening the database lists the steps of its upgrade, and saves an older one first.
LEMMA OpenTypes ==
  ASSUME TypeInv, Open, app' = "upgrade"
  PROVE  /\ Openable(Home) /\ db' = Opened(Home) /\ todo' = UpgradeSteps(db'[Home])
         /\ todo' \in Seq(Steps) /\ enforced' = TRUE /\ Home \in Homes /\ Kept
         /\ snaps' = snaps \cup {db'[h] : h \in {g \in {Home} :
                                  /\ db'[g].version < SCHEMA_USER_VERSION
                                  /\ "tables" \in db'[g].has}}
         /\ UNCHANGED <<export, setting, reach, links, ready>>
<1>1. app = "open" /\ Home \in Homes
  BY Starting DEF Open, Boots
<1>2. /\ Openable(Home) /\ db' = Opened(Home) /\ todo' = UpgradeSteps(db'[Home])
      /\ enforced' = TRUE
      /\ snaps' = snaps \cup {db'[h] : h \in {g \in {Home} :
                                  /\ db'[g].version < SCHEMA_USER_VERSION
                                  /\ "tables" \in db'[g].has}}
      /\ UNCHANGED <<export, setting, reach, links, ready>>
  BY DEF Open, StartFails
<1>3. todo' \in Seq(Steps)
  BY <1>2, UpgradeList, RepairList
<1>4. snaps \subseteq snaps' /\ snaps' \subseteq snaps \cup {db'[Home]}
  BY <1>2
<1>5. Kept
  BY <1>1, <1>2, <1>4, OpeningKeeps
<1> QED
  BY <1>1, <1>2, <1>3, <1>5

\* An upgrade step changes the database of the cached path.
LEMMA UpgradeTypes ==
  ASSUME TypeInv, Upgrade
  PROVE  /\ db' = [db EXCEPT ![Home] = After(Head(todo), db[Home])] /\ Home \in Homes
         /\ db' \in [Homes -> Databases] /\ Head(todo) \in Steps /\ todo # <<>>
         /\ todo' = (IF Head(todo) = "index" THEN IndexSteps(db[Home]) ELSE <<>>) \o Tail(todo)
         /\ todo' \in Seq(Steps) /\ enforced' \in BOOLEAN
<1>1. /\ Home \in Homes /\ db \in [Homes -> Databases] /\ todo \in Seq(Steps) /\ todo # <<>>
      /\ enforced \in BOOLEAN
  BY Starting DEF Upgrade, Boots, TypeInv
<1>2. Head(todo) \in Steps /\ Tail(todo) \in Seq(Steps)
  BY <1>1, FirstDone
<1>3. After(Head(todo), db[Home]) \in Databases
  BY <1>1, <1>2, AfterFacts DEF AfterOK
<1>4. /\ db' = [db EXCEPT ![Home] = After(Head(todo), db[Home])]
      /\ todo' = (IF Head(todo) = "index" THEN IndexSteps(db[Home]) ELSE <<>>) \o Tail(todo)
      /\ enforced' = CASE Head(todo) = "relax" -> FALSE
                       [] Head(todo) = "enforce" -> TRUE
                       [] OTHER -> enforced
  BY DEF Upgrade
<1>5. todo' \in Seq(Steps)
  <2>1. IndexSteps(db[Home]) \in Seq(Steps) /\ <<>> \in Seq(Steps)
    BY IndexList
  <2>2. \A p \in Seq(Steps) : p \o Tail(todo) \in Seq(Steps)
    BY <1>2, Joined
  <2> QED
    BY <1>4, <2>1, <2>2
<1>6. enforced' \in BOOLEAN
  BY <1>1, <1>4
<1> QED
  BY <1>1, <1>2, <1>3, <1>4, <1>5, <1>6

\* Every step of the start keeps the types.
LEMMA BootTypes ==
  ASSUME TypeInv, Boot
  PROVE  TypeInv'
<1>1. /\ UNCHANGED <<restoring, trail, th, acked, done, strain, begun>>
      /\ mishaps' \in {mishaps, mishaps + 1}
  BY DEF Boot, history
<1>2. app # "up"
  BY DEF Boot, Resolve, Export, ReplacePlain, Open, Upgrade, Serve, OpenFails
<1>3. /\ ~ready /\ pool = <<>> /\ \A t \in Threads : th[t] = Idle
      /\ app \in Boots => Home \in Homes /\ db[Home] \in Databases
  BY <1>2, Starting
<1>4. CASE StartFails
  BY <1>1, <1>2, <1>3, <1>4
  DEF StartFails, TypeInv, stores, links, Boots, ThreadsOK
<1>5. CASE Resolve
  <2>1. Resolved \in Homes
    BY DEF TypeInv, Resolved, Named, Homes
  <2>2. /\ cache' = [gen |-> gen, home |-> Resolved] /\ app' \in {"export", "open"}
        /\ UNCHANGED <<stores, reach, gen, pool, todo, enforced, ready>>
    BY <1>5 DEF Resolve
  <2>3. cache' \in [gen : Nat, home : Place] /\ cache'.home \in Homes /\ cache'.gen = gen
    BY <2>1, <2>2 DEF TypeInv, Place
  <2> QED
    BY <1>1, <1>3, <2>2, <2>3 DEF TypeInv, stores, Boots, ThreadsOK
<1>6. CASE Export /\ ~StartFails
  <2>1. /\ export' = export \cup {Home} /\ app' = "replace" /\ app = "export"
        /\ UNCHANGED <<db, setting, snaps, reach, links, todo, enforced, ready>>
    BY <1>6 DEF Export
  <2> QED
    BY <1>1, <1>3, <2>1 DEF TypeInv, links, Boots, ThreadsOK
<1>7. CASE ReplacePlain
  <2>1. /\ db' = [db EXCEPT ![Home].sealed = TRUE] /\ export' = export \ {Home}
        /\ app' = "open" /\ app = "replace"
        /\ UNCHANGED <<setting, snaps, reach, links, todo, enforced, ready>>
    BY <1>7 DEF ReplacePlain
  <2>2. db' \in [Homes -> Databases]
    <3>1. \A d \in Databases : [d EXCEPT !.sealed = TRUE] \in Databases
      BY DEF Databases
    <3> QED
      BY <1>3, <2>1, <3>1 DEF TypeInv, Boots
  <2> QED
    BY <1>1, <1>3, <2>1, <2>2 DEF TypeInv, links, Boots, ThreadsOK
<1>8. CASE Open /\ ~StartFails
  <2>1. app' = "upgrade" /\ app = "open"
    BY <1>8 DEF Open
  <2>2. /\ todo' \in Seq(Steps) /\ enforced' = TRUE /\ Kept
        /\ UNCHANGED <<export, setting, reach, links, ready>>
    BY <1>8, <2>1, OpenTypes
  <2> QED
    BY <1>1, <1>3, <2>1, <2>2 DEF TypeInv, links, Boots, ThreadsOK, Kept
<1>9. CASE Upgrade
  <2>1. /\ db' \in [Homes -> Databases] /\ todo' \in Seq(Steps) /\ enforced' \in BOOLEAN
    BY <1>9, UpgradeTypes
  <2>2. UNCHANGED <<export, setting, snaps, reach, links, app, ready>>
    BY <1>9 DEF Upgrade
  <2> QED
    BY <1>1, <1>3, <2>1, <2>2 DEF TypeInv, links, Boots, ThreadsOK
<1>10. CASE Serve
  <2> DEFINE c == [gen |-> gen, home |-> Home, keys |-> enforced]
             P == [gen : Nat, home : Homes, keys : BOOLEAN]
  <2>1. /\ pool' = Append(<<>>, c) /\ ready' = TRUE /\ app' = "up" /\ app = "upgrade"
        /\ UNCHANGED <<stores, reach, gen, cache, todo, enforced>>
    BY <1>3, <1>10 DEF Serve
  <2>2. c \in P
    BY <1>3, <2>1 DEF TypeInv, Boots
  <2> HIDE DEF c, P
  <2>3. pool' \in Seq(P) /\ Len(pool') = 1
    BY <2>1, <2>2
  <2> QED
    BY <1>1, <1>3, <2>1, <2>3 DEF TypeInv, stores, Boots, ThreadsOK, P, PoolSize
<1> QED
  BY <1>4, <1>5, <1>6, <1>7, <1>8, <1>9, <1>10 DEF Boot, OpenFails

\* The first state has its types.
LEMMA InitTypes ==
  ASSUME Init
  PROVE  TypeInv
<1>1. db \in [Homes -> Databases]
  <2>1. PICK s \in Sources : db = [h \in Homes |-> IF h = "local" THEN s[1] ELSE s[2]]
    BY DEF Init
  <2>2. s[1] \in Databases /\ s[2] \in Databases
    <3>1. ASSUME NEW x \in Databases, NEW y \in Databases, s = <<x, y>>
          PROVE  s[1] \in Databases /\ s[2] \in Databases
      BY <3>1
    <3>2. /\ Missing \in Databases /\ Recent \in Databases /\ Old \in Databases
          /\ [Old EXCEPT !.sealed = FALSE] \in Databases
      BY Originals
    <3>3. \/ s = <<Missing, Recent>> \/ s = <<Recent, Old>>
          \/ s = <<[Old EXCEPT !.sealed = FALSE], Missing>>
      BY DEF Sources
    <3> QED
      BY <3>1, <3>2, <3>3
  <2> QED
    BY <2>1, <2>2
<1>2. None \in [gen : Nat, home : Place] /\ None.gen = 0
  BY DEF None, Place
<1>3. <<>> \in Seq([gen : Nat, home : Homes, keys : BOOLEAN]) /\ Len(<<>>) = 0
      /\ <<>> \in Seq(Steps)
  OBVIOUS
<1>4. NoTrail \in [file : BOOLEAN, broken : BOOLEAN, events : SUBSET Nat]
      /\ NoTrail.events = {} /\ IsFiniteSet({})
  BY FS_EmptySet DEF NoTrail
<1>5. Idle \in ThreadStates /\ Shape(Idle)
  BY DEF Idle, ThreadStates, Place, Shape, TaskPCs, Nexts, LookupPCs, MovePCs, RecordPCs
<1>6. ThreadsOK /\ \A t \in Threads : th[t] = Idle
  BY <1>5 DEF Init, ThreadsOK
<1>7. /\ snaps = {} /\ export = {} /\ setting = "local" /\ reach = {"local", "shared"}
      /\ gen = 1 /\ cache = None /\ pool = <<>> /\ restoring = FALSE /\ app = "down"
      /\ todo = <<>> /\ enforced = FALSE /\ ready = FALSE /\ trail = [h \in Homes |-> NoTrail]
      /\ acked = {} /\ strain = {} /\ begun = 0 /\ mishaps = 0
  BY DEF Init, Homes
<1>8. trail \in [Homes -> [file : BOOLEAN, broken : BOOLEAN, events : SUBSET Nat]]
      /\ \A h \in Homes : IsFiniteSet(trail[h].events)
  BY <1>4, <1>7
<1>9. /\ snaps \subseteq Databases /\ export \subseteq Homes /\ setting \in Homes \cup {"torn"}
      /\ reach \in SUBSET Homes /\ "local" \in reach /\ gen \in Nat \ {0}
  BY <1>7 DEF Homes
<1>10. LinksOK
  BY <1>2, <1>3, <1>7 DEF LinksOK, PoolSize
<1> QED
  BY <1>1, <1>3, <1>6, <1>7, <1>8, <1>9, <1>10 DEF TypeInv, LinksOK, Boots

\* After a crash there is no pool, no cached path and no command, and a journal
\* that a command was writing to may be cut short.
LEMMA CrashTypes ==
  ASSUME TypeInv, Crash
  PROVE  TypeInv' /\ Grows /\ th' = [t \in Threads |-> Idle]
<1>1. TrailOK' /\ Grows
  <2>1. TrailOK
    BY DEF TypeInv, TrailOK
  <2>2. CASE trail' = trail
    BY <2>1, <2>2 DEF TrailOK, Grows
  <2>3. ASSUME NEW t \in Threads, At(t, "append"),
               trail' = [trail EXCEPT ![Head(th[t].left)] = Torn(@)]
        PROVE  TrailOK' /\ Grows
    <3> DEFINE h == Head(th[t].left)
               J == [file : BOOLEAN, broken : BOOLEAN, events : SUBSET Nat]
               n == [trail[h] EXCEPT !.file = TRUE, !.broken = TRUE]
    <3>1. h \in Homes
      <4>1. th[t].left \in Seq(Homes) /\ th[t].left # <<>>
        BY <2>3, RecordTypes DEF At, RecordPCs
      <4> QED
        BY <4>1, NextJournalOf
    <3>2. trail[h] \in J /\ trail' = [trail EXCEPT ![h] = n]
      BY <2>1, <2>3, <3>1 DEF TrailOK, Torn
    <3>3. n \in J /\ n.events = trail[h].events /\ n.broken
      BY <3>2
    <3> HIDE DEF n, h, J
    <3>4. trail' \in [Homes -> J]
      BY <2>1, <3>1, <3>2, <3>3 DEF TrailOK, J
    <3>5. \A g \in Homes : /\ trail'[g].events = trail[g].events
                           /\ trail[g].broken => trail'[g].broken
      BY <2>1, <3>1, <3>2, <3>3 DEF TrailOK
    <3> QED
      BY <2>1, <3>4, <3>5 DEF TrailOK, Grows, J
  <2> QED
    BY <2>2, <2>3 DEF Crash
<1>2. None \in [gen : Nat, home : Place] /\ None.gen = 0
  BY DEF None, Place
<1>3. <<>> \in Seq([gen : Nat, home : Homes, keys : BOOLEAN]) /\ Len(<<>>) = 0
      /\ <<>> \in Seq(Steps)
  OBVIOUS
<1>4. Idle \in ThreadStates /\ Shape(Idle)
  BY DEF Idle, ThreadStates, Place, Shape, TaskPCs, Nexts, LookupPCs, MovePCs, RecordPCs
<1>5. /\ app' = "down" /\ todo' = <<>> /\ enforced' = FALSE /\ ready' = FALSE
      /\ gen' = 1 /\ cache' = None /\ pool' = <<>> /\ restoring' = FALSE
      /\ th' = [t \in Threads |-> Idle] /\ mishaps' = mishaps + 1
      /\ UNCHANGED <<db, export, setting, snaps, reach, acked, done, begun>>
      /\ strain' \subseteq strain \cup {"unfilled"}
  BY DEF Crash, stores, history
<1>6. ThreadsOK' /\ \A t \in Threads : th'[t] = Idle
  BY <1>4, <1>5 DEF ThreadsOK
<1>7. LinksOK'
  BY <1>2, <1>3, <1>5 DEF LinksOK, PoolSize
<1>8. todo' \in Seq(Steps) /\ mishaps' \in Nat
  BY <1>3, <1>5 DEF TypeInv
<1>9. TypeInv'
  BY <1>1, <1>5, <1>6, <1>7, <1>8 DEF TypeInv, LinksOK, TrailOK, Boots
<1> QED
  BY <1>1, <1>5, <1>9

\* What a command that begins is.
LEMMA BeginEffect ==
  ASSUME TypeInv, NEW t \in Threads, Begin(t)
  PROVE  /\ Typed(t) /\ th[t].pc = "idle"
         /\ th'[t].fresh = ~restoring /\ th'[t].gen = 0 /\ th'[t].seen = 0
         /\ th'[t].home = "none" /\ th'[t].conn = "none" /\ th'[t].mode = "none"
         /\ \/ th'[t].task = "write" /\ th'[t].pc = "check" /\ th'[t].then = "none"
            \/ th'[t].task = "reset" /\ th'[t].pc = "resolve" /\ th'[t].then = "snapshot"
            \/ /\ th'[t].task = "move" /\ th'[t].pc = "resolve" /\ th'[t].then = "lock"
               /\ th'[t].to \in Homes
<1> DEFINE new == [Idle EXCEPT !.id = begun + 1, !.fresh = ~restoring]
<1>1. /\ new \in ThreadStates /\ new.fresh = ~restoring /\ new.gen = 0 /\ new.seen = 0
      /\ new.home = "none" /\ new.conn = "none" /\ new.mode = "none" /\ new.then = "none"
      /\ new.to = "none" /\ new.left = <<>> /\ new.entries = 0 /\ new.task = "none"
  <2>3. begun + 1 \in Nat
    BY DEF TypeInv
  <2>4. (~restoring) \in BOOLEAN
    OBVIOUS
  <2>1. begun + 1 \in Nat /\ (~restoring) \in BOOLEAN
    BY <2>3, <2>4
  <2>2. /\ Idle \in ThreadStates /\ Idle.gen = 0 /\ Idle.seen = 0 /\ Idle.home = "none"
        /\ Idle.conn = "none" /\ Idle.mode = "none" /\ Idle.then = "none" /\ Idle.to = "none"
        /\ Idle.left = <<>> /\ Idle.entries = 0 /\ Idle.task = "none"
    BY DEF Idle, ThreadStates, Place
  <2> QED
    BY <2>1, <2>2 DEF ThreadStates
<1>2. ThreadsOK /\ th[t].pc = "idle"
  BY DEF TypeInv, Begin, At
<1> HIDE DEF new
<1>3. CASE th' = [th EXCEPT ![t] = [new EXCEPT !.task = "write", !.pc = "check"]]
  <2> DEFINE o == [new EXCEPT !.task = "write", !.pc = "check"]
  <2>1. o \in ThreadStates
    BY <1>1 DEF ThreadStates, UsePCs
  <2>2. /\ o.pc = "check" /\ o.task = "write" /\ o.fresh = ~restoring /\ o.gen = 0 /\ o.seen = 0
        /\ o.home = "none" /\ o.conn = "none" /\ o.mode = "none" /\ o.then = "none"
    BY <1>1 DEF ThreadStates
  <2> HIDE DEF o
  <2>3. Shape(o)
    BY <2>2, Places DEF Shape, UsePCs, LookupPCs, MovePCs, RecordPCs
  <2>4. th' = [th EXCEPT ![t] = o]
    BY <1>3 DEF o
  <2> QED
    BY <1>2, <2>1, <2>2, <2>3, <2>4, Becomes
<1>4. CASE th' = [th EXCEPT ![t] = [new EXCEPT !.task = "reset", !.pc = "resolve",
                                              !.then = "snapshot"]]
  <2> DEFINE o == [new EXCEPT !.task = "reset", !.pc = "resolve", !.then = "snapshot"]
  <2>1. o \in ThreadStates
    BY <1>1 DEF ThreadStates, LookupPCs
  <2>2. /\ o.pc = "resolve" /\ o.task = "reset" /\ o.fresh = ~restoring /\ o.gen = 0
        /\ o.seen = 0 /\ o.home = "none" /\ o.conn = "none" /\ o.mode = "none"
        /\ o.then = "snapshot"
    BY <1>1 DEF ThreadStates
  <2> HIDE DEF o
  <2>3. Shape(o)
    BY <2>2, Places DEF Shape, UsePCs, LookupPCs, MovePCs, RecordPCs
  <2>4. th' = [th EXCEPT ![t] = o]
    BY <1>4 DEF o
  <2> QED
    BY <1>2, <2>1, <2>2, <2>3, <2>4, Becomes
<1>5. ASSUME NEW h \in Homes,
             th' = [th EXCEPT ![t] = [new EXCEPT !.task = "move", !.pc = "resolve",
                                                 !.then = "lock", !.to = h]]
      PROVE  Typed(t) /\ th'[t].fresh = ~restoring /\ th'[t].gen = 0 /\ th'[t].seen = 0
             /\ th'[t].home = "none" /\ th'[t].conn = "none" /\ th'[t].mode = "none"
             /\ th'[t].task = "move" /\ th'[t].pc = "resolve" /\ th'[t].then = "lock"
             /\ th'[t].to \in Homes
  <2> DEFINE o == [new EXCEPT !.task = "move", !.pc = "resolve", !.then = "lock", !.to = h]
  <2>1. o \in ThreadStates
    BY <1>1, <1>5 DEF ThreadStates, LookupPCs, Place
  <2>2. /\ o.pc = "resolve" /\ o.task = "move" /\ o.fresh = ~restoring /\ o.gen = 0
        /\ o.seen = 0 /\ o.home = "none" /\ o.conn = "none" /\ o.mode = "none"
        /\ o.then = "lock" /\ o.to = h
    BY <1>1 DEF ThreadStates
  <2> HIDE DEF o
  <2>3. Shape(o)
    BY <1>5, <2>2, Places DEF Shape, UsePCs, LookupPCs, MovePCs, RecordPCs
  <2>4. th' = [th EXCEPT ![t] = o]
    BY <1>5 DEF o
  <2> QED
    BY <1>2, <1>5, <2>1, <2>2, <2>3, <2>4, Becomes
<1>6. \/ th' = [th EXCEPT ![t] = [new EXCEPT !.task = "write", !.pc = "check"]]
      \/ th' = [th EXCEPT ![t] = [new EXCEPT !.task = "reset", !.pc = "resolve",
                                             !.then = "snapshot"]]
      \/ \E h \in Homes : th' = [th EXCEPT ![t] = [new EXCEPT !.task = "move", !.pc = "resolve",
                                                              !.then = "lock", !.to = h]]
  BY DEF Begin, new
<1> QED
  BY <1>2, <1>3, <1>4, <1>5, <1>6

\* Every step keeps the types.
LEMMA NextTypes ==
  ASSUME TypeInv, [Next]_vars
  PROVE  TypeInv'
<1>1. ASSUME NEW t \in Threads, Begin(t) PROVE TypeInv'
  <2>1. ThreadsOK' /\ ready
    BY <1>1, BeginEffect DEF Typed, Begin
  <2>2. /\ UNCHANGED <<stores, reach, links, restoring, starting, trail, history, mishaps>>
        /\ begun' = begun + 1 /\ strain' \subseteq {"overlap", "unplugged", "unfilled"}
    BY <1>1 DEF Begin, TypeInv
  <2> QED
    BY <2>1, <2>2 DEF TypeInv, stores, links, starting, history
<1>2. ASSUME NEW t \in Threads, Step(t) PROVE TypeInv'
  BY <1>2, StepTypes
<1>3. CASE Boot
  BY <1>3, BootTypes
<1>4. CASE Crash
  BY <1>4, CrashTypes
<1>5. CASE Quit
  BY <1>5 DEF Quit, TypeInv, stores, links, history, bounds, Boots, ThreadsOK
<1>6. CASE Unplug
  <2>1. /\ reach' = {"local"} /\ strain' \subseteq {"overlap", "unplugged", "unfilled"}
        /\ mishaps' = mishaps + 1
        /\ UNCHANGED <<stores, links, restoring, starting, trail, th, history, begun>>
    BY <1>6 DEF Unplug, TypeInv
  <2> QED
    BY <2>1 DEF TypeInv, stores, links, starting, history, ThreadsOK, Homes
<1>7. CASE Plug
  <2>1. /\ reach' = Homes
        /\ UNCHANGED <<stores, links, restoring, starting, trail, th, history, strain, bounds>>
    BY <1>7 DEF Plug
  <2> QED
    BY <2>1 DEF TypeInv, stores, links, starting, history, bounds, ThreadsOK, Homes
<1>8. CASE UNCHANGED vars
  BY <1>8 DEF vars, TypeInv, stores, links, starting, history, bounds, ThreadsOK
<1> QED
  BY <1>1, <1>2, <1>3, <1>4, <1>5, <1>6, <1>7, <1>8 DEF Next

\* Every variable keeps its type, every thread is at a place of its command and
\* knows what it is to know there, and no command runs before the start is through.
THEOREM HomeTypes == Spec => []TypeInv
<1>1. Init => TypeInv
  BY InitTypes
<1>2. TypeInv /\ [Next]_vars => TypeInv'
  BY NextTypes
<1> QED
  BY <1>1, <1>2, PTL DEF Spec
-----------------------------------------------------------------------------
(* The upgrade: the invariant. *)

\* What is in a snapshot stays there.
LEMMA SavedStays ==
  ASSUME snaps \subseteq snaps'
  PROVE  SavedOld => SavedOld'
BY DEF SavedOld

\* A database like one that there was, or like none, keeps what it is to keep.
LEMMA KeptIsWhole ==
  ASSUME Kept, WholeOnes, OldOnes
  PROVE  WholeOnes' /\ OldOnes'
<1>1. \A h \in Homes : Like(db'[h], Missing) \/ \E g \in Homes : Like(db'[h], db[g])
  BY DEF Kept, LikeBefore
<1>2. Missing.version # SCHEMA_USER_VERSION /\ Missing.origin # "old"
  BY Originals DEF SCHEMA_USER_VERSION
<1>3. SavedOld => SavedOld'
  BY SavedStays DEF Kept
<1>4. ASSUME NEW h \in Homes
      PROVE  (db'[h].version = SCHEMA_USER_VERSION => Whole(db'[h])) /\ KeepsOld(db[h])'
  <2>1. CASE Like(db'[h], Missing)
    BY <1>2, <2>1 DEF Like, KeepsOld
  <2>2. ASSUME NEW g \in Homes, Like(db'[h], db[g])
        PROVE  (db'[h].version = SCHEMA_USER_VERSION => Whole(db'[h])) /\ KeepsOld(db[h])'
    <3>1. (db[g].version = SCHEMA_USER_VERSION => Whole(db[g])) /\ KeepsOld(db[g])
      BY DEF WholeOnes, OldOnes
    <3>2. db'[h].version = SCHEMA_USER_VERSION => Whole(db'[h])
      BY <2>2, <3>1 DEF Like, Whole
    <3>3. \A e \in Staff : Known(db'[h], e) = Known(db[g], e)
      BY <2>2 DEF Like, Known
    <3>4. KeepsOld(db[h])'
      BY <1>3, <2>2, <3>1, <3>3 DEF Like, KeepsOld
    <3> QED
      BY <3>2, <3>4
  <2> QED
    BY <1>1, <2>1, <2>2
<1> QED
  BY <1>4 DEF WholeOnes, OldOnes

\* The databases that there may be at first.
LEMMA FirstDatabases ==
  ASSUME Init
  PROVE  \A h \in Homes : db[h] \in {Missing, Recent, Old, [Old EXCEPT !.sealed = FALSE]}
<1>1. PICK s \in Sources : db = [h \in Homes |-> IF h = "local" THEN s[1] ELSE s[2]]
  BY DEF Init
<1>2. \/ s = <<Missing, Recent>> \/ s = <<Recent, Old>>
      \/ s = <<[Old EXCEPT !.sealed = FALSE], Missing>>
  BY DEF Sources
<1>3. ASSUME NEW x, NEW y, s = <<x, y>> PROVE s[1] = x /\ s[2] = y
  BY <1>3
<1>4. \/ s[1] = Missing /\ s[2] = Recent
      \/ s[1] = Recent /\ s[2] = Old
      \/ s[1] = [Old EXCEPT !.sealed = FALSE] /\ s[2] = Missing
  BY <1>2, <1>3
<1> QED
  BY <1>1, <1>4

\* They are as the upgrade expects them.
LEMMA InitWhole ==
  ASSUME Init
  PROVE  UpgradeInv
<1>1. \A h \in Homes : db[h] \in {Missing, Recent, Old, [Old EXCEPT !.sealed = FALSE]}
  BY FirstDatabases
<1>2. /\ Missing.version = 0 /\ Missing.origin = "fresh"
      /\ Recent.version = 0 /\ Recent.origin = "recent"
      /\ Old.version = 0
      /\ [Old EXCEPT !.sealed = FALSE].version = 0
      /\ [Old EXCEPT !.sealed = FALSE].has = Old.has
      /\ [Old EXCEPT !.sealed = FALSE].azure = Old.azure
  <2>1. Blank \in Databases /\ Blank.version = 0
    BY Originals
  <2>2. Recent.version = 0 /\ Recent.origin = "recent"
    BY <2>1 DEF Recent, Databases
  <2>3. Old.version = 0 /\ Old \in Databases
    BY <2>1, Originals DEF Old, Databases
  <2>4. ASSUME NEW d \in Databases
        PROVE  /\ [d EXCEPT !.sealed = FALSE].version = d.version
               /\ [d EXCEPT !.sealed = FALSE].has = d.has
               /\ [d EXCEPT !.sealed = FALSE].azure = d.azure
    BY DEF Databases
  <2> QED
    BY <2>2, <2>3, <2>4, Originals
<1>3. WholeOnes
  <2>1. \A h \in Homes : db[h].version = 0
    BY <1>1, <1>2
  <2> QED
    BY <2>1 DEF WholeOnes, SCHEMA_USER_VERSION
<1>4. OldOnes
  <2>1. ASSUME NEW h \in Homes PROVE KeepsOld(db[h])
    <3>1. db[h].origin # "old" \/ (db[h].has = Old.has /\ db[h].azure = Old.azure)
      BY <1>1, <1>2
    <3> QED
      BY <3>1 DEF KeepsOld, Known
  <2> QED
    BY <2>1 DEF OldOnes
<1>5. KeysOn /\ Underway
  BY DEF Init, KeysOn, Underway
<1> QED
  BY <1>3, <1>4, <1>5 DEF UpgradeInv

\* The connection is opened: the list of steps is complete, and a database of the
\* old release is in a snapshot.
LEMMA OpenUnderway ==
  ASSUME TypeInv, UpgradeInv, Open, app' = "upgrade"
  PROVE  UpgradeInv'
<1>1. /\ db' = Opened(Home) /\ todo' = UpgradeSteps(db'[Home]) /\ enforced' = TRUE
      /\ Home \in Homes /\ Kept /\ UNCHANGED <<cache, pool>>
      /\ snaps' = snaps \cup {db'[h] : h \in {g \in {Home} :
                               /\ db'[g].version < SCHEMA_USER_VERSION
                               /\ "tables" \in db'[g].has}}
  BY OpenTypes DEF links
<1>2. WholeOnes' /\ OldOnes' /\ KeysOn'
  BY <1>1, KeptIsWhole DEF UpgradeInv, KeysOn
<1> DEFINE d == db'[Home]
<1>3. d \in Databases /\ d.file /\ Home' = Home
  BY <1>1, OpenedFacts, Originals DEF TypeInv, Kept, Home
<1>4. KeepsOld(db[Home])' /\ (d.version = SCHEMA_USER_VERSION => Whole(d))
  BY <1>1, <1>2, <1>3 DEF OldOnes, WholeOnes
<1>5. (d.origin = "old" => SavedOld' \/ (d.has = Old.has /\ d.azure = Old.azure))
  BY <1>3, <1>4 DEF KeepsOld
<1>6. Old.has = OldParts
  BY Originals DEF Old, Databases
<1>7. CASE d.version < SCHEMA_USER_VERSION
  <2>1. /\ Ordered(todo')
        /\ \A x \in Steps \ IndexWork : Occurs(todo', x)
    BY <1>1, <1>7, UpgradeList
  <2>2. \A p \in Required \ Signing : Occurs(todo', BroughtBy[p])
    BY <2>1, Bringers DEF Steps, IndexWork
  <2>3. \A p \in Relics : Occurs(todo', RemovedBy[p])
    BY <2>1, Removers DEF Steps, IndexWork, Relics
  <2>4. Occurs(todo', "mergeValues") /\ Occurs(todo', "copyValues")
    BY <2>1 DEF Steps, IndexWork
  <2>5. d.origin = "old" => SavedOld'
    <3>1. CASE d.has = Old.has /\ d.azure = Old.azure
      <4>1. "tables" \in d.has
        BY <1>6, <3>1 DEF OldParts
      <4>2. d \in snaps'
        BY <1>1, <1>7, <4>1
      <4> QED
        BY <3>1, <4>2 DEF SavedOld
    <3> QED
      BY <1>5, <3>1
  <2>6. ~(d.version = SCHEMA_USER_VERSION)
    BY <1>7 DEF SCHEMA_USER_VERSION
  <2>7. WholeInTheEnd(db[Home])'
    BY <1>3, <2>2, <2>3 DEF WholeInTheEnd, Remains, Relics
  <2>8. Copied(db[Home])'
    BY <2>4 DEF Copied, Remains
  <2>9. Underway'
    BY <1>1, <1>3, <2>1, <2>5, <2>6, <2>7, <2>8 DEF Underway
  <2> QED
    BY <1>2, <2>9 DEF UpgradeInv
<1>8. CASE ~(d.version < SCHEMA_USER_VERSION)
  <2>1. Ordered(todo') /\ \A x : Occurs(todo', x) <=> x \in {"index", "codes"}
    BY <1>1, <1>8, RepairList
  <2>2. d.version = SCHEMA_USER_VERSION
    BY <1>3, <1>8 DEF Databases, SCHEMA_USER_VERSION
  <2>3. Whole(d)
    BY <1>4, <2>2
  <2>4. d.origin = "old" => SavedOld'
    BY <1>5, <1>6, <2>3 DEF Whole, OldParts
  <2>5. WholeInTheEnd(db[Home])'
    BY <1>3, <2>3 DEF WholeInTheEnd, Whole
  <2>6. ~Occurs(todo', "dropValues") /\ ~Occurs(todo', "seed")
    BY <2>1
  <2>7. Copied(db[Home])'
    BY <2>6 DEF Copied, Remains
  <2>8. Underway'
    BY <1>1, <1>3, <2>1, <2>4, <2>5, <2>6, <2>7 DEF Underway, Remains
  <2> QED
    BY <1>2, <2>8 DEF UpgradeInv
<1> QED
  BY <1>7, <1>8

\* What employees are known by survives each step on their accounts: the old value
\* has been copied when it is dropped.
LEMMA AccountsKept ==
  ASSUME TypeInv, Upgrade, Copied(db[Home]), Ordered(todo)
  PROVE  Copied(db[Home])' /\ \A e \in Staff : Known(db'[Home], e) = Known(db[Home], e)
<1> DEFINE step == Head(todo)
           rest == Tail(todo)
           d == db[Home]
           a == db[Home].azure
           b == db'[Home].azure
<1>1. /\ db' = [db EXCEPT ![Home] = After(step, d)] /\ Home \in Homes /\ d \in Databases
      /\ db' \in [Homes -> Databases] /\ step \in Steps /\ todo \in Seq(Steps) /\ todo # <<>>
      /\ todo' = (IF step = "index" THEN IndexSteps(d) ELSE <<>>) \o rest
      /\ Home' = Home
  BY UpgradeTypes DEF TypeInv, Upgrade, links, Home
<1>2. db'[Home] = After(step, d) /\ a \in [Staff -> Account] /\ b \in [Staff -> Account]
  BY <1>1 DEF TypeInv, Databases
<1>3. /\ rest \in Seq(Steps) /\ \A x : Occurs(todo, x) <=> step = x \/ Occurs(rest, x)
      /\ step = "dropValues" => ~Occurs(rest, "mergeValues") /\ ~Occurs(rest, "copyValues")
  BY <1>1, FirstDone DEF Ordered
<1>4. \A x \in {"dropValues", "mergeValues", "copyValues"} : Occurs(todo', x) <=> Occurs(rest, x)
  <2>1. CASE step = "index"
    <3>1. \A x \in {"dropValues", "mergeValues", "copyValues"} : ~Occurs(IndexSteps(d), x)
      BY IndexList DEF IndexWork
    <3>2. todo' = IndexSteps(d) \o rest /\ IndexSteps(d) \in Seq(Steps)
      BY <1>1, <2>1, IndexList
    <3> QED
      BY <1>3, <3>1, <3>2, Joined
  <2>2. CASE step # "index"
    BY <1>1, <1>3, <2>2
  <2> QED
    BY <2>1, <2>2
<1>5. \A e \in Staff : /\ step = "mergeValues" => b[e] = Merged(a[e])
                       /\ step = "copyValues" => b[e] = Filling(a[e])
                       /\ step = "dropValues" => b[e] = Dropped(a[e])
                       /\ step \notin {"mergeValues", "copyValues", "dropValues"} => b[e] = a[e]
  <2>2. step = "mergeValues" => \A e \in Staff : b[e] = Merged(a[e])
    BY <1>1, <1>2, EachAccountAfter
  <2>3. step = "copyValues" => \A e \in Staff : b[e] = Filling(a[e])
    BY <1>1, <1>2, EachAccountAfter
  <2>4. step = "dropValues" => \A e \in Staff : b[e] = Dropped(a[e])
    BY <1>1, <1>2, EachAccountAfter
  <2>5. step \notin {"mergeValues", "copyValues", "dropValues"} => b = a
    BY <1>1, <1>2, AfterFacts DEF AfterOK
  <2> QED
    BY <2>2, <2>3, <2>4, <2>5
<1>6. Occurs(todo, "dropValues") =>
        /\ Occurs(todo, "mergeValues") \/
             \A e \in Staff : Filled(a[e].old) /\ a[e].new # "none" => a[e].new = a[e].old
        /\ Occurs(todo, "copyValues") \/
             \A e \in Staff : Filled(a[e].old) => a[e].new # "none"
  BY DEF Copied, Remains
<1>7. \A e \in Staff : a[e] \in Account
  BY <1>2
<1> HIDE DEF step, rest, d, a, b
<1>8. ASSUME NEW x \in Account
      PROVE  /\ Merged(x).old = x.old /\ Filling(x).old = x.old /\ Dropped(x).old = "none"
             /\ Dropped(x).new = x.new
             /\ Merged(x).new = IF Filled(x.old) /\ x.new # "none" THEN x.old ELSE x.new
             /\ Filling(x).new = IF Filled(x.old) /\ x.new = "none" THEN x.old ELSE x.new
  BY DEF Account, Merged, Filling, Dropped
<1>9. ~Filled("none") /\ \A v : Filled(v) => v # "none"
  BY DEF Filled
<1>10. Occurs(rest, "dropValues") =>
         /\ Occurs(rest, "mergeValues") \/
              \A e \in Staff : Filled(b[e].old) /\ b[e].new # "none" => b[e].new = b[e].old
         /\ Occurs(rest, "copyValues") \/
              \A e \in Staff : Filled(b[e].old) => b[e].new # "none"
  <2> SUFFICES ASSUME Occurs(rest, "dropValues")
               PROVE  /\ Occurs(rest, "mergeValues") \/
                           \A e \in Staff : Filled(b[e].old) /\ b[e].new # "none" =>
                                              b[e].new = b[e].old
                      /\ Occurs(rest, "copyValues") \/
                           \A e \in Staff : Filled(b[e].old) => b[e].new # "none"
    OBVIOUS
  <2>1. CASE step = "mergeValues"
    <3>1. \A e \in Staff : Filled(b[e].old) /\ b[e].new # "none" => b[e].new = b[e].old
      BY <1>5, <1>7, <1>8, <1>9, <2>1
    <3>2. \A e \in Staff : (Filled(a[e].old) => a[e].new # "none") =>
                             (Filled(b[e].old) => b[e].new # "none")
      BY <1>5, <1>7, <1>8, <1>9, <2>1
    <3>3. \A e \in Staff : Filled(b[e].old) => Filled(a[e].old)
      BY <1>5, <1>7, <1>8, <2>1
    <3> QED
      BY <1>3, <1>6, <2>1, <3>1, <3>2, <3>3
  <2>2. CASE step = "copyValues"
    <3>1. \A e \in Staff : Filled(b[e].old) => b[e].new # "none"
      BY <1>5, <1>7, <1>8, <1>9, <2>2
    <3>2. \A e \in Staff : (Filled(a[e].old) /\ a[e].new # "none" => a[e].new = a[e].old)
                           => (Filled(b[e].old) /\ b[e].new # "none" => b[e].new = b[e].old)
      BY <1>5, <1>7, <1>8, <1>9, <2>2
    <3> QED
      BY <1>3, <1>6, <2>2, <3>1, <3>2
  <2>3. CASE step = "dropValues"
    BY <1>5, <1>7, <1>8, <1>9, <2>3
  <2>4. CASE step \notin {"mergeValues", "copyValues", "dropValues"}
    BY <1>3, <1>5, <1>6, <2>4
  <2> QED
    BY <2>1, <2>2, <2>3, <2>4
<1>11. Copied(db[Home])'
  BY <1>1, <1>4, <1>10 DEF Copied, Remains, b
<1>12. ASSUME NEW e \in Staff
       PROVE  (IF Filled(b[e].old) THEN b[e].old ELSE b[e].new)
                = (IF Filled(a[e].old) THEN a[e].old ELSE a[e].new)
  <2>1. CASE step = "mergeValues"
    BY <1>5, <1>7, <1>8, <2>1
  <2>2. CASE step = "copyValues"
    BY <1>5, <1>7, <1>8, <2>2
  <2>3. CASE step = "dropValues"
    <3>1. Filled(a[e].old) => a[e].new = a[e].old
      BY <1>1, <1>3, <1>6, <2>3
    <3> QED
      BY <1>5, <1>7, <1>8, <1>9, <2>3, <3>1
  <2>4. CASE step \notin {"mergeValues", "copyValues", "dropValues"}
    BY <1>5, <2>4
  <2> QED
    BY <2>1, <2>2, <2>3, <2>4
<1> QED
  BY <1>11, <1>12 DEF Known, a, b

\* A step of the upgrade: what is still missing is still to come, and what the
\* stamp says is true when it is set.
LEMMA UpgradeUnderway ==
  ASSUME TypeInv, UpgradeInv, Upgrade
  PROVE  UpgradeInv'
<1> DEFINE step == Head(todo)
           rest == Tail(todo)
           d == db[Home]
           e == db'[Home]
           x == IF step = "index" THEN IndexSteps(d) ELSE <<>>
<1>1. /\ db' = [db EXCEPT ![Home] = After(step, d)] /\ Home \in Homes /\ d \in Databases
      /\ db \in [Homes -> Databases] /\ db' \in [Homes -> Databases]
      /\ step \in Steps /\ todo \in Seq(Steps) /\ todo # <<>>
      /\ todo' = x \o rest /\ Home' = Home /\ app = "upgrade" /\ app' = "upgrade"
      /\ snaps' = snaps /\ pool' = pool
  BY UpgradeTypes DEF TypeInv, Upgrade, links, Home
<1>2. /\ e = After(step, d) /\ AfterOK(step, d, e)
      /\ \A h \in Homes \ {Home} : db'[h] = db[h]
  BY <1>1, AfterFacts
<1>3. /\ WholeInTheEnd(d) /\ Ordered(todo) /\ Copied(d)
      /\ d.version = SCHEMA_USER_VERSION => ~Remains("seed")
      /\ enforced \/ Remains("enforce")
      /\ d.origin = "old" => SavedOld
      /\ d.file /\ WholeOnes /\ OldOnes /\ KeysOn
  BY <1>1 DEF UpgradeInv, Underway
<1>4. Copied(db[Home])' /\ \A k \in Staff : Known(e, k) = Known(d, k)
  BY <1>3, AccountsKept
<1>5. /\ rest \in Seq(Steps) /\ Ordered(rest)
      /\ \A y : Occurs(todo, y) <=> step = y \/ Occurs(rest, y)
      /\ step = "seed" => Occurs(rest, "promote")
      /\ step = "relax" => Occurs(rest, "enforce")
      /\ step = "stamp" => \A y \in Steps \ {"codes"} : ~Occurs(rest, y)
  BY <1>1, <1>3, FirstDone DEF Ordered
<1>6. /\ x \in Seq(Steps) /\ Ordered(x)
      /\ \A y : Occurs(x, y) => y \in IndexWork
      /\ step # "index" => x = <<>>
  <2>1. <<>> \in Seq(Steps) /\ \A y : ~Occurs(<<>>, y)
    BY DEF Occurs
  <2>2. Ordered(<<>>)
    BY <2>1, Plain
  <2> QED
    BY <2>1, <2>2, IndexList
<1> HIDE DEF x, rest, step, d, e
<1>7. /\ \A y : Occurs(todo', y) <=> Occurs(x, y) \/ Occurs(rest, y)
      /\ Ordered(todo')
  <2>1. ~Occurs(x, "stamp") /\ ~Occurs(x, "dropValues")
    BY <1>6 DEF IndexWork
  <2> QED
    BY <1>1, <1>5, <1>6, <2>1, Joined DEF Ordered
<1>8. \A y : Remains(y) => step = y \/ Occurs(todo', y)
  BY <1>5, <1>7 DEF Remains
<1>9. WholeInTheEnd(db[Home])'
  <2>1. ASSUME NEW p \in Required \ Signing PROVE p \in e.has \/ Occurs(todo', BroughtBy[p])
    <3>1. CASE p \in d.has
      <4>1. p \in e.has \/ (p = "super" /\ step = "seed")
        BY <1>2, <3>1 DEF AfterOK, Improves
      <4>2. BroughtBy["super"] = "promote"
        BY DEF BroughtBy
      <4> QED
        BY <1>5, <1>7, <4>1, <4>2
    <3>2. CASE p \notin d.has
      <4>1. Remains(BroughtBy[p])
        BY <1>3, <3>2 DEF WholeInTheEnd
      <4> QED
        BY <1>2, <1>8, <4>1 DEF AfterOK, Improves
    <3> QED
      BY <3>1, <3>2
  <2>2. ASSUME NEW p \in Relics PROVE p \notin e.has \/ Occurs(todo', RemovedBy[p])
    <3>1. p \in e.has => p \in d.has /\ step # RemovedBy[p]
      BY <1>2 DEF AfterOK, Improves
    <3>2. p \in d.has => Remains(RemovedBy[p])
      BY <1>3 DEF WholeInTheEnd, Relics
    <3> QED
      BY <1>8, <3>1, <3>2
  <2> QED
    BY <1>1, <2>1, <2>2 DEF WholeInTheEnd, Remains, Relics, e
<1>10. e.version = SCHEMA_USER_VERSION => Whole(e) /\ ~Occurs(todo', "seed")
  <2>1. CASE step = "stamp"
    <3>1. \A y \in Steps \ {"codes"} : ~Occurs(todo', y)
      BY <1>5, <1>6, <1>7, <2>1 DEF Occurs
    <3>2. /\ \A p \in Required \ Signing : BroughtBy[p] \in Steps \ {"codes"}
          /\ \A p \in Relics : RemovedBy[p] \in Steps \ {"codes"}
      BY Bringers, Removers DEF Steps, Relics
    <3>3. "seed" \in Steps \ {"codes"}
      BY DEF Steps
    <3>4. /\ \A p \in Required \ Signing : p \in e.has \/ Occurs(todo', BroughtBy[p])
          /\ \A p \in Relics : p \notin e.has \/ Occurs(todo', RemovedBy[p])
      BY <1>1, <1>9 DEF WholeInTheEnd, Remains, Relics, e
    <3> QED
      BY <3>1, <3>2, <3>3, <3>4 DEF Whole, Relics
  <2>2. CASE step # "stamp" /\ d.version = SCHEMA_USER_VERSION
    <3>1. Whole(d) /\ ~Remains("seed")
      BY <1>1, <1>3, <2>2 DEF WholeOnes, d
    <3>2. step # "seed" /\ ~Occurs(rest, "seed") /\ ~Occurs(x, "seed")
      BY <1>5, <1>6, <3>1 DEF Remains, IndexWork
    <3>3. \A p \in Required \ Signing : p \in d.has => p \in e.has
      BY <1>2, <3>2 DEF AfterOK, Improves
    <3>4. \A p \in Relics : p \notin e.has
      BY <1>2, <3>1 DEF AfterOK, Improves, Whole, Relics
    <3> QED
      BY <1>7, <3>1, <3>2, <3>3, <3>4 DEF Whole, Relics
  <2>3. e.version = SCHEMA_USER_VERSION => step = "stamp" \/ d.version = SCHEMA_USER_VERSION
    BY <1>2 DEF AfterOK
  <2> QED
    BY <2>1, <2>2, <2>3
<1>11. enforced' \/ Remains("enforce")'
  <2>1. enforced' = CASE step = "relax" -> FALSE
                      [] step = "enforce" -> TRUE
                      [] OTHER -> enforced
    BY DEF Upgrade, step
  <2> QED
    BY <1>3, <1>5, <1>7, <1>8, <2>1 DEF Remains
<1>12. SavedOld => SavedOld'
  BY <1>1, SavedStays
<1>13. KeepsOld(db[Home])' /\ (e.origin = "old" => SavedOld')
  <2>1. e.origin = d.origin /\ KeepsOld(d)
    BY <1>1, <1>2, <1>3 DEF AfterOK, OldOnes, d
  <2> QED
    BY <1>1, <1>3, <1>4, <1>12, <2>1 DEF KeepsOld, e
<1>14. WholeOnes'
  <2>1. ASSUME NEW h \in Homes PROVE db'[h].version = SCHEMA_USER_VERSION => Whole(db'[h])
    BY <1>2, <1>3, <1>10 DEF WholeOnes, e
  <2> QED
    BY <2>1 DEF WholeOnes
<1>15. OldOnes'
  <2>1. ASSUME NEW h \in Homes, h # Home PROVE KeepsOld(db[h])'
    <3>1. KeepsOld(db[h]) /\ db'[h] = db[h]
      BY <1>2, <1>3, <2>1 DEF OldOnes
    <3> QED
      BY <1>12, <3>1 DEF KeepsOld
  <2> QED
    BY <1>1, <1>13, <2>1 DEF OldOnes
<1>16. Underway'
  <2>1. e.file
    BY <1>2, <1>3 DEF AfterOK
  <2> QED
    BY <1>1, <1>4, <1>7, <1>9, <1>10, <1>11, <1>13, <2>1 DEF Underway, Remains, e
<1>17. KeysOn'
  BY <1>1, <1>3 DEF KeysOn
<1> QED
  BY <1>14, <1>15, <1>16, <1>17 DEF UpgradeInv

\* The other steps of the start.
LEMMA BootWhole ==
  ASSUME TypeInv, UpgradeInv, Boot
  PROVE  UpgradeInv'
<1>1. app # "up"
  BY DEF Boot, Resolve, Export, ReplacePlain, Open, Upgrade, Serve, OpenFails
<1>2. pool = <<>> /\ WholeOnes /\ OldOnes /\ KeysOn
  BY <1>1, Starting DEF UpgradeInv
<1>3. ASSUME db' = db, snaps' = snaps, pool' = pool, app' # "upgrade"
      PROVE  UpgradeInv'
  <2>1. /\ WholeOnes' /\ KeysOn' /\ Underway'
    BY <1>2, <1>3 DEF WholeOnes, KeysOn, Underway
  <2>2. OldOnes'
    BY <1>2, <1>3 DEF OldOnes, KeepsOld, SavedOld
  <2> QED
    BY <2>1, <2>2 DEF UpgradeInv
<1>4. CASE StartFails
  BY <1>3, <1>4 DEF StartFails, stores, links
<1>5. CASE Resolve
  BY <1>3, <1>5 DEF Resolve, stores
<1>6. CASE Export
  BY <1>3, <1>6 DEF Export, StartFails, stores, links
<1>7. CASE ReplacePlain
  <2>1. /\ db' = [db EXCEPT ![Home] = [db[Home] EXCEPT !.sealed = TRUE]]
        /\ snaps' = snaps /\ pool' = pool /\ app' = "open" /\ Home \in Homes
        /\ db[Home] \in Databases
    BY <1>1, <1>7, Starting DEF ReplacePlain, links, Boots
  <2>2. \A d \in Databases : [d EXCEPT !.sealed = TRUE] \in Databases
                             /\ Like([d EXCEPT !.sealed = TRUE], d)
    BY DEF Databases, Like
  <2>3. Kept
    BY <2>1, <2>2, OneChanges
  <2>4. WholeOnes' /\ OldOnes'
    BY <1>2, <2>3, KeptIsWhole
  <2> QED
    BY <1>2, <2>1, <2>4 DEF UpgradeInv, KeysOn, Underway
<1>8. CASE Open
  BY <1>4, <1>8, OpenUnderway DEF Open
<1>9. CASE Upgrade
  BY <1>9, UpgradeUnderway
<1>10. CASE Serve
  <2>1. enforced
    <3>1. enforced \/ Remains("enforce")
      BY <1>10 DEF Serve, UpgradeInv, Underway
    <3>2. todo = <<>>
      BY <1>10 DEF Serve
    <3> QED
      BY <3>1, <3>2 DEF Remains, Occurs
  <2> DEFINE c == [gen |-> gen, home |-> Home, keys |-> enforced]
  <2>2. pool' = Append(<<>>, c) /\ c.keys
    BY <1>2, <1>10, <2>1 DEF Serve
  <2> HIDE DEF c
  <2>3. \A i \in DOMAIN pool' : pool'[i] = c
    BY <2>2
  <2>4. KeysOn'
    BY <2>2, <2>3 DEF KeysOn
  <2>5. db' = db /\ snaps' = snaps /\ app' = "up"
    BY <1>10 DEF Serve, stores
  <2>6. WholeOnes' /\ OldOnes' /\ Underway'
    BY <1>2, <2>5 DEF WholeOnes, OldOnes, KeepsOld, SavedOld, Underway
  <2> QED
    BY <2>4, <2>6 DEF UpgradeInv
<1> QED
  BY <1>4, <1>5, <1>6, <1>7, <1>8, <1>9, <1>10 DEF Boot, OpenFails

\* Every step keeps the invariant of the upgrade.
LEMMA NextWhole ==
  ASSUME TypeInv, UpgradeInv, [Next]_vars
  PROVE  UpgradeInv'
<1>1. WholeOnes /\ OldOnes /\ KeysOn /\ Underway
  BY DEF UpgradeInv
<1>2. ASSUME NEW t \in Threads, Step(t) PROVE UpgradeInv'
  <2>1. Kept
    BY <1>2, StepKeeps
  <2>2. \A i \in DOMAIN pool' : pool'[i].keys \/ (i \in DOMAIN pool /\ pool'[i] = pool[i])
    BY <1>2, StepLinks
  <2>3. app' = "up"
    BY <1>2, NotIdle, Running DEF Step, starting
  <2>4. WholeOnes' /\ OldOnes'
    BY <1>1, <2>1, KeptIsWhole
  <2> QED
    BY <1>1, <2>2, <2>3, <2>4 DEF UpgradeInv, KeysOn, Underway
<1>3. ASSUME db' = db, snaps' = snaps, pool' = pool \/ pool' = <<>>, app' # "upgrade"
      PROVE  UpgradeInv'
  <2>1. WholeOnes' /\ OldOnes' /\ Underway'
    BY <1>1, <1>3 DEF WholeOnes, OldOnes, KeepsOld, SavedOld, Underway
  <2>2. KeysOn'
    BY <1>1, <1>3 DEF KeysOn
  <2> QED
    BY <2>1, <2>2 DEF UpgradeInv
<1>4. ASSUME NEW t \in Threads, Begin(t) PROVE UpgradeInv'
  BY <1>3, <1>4 DEF Begin, stores, links, starting
<1>5. CASE Boot
  BY <1>5, BootWhole
<1>6. CASE Crash \/ Quit
  BY <1>3, <1>6 DEF Crash, Quit, stores, links
<1>7. ASSUME UNCHANGED <<db, snaps, app, todo, enforced, pool, cache>>
      PROVE  UpgradeInv'
  <2>1. WholeOnes' /\ OldOnes' /\ KeysOn'
    BY <1>1, <1>7 DEF WholeOnes, OldOnes, KeepsOld, SavedOld, KeysOn
  <2>2. Underway'
    BY <1>1, <1>7 DEF Underway, WholeInTheEnd, Copied, Remains, SavedOld, Home
  <2> QED
    BY <2>1, <2>2 DEF UpgradeInv
<1>8. CASE Unplug \/ Plug \/ UNCHANGED vars
  BY <1>7, <1>8 DEF Unplug, Plug, vars, stores, links, starting
<1> QED
  BY <1>2, <1>4, <1>5, <1>6, <1>8 DEF Next

\* The upgrade keeps its order, whichever starts were interrupted: what a database does not
\* have yet is among the steps to come.
THEOREM UpgradesHold == Spec => []UpgradeInv
<1>1. Init => TypeInv /\ UpgradeInv
  BY InitTypes, InitWhole
<1>2. TypeInv /\ UpgradeInv /\ [Next]_vars => TypeInv' /\ UpgradeInv'
  BY NextTypes, NextWhole
<1> QED
  BY <1>1, <1>2, PTL DEF Spec

-----------------------------------------------------------------------------
(* The search index: the invariant. *)

\* What a command does to the databases leaves the stamped ones with their index, and
\* makes no empty one: what is empty was so, or is a copy of what was.
LEMMA KeptIsIndexed ==
  ASSUME Kept, IndexInv, app # "upgrade", strain \subseteq strain'
  PROVE  IndexedOnes' /\ \A h \in Homes : db'[h].index = "empty" => "unfilled" \in strain'
<1>1. \A h \in Homes : Like(db'[h], Missing) \/ \E g \in Homes : Like(db'[h], db[g])
  BY DEF Kept, LikeBefore
<1>2. Missing.version # SCHEMA_USER_VERSION /\ Missing.index # "empty"
  BY Originals DEF SCHEMA_USER_VERSION
<1>3. ASSUME NEW h \in Homes
      PROVE  /\ db'[h].version = SCHEMA_USER_VERSION => Indexed(db'[h])
             /\ db'[h].index = "empty" => "unfilled" \in strain'
  <2>1. CASE Like(db'[h], Missing)
    BY <1>2, <2>1 DEF Like
  <2>2. ASSUME NEW g \in Homes, Like(db'[h], db[g])
        PROVE  /\ db'[h].version = SCHEMA_USER_VERSION => Indexed(db'[h])
               /\ db'[h].index = "empty" => "unfilled" \in strain'
    <3>1. /\ db[g].version = SCHEMA_USER_VERSION => Indexed(db[g])
          /\ db[g].index = "empty" => "unfilled" \in strain
      BY DEF IndexInv, IndexedOnes, FilledOnes
    <3> QED
      BY <2>2, <3>1 DEF Like, Indexed
  <2> QED
    BY <1>1, <2>1, <2>2
<1> QED
  BY <1>3 DEF IndexedOnes

\* At first none is stamped, and no index is empty.
LEMMA InitIndexed ==
  ASSUME Init
  PROVE  IndexInv
<1>1. \A h \in Homes : db[h] \in {Missing, Recent, Old, [Old EXCEPT !.sealed = FALSE]}
  BY FirstDatabases
<1>2. /\ Missing.version = 0 /\ Missing.index = "none"
      /\ Recent.version = 0 /\ Recent.index = "full"
      /\ Old.version = 0 /\ Old.index = "stale"
      /\ [Old EXCEPT !.sealed = FALSE].version = 0
      /\ [Old EXCEPT !.sealed = FALSE].index = "stale"
  <2>1. Blank \in Databases /\ Blank.version = 0
    BY Originals
  <2>2. Recent.version = 0 /\ Recent.index = "full"
    BY <2>1 DEF Recent, Databases
  <2>3. Old.version = 0 /\ Old.index = "stale" /\ Old \in Databases
    BY <2>1, Originals DEF Old, Databases
  <2>4. ASSUME NEW d \in Databases
        PROVE  /\ [d EXCEPT !.sealed = FALSE].version = d.version
               /\ [d EXCEPT !.sealed = FALSE].index = d.index
    BY DEF Databases
  <2> QED
    BY <2>2, <2>3, <2>4, Originals
<1>3. \A h \in Homes : db[h].version = 0 /\ db[h].index # "empty"
  BY <1>1, <1>2
<1> QED
  BY <1>3 DEF Init, IndexInv, IndexedOnes, FilledOnes, IndexUnderway, SCHEMA_USER_VERSION

\* The connection is opened: the look at the index is among the steps to come, and
\* nothing that follows from it is yet.
LEMMA OpenIndexed ==
  ASSUME TypeInv, IndexInv, Open, app' = "upgrade", strain' = strain
  PROVE  IndexInv'
<1>1. /\ db' = Opened(Home) /\ todo' = UpgradeSteps(db'[Home])
      /\ Home \in Homes /\ Kept /\ Home' = Home /\ app = "open"
  BY OpenTypes DEF links, Home, Open
<1>2. IndexedOnes' /\ FilledOnes'
  BY <1>1, KeptIsIndexed DEF FilledOnes
<1>3. Occurs(todo', "index") /\ \A x \in IndexWork : ~Occurs(todo', x)
  <2>1. CASE db'[Home].version < SCHEMA_USER_VERSION
    BY <1>1, <2>1, UpgradeList DEF Steps, IndexWork
  <2>2. CASE ~(db'[Home].version < SCHEMA_USER_VERSION)
    BY <1>1, <2>2, RepairList DEF IndexWork
  <2> QED
    BY <2>1, <2>2
<1>4. IndexOrdered(todo')
  BY <1>3, Absent DEF IndexOrdered, IndexWork
<1>5. IndexUnderway'
  BY <1>3, <1>4 DEF IndexUnderway, IndexedInTheEnd, Remains
<1> QED
  BY <1>2, <1>5 DEF IndexInv

\* A step of the upgrade: what the index lacks is still to come, and the stamp is set
\* when nothing of it is left to do.
LEMMA UpgradeIndexed ==
  ASSUME TypeInv, UpgradeInv, IndexInv, Upgrade, strain' = strain
  PROVE  IndexInv'
<1> DEFINE step == Head(todo)
           rest == Tail(todo)
           d == db[Home]
           e == db'[Home]
           x == IF step = "index" THEN IndexSteps(d) ELSE <<>>
<1>1. /\ db' = [db EXCEPT ![Home] = After(step, d)] /\ Home \in Homes /\ d \in Databases
      /\ db \in [Homes -> Databases]
      /\ step \in Steps /\ todo \in Seq(Steps) /\ todo # <<>>
      /\ todo' = x \o rest /\ Home' = Home /\ app = "upgrade" /\ app' = "upgrade"
  BY UpgradeTypes DEF TypeInv, Upgrade, links, Home
<1>2. /\ e = After(step, d) /\ AfterOK(step, d, e)
      /\ \A h \in Homes \ {Home} : db'[h] = db[h]
  BY <1>1, AfterFacts
<1>3. /\ Ordered(todo) /\ IndexOrdered(todo) /\ IndexedInTheEnd(d)
      /\ d.version = SCHEMA_USER_VERSION => \A y \in IndexWork : ~Occurs(todo, y)
      /\ d.version = SCHEMA_USER_VERSION => Indexed(d)
      /\ d.index = "empty" => "unfilled" \in strain \/ Occurs(todo, "fillIndex")
      /\ IndexedOnes /\ FilledOnes
  BY <1>1 DEF UpgradeInv, Underway, IndexInv, IndexUnderway, IndexedOnes, FilledOnes, Remains
<1>4. /\ rest \in Seq(Steps) /\ IndexOrdered(rest)
      /\ \A y : Occurs(todo, y) <=> step = y \/ Occurs(rest, y)
      /\ step = "dropTriggers" => Occurs(rest, "createTriggers")
      /\ step = "dropIndex" => Occurs(rest, "createIndex")
      /\ step = "createIndex" => Occurs(rest, "fillIndex")
      /\ step = "stamp" => \A y \in Steps \ {"codes"} : ~Occurs(rest, y)
  BY <1>1, <1>3, FirstDone DEF Ordered, IndexOrdered
<1>5. /\ x \in Seq(Steps) /\ IndexOrdered(x)
      /\ \A y : Occurs(x, y) => step = "index" /\ y \in IndexWork
      /\ step = "index" /\ d.index \in {"none", "stale"} => Occurs(x, "createIndex")
      /\ step = "index" /\ ~d.triggers => Occurs(x, "createTriggers")
      /\ Indexed(d) => \A y : ~Occurs(x, y)
  <2>1. <<>> \in Seq(Steps) /\ \A y : ~Occurs(<<>>, y)
    BY DEF Occurs
  <2>2. IndexOrdered(<<>>)
    BY <2>1, Absent DEF IndexOrdered
  <2>3. d.index \in {"empty", "full"} => d.index \notin {"none", "stale"}
    OBVIOUS
  <2> HIDE DEF d, step
  <2> QED
    BY <2>1, <2>2, <2>3, IndexList DEF Indexed
<1>6. /\ e.version = IF step = "stamp" THEN SCHEMA_USER_VERSION ELSE d.version
      /\ e.index = CASE step = "dropIndex"   -> "none"
                     [] step = "createIndex" -> "empty"
                     [] step = "fillIndex"   -> "full"
                     [] OTHER                -> d.index
      /\ e.triggers = IF step \in {"dropTriggers", "createTriggers"}
                      THEN step = "createTriggers" ELSE d.triggers
      /\ d.index \in {"none", "stale", "empty", "full"}
  BY <1>1, <1>2 DEF AfterOK, Databases
<1> HIDE DEF x, rest, step, d, e
<1>7. \A y : Occurs(todo', y) <=> Occurs(x, y) \/ Occurs(rest, y)
  BY <1>1, <1>4, <1>5, Joined
<1>8. IndexOrdered(todo')
  BY <1>1, <1>4, <1>5, Joined DEF IndexOrdered
<1>9. e.triggers \/ Occurs(todo', "index") \/ Occurs(todo', "createTriggers")
  <2>1. d.triggers \/ Occurs(todo, "index") \/ Occurs(todo, "createTriggers")
    BY <1>3 DEF IndexedInTheEnd, Remains
  <2>2. CASE step = "dropTriggers"
    BY <1>4, <1>7, <2>2
  <2>3. CASE step = "createTriggers"
    BY <1>6, <2>3
  <2>4. CASE step \notin {"dropTriggers", "createTriggers"}
    BY <1>4, <1>5, <1>6, <1>7, <2>1, <2>4
  <2> QED
    BY <2>2, <2>3, <2>4
<1>10. e.index \in {"empty", "full"} \/ Occurs(todo', "index") \/ Occurs(todo', "createIndex")
  <2>1. d.index \in {"empty", "full"} \/ Occurs(todo, "index") \/ Occurs(todo, "createIndex")
    BY <1>3 DEF IndexedInTheEnd, Remains
  <2>2. CASE step = "dropIndex"
    BY <1>4, <1>7, <2>2
  <2>3. CASE step \in {"createIndex", "fillIndex"}
    BY <1>6, <2>3
  <2>4. CASE step \notin {"dropIndex", "createIndex", "fillIndex"}
    <3>1. e.index = d.index
      BY <1>6, <2>4
    <3> QED
      BY <1>4, <1>5, <1>6, <1>7, <2>1, <2>4, <3>1
  <2> QED
    BY <2>2, <2>3, <2>4
<1>11. e.index = "empty" => "unfilled" \in strain \/ Occurs(todo', "fillIndex")
  <2>1. CASE step \in {"dropIndex", "fillIndex"}
    BY <1>6, <2>1
  <2>2. CASE step = "createIndex"
    BY <1>4, <1>7, <2>2
  <2>3. CASE step \notin {"dropIndex", "createIndex", "fillIndex"}
    <3>1. e.index = d.index
      BY <1>6, <2>3
    <3> QED
      BY <1>3, <1>4, <1>7, <2>3, <3>1
  <2> QED
    BY <2>1, <2>2, <2>3
<1>12. e.version = SCHEMA_USER_VERSION => Indexed(e) /\ \A y \in IndexWork : ~Occurs(todo', y)
  <2>1. CASE step = "stamp"
    <3>1. \A y \in Steps \ {"codes"} : ~Occurs(todo', y)
      BY <1>4, <1>5, <1>7, <2>1
    <3>2. IndexWork \cup {"index"} \subseteq Steps \ {"codes"}
          /\ {"createIndex", "createTriggers"} \subseteq IndexWork
      BY DEF Steps, IndexWork
    <3> QED
      BY <1>9, <1>10, <3>1, <3>2 DEF Indexed
  <2>2. CASE step # "stamp" /\ d.version = SCHEMA_USER_VERSION
    <3>1. Indexed(d) /\ step \notin IndexWork /\ \A y \in IndexWork : ~Occurs(rest, y)
      BY <1>3, <1>4, <2>2
    <3>2. e.index = d.index /\ e.triggers = d.triggers
      BY <1>6, <3>1 DEF IndexWork
    <3> QED
      BY <1>5, <1>7, <3>1, <3>2 DEF Indexed
  <2> QED
    BY <1>6, <2>1, <2>2
<1>13. IndexedOnes'
  <2>1. ASSUME NEW h \in Homes PROVE db'[h].version = SCHEMA_USER_VERSION => Indexed(db'[h])
    BY <1>2, <1>3, <1>12 DEF IndexedOnes, e
  <2> QED
    BY <2>1 DEF IndexedOnes
<1>14. FilledOnes'
  <2>1. ASSUME NEW h \in Homes, h # Home, db'[h].index = "empty" PROVE "unfilled" \in strain
    BY <1>2, <1>3, <2>1 DEF FilledOnes
  <2> QED
    BY <1>1, <1>11, <2>1 DEF FilledOnes, Remains, e
<1>15. IndexUnderway'
  BY <1>1, <1>8, <1>9, <1>10, <1>12 DEF IndexUnderway, IndexedInTheEnd, Remains, e
<1> QED
  BY <1>13, <1>14, <1>15 DEF IndexInv

\* Every step keeps the invariant of the index.
LEMMA NextIndexed ==
  ASSUME TypeInv, UpgradeInv, IndexInv, [Next]_vars
  PROVE  IndexInv'
<1>1. ASSUME NEW t \in Threads, Step(t) PROVE IndexInv'
  <2>1. Kept /\ app = "up" /\ app' = "up" /\ strain' = strain
    BY <1>1, StepKeeps, NotIdle, Running DEF Step, starting
  <2> QED
    BY <2>1, KeptIsIndexed DEF IndexInv, FilledOnes, IndexUnderway
<1>2. ASSUME db' = db, app' # "upgrade", strain \subseteq strain',
             app # "upgrade" \/ ~Remains("fillIndex") \/ "unfilled" \in strain'
             \/ db[Home].index # "empty"
      PROVE  IndexInv'
  <2>1. IndexedOnes' /\ IndexUnderway'
    BY <1>2 DEF IndexInv, IndexedOnes, IndexUnderway
  <2>2. FilledOnes'
    BY <1>2 DEF IndexInv, FilledOnes
  <2> QED
    BY <2>1, <2>2 DEF IndexInv
<1>3. ASSUME UNCHANGED <<db, app, todo, cache>>, strain \subseteq strain' PROVE IndexInv'
  BY <1>3 DEF IndexInv, IndexedOnes, FilledOnes, IndexUnderway, IndexedInTheEnd, Remains, Home
<1>4. CASE Crash
  <2>1. db' = db /\ app' = "down" /\ strain' = strain \cup {s \in {"unfilled"} : HalfIndexed}
    BY <1>4 DEF Crash, stores
  <2>2. app = "upgrade" /\ Remains("fillIndex") /\ db[Home].index = "empty" => HalfIndexed
    BY DEF HalfIndexed, Remains, Occurs
  <2> QED
    BY <1>2, <2>1, <2>2
<1>5. CASE Boot
  <2>1. strain' = strain
    BY <1>5 DEF Boot
  <2>2. CASE StartFails /\ app # "upgrade"
    BY <1>2, <2>1, <2>2 DEF StartFails, stores
  <2>3. CASE Resolve \/ Export \/ OpenFails
    <3>1. db' = db /\ app' # "upgrade" /\ app # "upgrade"
      BY <2>3 DEF Resolve, Export, OpenFails, StartFails, stores
    <3> QED
      BY <1>2, <2>1, <3>1
  <2>4. CASE ReplacePlain
    <3>1. /\ db' = [db EXCEPT ![Home] = [db[Home] EXCEPT !.sealed = TRUE]]
          /\ snaps' = snaps /\ app = "replace" /\ app' = "open" /\ Home \in Homes
          /\ db[Home] \in Databases
      BY <2>4, Starting DEF ReplacePlain, links, Boots
    <3>2. \A d \in Databases : [d EXCEPT !.sealed = TRUE] \in Databases
                               /\ Like([d EXCEPT !.sealed = TRUE], d)
      BY DEF Databases, Like
    <3>3. Kept
      BY <3>1, <3>2, OneChanges
    <3> QED
      BY <2>1, <3>1, <3>3, KeptIsIndexed DEF IndexInv, FilledOnes, IndexUnderway
  <2>5. CASE Open
    BY <2>1, <2>2, <2>5, OpenIndexed DEF Open
  <2>6. CASE Upgrade
    BY <2>1, <2>6, UpgradeIndexed
  <2>7. CASE Serve
    <3>1. db' = db /\ app' = "up" /\ todo = <<>>
      BY <2>7 DEF Serve, stores
    <3>2. ~Remains("fillIndex")
      BY <3>1 DEF Remains, Occurs
    <3> QED
      BY <1>2, <2>1, <3>1, <3>2
  <2> QED
    BY <1>5, <2>3, <2>4, <2>5, <2>6, <2>7 DEF Boot
<1>6. ASSUME NEW t \in Threads, Begin(t) PROVE IndexInv'
  BY <1>3, <1>6 DEF Begin, stores, links, starting
<1>7. CASE Quit
  BY <1>2, <1>7 DEF Quit, stores
<1>8. CASE Unplug \/ Plug \/ UNCHANGED vars
  BY <1>3, <1>8 DEF Unplug, Plug, vars, stores, links, starting
<1> QED
  BY <1>1, <1>4, <1>5, <1>6, <1>7, <1>8 DEF Next

\* The search index of a stamped database is of the present form and has its triggers,
\* and none is empty that is not about to be filled, unless a start ended just then.
THEOREM IndexHolds == Spec => []IndexInv
<1>1. Init => IndexInv
  BY InitIndexed
<1>2. TypeInv /\ UpgradeInv /\ IndexInv /\ [Next]_vars => IndexInv'
  BY NextIndexed
<1> QED
  BY <1>1, <1>2, HomeTypes, UpgradesHold, PTL DEF Spec

\* The stamp of the upgrade is true, wherever a start stopped before and in whatever
\* order moves, resets and crashes came: a stamped database has every part but the
\* columns of Signing, nothing of the old release, the triggers of the search index
\* and the index itself, filled unless a start ended just before filling it; and
\* every pooled connection enforces references.
THEOREM StampsAreTrue == Spec => []UpgradesAreWhole
<1>1. UpgradeInv /\ IndexInv => UpgradesAreWhole
  <2> SUFFICES ASSUME UpgradeInv, IndexInv PROVE UpgradesAreWhole
    OBVIOUS
  <2>1. ASSUME NEW h \in Homes, db[h].version = SCHEMA_USER_VERSION
        PROVE  /\ Whole(db[h]) /\ Indexed(db[h])
               /\ db[h].index = "full" \/ (db[h].index = "empty" /\ "unfilled" \in strain)
    <3>1. Whole(db[h]) /\ Indexed(db[h])
      BY <2>1 DEF UpgradeInv, WholeOnes, IndexInv, IndexedOnes
    <3>2. db[h].index = "empty" => "unfilled" \in strain
      BY <2>1 DEF IndexInv, FilledOnes, IndexUnderway, IndexWork
    <3> QED
      BY <3>1, <3>2 DEF Indexed
  <2> QED
    BY <2>1 DEF UpgradeInv, KeysOn, UpgradesAreWhole, Whole, Indexed
<1> QED
  BY <1>1, UpgradesHold, IndexHolds, PTL

\* No upgrade loses an account: every employee of the old release is known by the
\* same account at every moment, and the old database is in a safety snapshot as
\* soon as its schema has changed.
THEOREM OldAccountsSurvive == Spec => []UpgradesKeepTheOld
<1>1. UpgradeInv => UpgradesKeepTheOld
  BY DEF UpgradeInv, OldOnes, KeepsOld, SavedOld, UpgradesKeepTheOld
<1> QED
  BY <1>1, UpgradesHold, PTL
-----------------------------------------------------------------------------
(* The journals: the invariant. *)

\* A step of one thread leaves the others, but for what they know about moves.
LEMMA StepOthers ==
  ASSUME TypeInv, NEW t \in Threads, Step(t)
  PROVE  \A u \in Threads \ {t} : th'[u] = th[u] \/ Warned(u)
<1>1. CASE Lookup(t)
  BY <1>1, ReadCacheEffect, ReadSettingEffect, StorePathEffect DEF Lookup, Typed, OthersStay
<1>2. CASE Check(t) \/ ReadGeneration(t) \/ Pop(t) \/ Connect(t)
  BY <1>2, CheckEffect, ReadGenerationEffect, PopEffect, ConnectEffect DEF Typed, OthersStay
<1>3. CASE Commit(t) \/ Compare(t) \/ Push(t)
  BY <1>3, CommitEffect, CompareEffect, PushEffect DEF Typed, OthersStay
<1>4. CASE Reset(t)
  BY <1>4, ResetSnapshotEffect, ResetJournalEffect, ResetEndsEffect DEF Reset, Typed, OthersStay
<1>5. CASE Lock(t)
  BY <1>5, LockEffect DEF OthersStay
<1>6. CASE Target(t) \/ Checkpoint(t) \/ Copy(t)
  BY <1>6, TargetEffect, CheckpointEffect, CopyEffect DEF MovesOn, Typed, OthersStay
<1>7. CASE ReadForSetting(t) \/ Truncate(t) \/ Fill(t)
  BY <1>7, SettingEffect DEF MovesOn, Typed, OthersStay
<1>8. CASE Switch(t) \/ Abandon(t) \/ MoveEnds(t)
  BY <1>8, SwitchEffect, AbandonEffect, MoveEndsEffect DEF MovesOn, Typed, OthersStay
<1>9. CASE Record(t)
  BY <1>9, VerifyEffect, AppendEffect DEF Record, Typed, OthersStay
<1> QED
  BY <1>1, <1>2, <1>3, <1>4, <1>5, <1>6, <1>7, <1>8, <1>9 DEF Step, Use, Move

\* What is in a journal stays there.
LEMMA JournalsGrow ==
  ASSUME Grows, NEW h \in Homes, NEW id, InJournal(h, id)
  PROVE  InJournal(h, id)'
BY DEF Grows, InJournal

\* The journals that a command concerns.
LEMMA ConcernedHomes ==
  ASSUME TypeInv, NEW t \in Threads, th[t].pc \in RecordPCs
  PROVE  Concerned(t) \subseteq Homes
BY RecordTypes DEF Concerned, From

\* A move that begins to record itself is to write to both journals.
LEMMA BeginsToRecord ==
  ASSUME TypeInv, NEW t \in Threads, th[t].pc \in MovePCs, MovesOn(t), reach = Homes,
         th'[t].pc = "verify", th'[t].left = Journals(t)
  PROVE  InTrail(t)'
<1>1. /\ th[t].home \in Homes /\ th[t].to \in Homes /\ th[t].task = "move"
      /\ th'[t].home = th[t].home /\ th'[t].to = th[t].to /\ th'[t].task = "move"
  BY MoveTypes DEF MovesOn, SameRun
<1>2. \A h \in {th[t].home, th[t].to} : \E i \in DOMAIN Journals(t) : Journals(t)[i] = h
  BY <1>1, JournalsOf
<1> QED
  BY <1>1, <1>2 DEF InTrail, Concerned, From

\* The thread that takes a step keeps what it owes to the journals.
LEMMA OwnTrail ==
  ASSUME TypeInv, NEW t \in Threads, Step(t), reach = Homes, InTrail(t), Grows
  PROVE  InTrail(t)'
<1>1. CASE th'[t].pc \notin RecordPCs
  BY <1>1 DEF InTrail
<1>2. Idle.pc \notin RecordPCs
  BY DEF Idle, RecordPCs
<1>3. CASE Lookup(t)
  <2>1. th'[t].pc \in {"connect", "snapshot", "journal", "lock", "named", "store"}
    <3>1. th[t].pc \in {"resolve", "store"} =>
            th[t].then \in {"connect", "snapshot", "journal", "lock"}
      BY ThreadTypes, Tasks DEF LookupPCs
    <3> QED
      BY <1>3, <3>1, ReadCacheEffect, ReadSettingEffect, StorePathEffect DEF Lookup
  <2> QED
    BY <1>1, <2>1 DEF RecordPCs
<1>4. CASE Check(t) \/ ReadGeneration(t) \/ Pop(t) \/ Connect(t)
  BY <1>1, <1>2, <1>4, CheckEffect, ReadGenerationEffect, PopEffect, ConnectEffect DEF RecordPCs
<1>5. CASE Commit(t) \/ Compare(t) \/ Push(t)
  BY <1>1, <1>2, <1>5, CommitEffect, CompareEffect, PushEffect DEF RecordPCs
<1>6. CASE ResetSnapshot(t) \/ ResetEnds(t)
  BY <1>1, <1>2, <1>6, ResetSnapshotEffect, ResetEndsEffect DEF RecordPCs
<1>7. CASE ResetJournal(t)
  <2>1. /\ th'[t].home = th[t].home /\ th'[t].task = "reset" /\ th'[t].pc = "verify"
        /\ th'[t].left = <<th[t].home>>
    BY <1>7, ResetJournalEffect DEF SameRun, SameHome
  <2>2. Concerned(t)' = {th[t].home}
    BY <2>1 DEF Concerned, From
  <2>3. 1 \in DOMAIN <<th[t].home>> /\ <<th[t].home>>[1] = th[t].home
    OBVIOUS
  <2> QED
    BY <2>1, <2>2, <2>3 DEF InTrail
<1>8. CASE Lock(t)
  BY <1>1, <1>2, <1>8, LockEffect DEF RecordPCs
<1>9. CASE Target(t) \/ Copy(t) \/ Abandon(t)
  <2>1. MovesOn(t) /\ th[t].pc \in MovePCs
    BY <1>9, TargetEffect, CopyEffect, AbandonEffect DEF MovePCs
  <2>2. th'[t].pc \notin RecordPCs \/ Gives(t)
    BY <1>9, TargetEffect, CopyEffect, AbandonEffect DEF RecordPCs
  <2> QED
    BY <1>1, <2>1, <2>2, BeginsToRecord DEF Gives
<1>10. CASE Checkpoint(t)
  BY <1>1, <1>10, CheckpointEffect DEF RecordPCs
<1>11. CASE ReadForSetting(t) \/ Truncate(t) \/ Fill(t)
  BY <1>1, <1>11, SettingEffect DEF RecordPCs
<1>12. CASE Switch(t)
  <2>1. MovesOn(t) /\ th[t].pc \in MovePCs
    BY <1>12, SwitchEffect DEF MovePCs
  <2> QED
    BY <1>1, <1>12, <2>1, SwitchEffect, BeginsToRecord DEF RecordPCs
<1>13. CASE MoveEnds(t)
  BY <1>1, <1>2, <1>13, MoveEndsEffect
<1>14. ASSUME th[t].pc \in RecordPCs, SameRun(t), SameHome(t)
       PROVE  /\ Concerned(t)' = Concerned(t) /\ Concerned(t) \subseteq Homes
              /\ th[t].left \in Seq(Homes) /\ th'[t].id = th[t].id
  BY <1>14, ConcernedHomes, RecordTypes DEF Concerned, From, SameRun, SameHome
<1>15. CASE VerifyJournal(t)
  <2>1. /\ th[t].pc = "verify" /\ SameRun(t) /\ SameHome(t) /\ th[t].pc \in RecordPCs
    BY <1>15, VerifyEffect DEF RecordPCs
  <2>2. \A h \in Concerned(t) : \/ InJournal(h, th[t].id)
                                \/ \E i \in DOMAIN th[t].left : th[t].left[i] = h
    BY <2>1 DEF InTrail
  <2>3. \A h \in Concerned(t) : InJournal(h, th[t].id) => InJournal(h, th[t].id)'
    BY <1>14, <2>1, JournalsGrow
  <2>4. CASE th[t].left = <<>> /\ th'[t].pc = "recorded"
    <3>1. \A h \in Concerned(t) : InJournal(h, th[t].id)
      BY <2>2, <2>4
    <3> QED
      BY <1>14, <2>1, <2>3, <3>1 DEF InTrail, InJournal
  <2>5. CASE th'[t].pc = "append" /\ th'[t].left = th[t].left
    BY <1>14, <2>1, <2>2, <2>3, <2>5 DEF InTrail, InJournal
  <2>6. CASE /\ th[t].left # <<>> /\ th'[t].pc = "verify" /\ th'[t].left = Tail(th[t].left)
             /\ trail[Head(th[t].left)].broken
    <3>1. InJournal(Head(th[t].left), th[t].id)
      BY <2>6 DEF InJournal
    <3>2. \A h \in Concerned(t) :
            \/ InJournal(h, th[t].id)
            \/ \E i \in DOMAIN Tail(th[t].left) : Tail(th[t].left)[i] = h
      BY <1>14, <2>1, <2>2, <2>6, <3>1, NextJournalOf
    <3> QED
      BY <1>14, <2>1, <2>3, <2>6, <3>2 DEF InTrail, InJournal
  <2>7. \A s \in Seq(Homes) : s # <<>> => Head(s) \in Homes
    BY NextJournalOf
  <2> QED
    BY <1>14, <1>15, <2>1, <2>4, <2>5, <2>6, <2>7, VerifyEffect
<1>16. CASE AppendJournal(t)
  <2> DEFINE k == Head(th[t].left)
  <2>1. /\ th[t].pc = "append" /\ SameRun(t) /\ SameHome(t) /\ th[t].pc \in RecordPCs
        /\ th[t].left # <<>> /\ th'[t].pc = "verify" /\ th'[t].left = Tail(th[t].left)
    BY <1>16, AppendEffect DEF RecordPCs
  <2>2. \A h \in Concerned(t) : InJournal(h, th[t].id) => InJournal(h, th[t].id)'
    BY <1>14, <2>1, JournalsGrow
  <2>3. k \in Homes /\ th[t].id \in trail'[k].events
    BY <1>16, AppendKeeps
  <2>4. \A h \in Concerned(t) : \/ InJournal(h, th[t].id)
                                \/ h = k
                                \/ \E i \in DOMAIN Tail(th[t].left) : Tail(th[t].left)[i] = h
    BY <1>14, <2>1, NextJournalOf DEF InTrail
  <2> HIDE DEF k
  <2> QED
    BY <1>14, <2>1, <2>2, <2>3, <2>4 DEF InTrail, InJournal
<1> QED
  BY <1>3, <1>4, <1>5, <1>6, <1>7, <1>8, <1>9, <1>10, <1>11, <1>12, <1>13, <1>15, <1>16
  DEF Step, Use, Reset, Move, Record

\* What the others owe stays what it is.
LEMMA OthersTrail ==
  ASSUME TypeInv, NEW u \in Threads, th'[u] = th[u] \/ Warned(u), InTrail(u), Grows
  PROVE  InTrail(u)'
<1>1. /\ th'[u].pc = th[u].pc /\ th'[u].task = th[u].task /\ th'[u].id = th[u].id
      /\ th'[u].home = th[u].home /\ th'[u].to = th[u].to /\ th'[u].left = th[u].left
  BY DEF Warned
<1>2. Concerned(u)' = Concerned(u)
  BY <1>1 DEF Concerned, From
<1>3. th[u].pc \in RecordPCs =>
        \A h \in Concerned(u) : InJournal(h, th[u].id) =>
          trail'[h].broken \/ th[u].id \in trail'[h].events
  BY ConcernedHomes DEF Grows, InJournal
<1> QED
  BY <1>1, <1>2, <1>3 DEF InTrail, InJournal

\* What has ended is in its journals.
LEMMA DoneTrail ==
  ASSUME TypeInv, NEW t \in Threads, Step(t), DoneInTrail, InTrail(t), Grows
  PROVE  DoneInTrail'
<1> DEFINE Later(h, id) == trail'[h].broken \/ id \in trail'[h].events
<1>1. \A e \in done : e.homes \subseteq Homes /\ \A h \in e.homes : Later(h, e.id)
  BY DEF DoneInTrail, Grows, InJournal
<1>2. CASE done' = done
  BY <1>1, <1>2 DEF DoneInTrail, InJournal
<1>3. ASSUME NEW H, H = Concerned(t), th[t].pc = "recorded",
             done' = done \cup {[id |-> th[t].id, homes |-> H]}
      PROVE  DoneInTrail'
  <2>1. H \subseteq Homes /\ \A h \in H : Later(h, th[t].id)
    <3>1. th[t].pc \in RecordPCs
      BY <1>3 DEF RecordPCs
    <3>2. H \subseteq Homes /\ \A h \in H : InJournal(h, th[t].id)
      BY <1>3, <3>1, ConcernedHomes DEF InTrail
    <3> QED
      BY <3>2 DEF Grows, InJournal
  <2> DEFINE n == [id |-> th[t].id, homes |-> H]
  <2>2. n.id = th[t].id /\ n.homes = H /\ done' = done \cup {n}
    BY <1>3
  <2> HIDE DEF n
  <2> QED
    BY <1>1, <2>1, <2>2 DEF DoneInTrail, InJournal
<1>4. CASE ResetEnds(t)
  <2>1. th[t].task = "reset" /\ th[t].pc = "recorded"
    BY <1>4, ResetEndsEffect
  <2>2. Concerned(t) = {th[t].home}
    BY <2>1 DEF Concerned, From
  <2> QED
    BY <1>3, <1>4, <2>1, <2>2 DEF ResetEnds
<1>5. CASE MoveEnds(t)
  <2>1. Concerned(t) = {From(t), th[t].to}
    BY <1>5, MoveEndsEffect DEF Concerned
  <2> QED
    BY <1>2, <1>3, <1>5, <2>1, MoveEndsEffect
<1>6. done' = done \/ ResetEnds(t) \/ MoveEnds(t)
  BY DEF Step, Lookup, Use, Check, ReadGeneration, Pop, Connect, Commit, Compare, Push, Reset,
     ResetSnapshot, ResetJournal, Move, Lock, Target, Checkpoint, Copy, ReadForSetting, Truncate,
     Fill, Switch, Abandon, Record, history
<1> QED
  BY <1>2, <1>4, <1>5, <1>6

\* Every step keeps what the journals owe and know.
LEMMA NextTrail ==
  ASSUME TypeInv, TrailInv, [Next]_vars
  PROVE  TrailInv'
<1>1. "unplugged" \notin strain' => "unplugged" \notin strain
  BY DEF Next, Crash, Quit, Unplug, Plug, Boot, Begin, Step, vars, bounds
<1> SUFFICES ASSUME "unplugged" \notin strain', "unplugged" \notin strain
             PROVE  reach' = Homes /\ DoneInTrail' /\ \A t \in Threads : InTrail(t)'
  BY <1>1 DEF TrailInv
<1>2. reach = Homes /\ DoneInTrail /\ \A t \in Threads : InTrail(t)
  BY DEF TrailInv
<1>3. ASSUME NEW t \in Threads, Step(t)
      PROVE  reach' = Homes /\ DoneInTrail' /\ \A u \in Threads : InTrail(u)'
  <2>1. Grows
    BY <1>3, StepTrail
  <2>2. \A u \in Threads \ {t} : th'[u] = th[u] \/ Warned(u)
    BY <1>3, StepOthers
  <2>3. DoneInTrail' /\ InTrail(t)'
    BY <1>2, <1>3, <2>1, DoneTrail, OwnTrail
  <2>4. \A u \in Threads \ {t} : InTrail(u)'
    BY <1>2, <2>1, <2>2, OthersTrail
  <2> QED
    BY <1>2, <1>3, <2>3, <2>4 DEF Step
<1>4. ASSUME UNCHANGED <<trail, done>>, reach' = Homes,
             \A u \in Threads : th'[u] = th[u] \/ th'[u].pc \notin RecordPCs
      PROVE  reach' = Homes /\ DoneInTrail' /\ \A u \in Threads : InTrail(u)'
  <2>1. DoneInTrail'
    BY <1>2, <1>4 DEF DoneInTrail, InJournal
  <2>2. ASSUME NEW u \in Threads PROVE InTrail(u)'
    <3>1. InTrail(u)
      BY <1>2
    <3> QED
      BY <1>4, <3>1 DEF InTrail, Concerned, From, InJournal
  <2> QED
    BY <1>4, <2>1, <2>2
<1>5. ASSUME NEW t \in Threads, Begin(t)
      PROVE  reach' = Homes /\ DoneInTrail' /\ \A u \in Threads : InTrail(u)'
  <2>1. th'[t].pc \notin RecordPCs /\ \A u \in Threads \ {t} : th'[u] = th[u]
    BY <1>5, BeginEffect DEF RecordPCs, Typed, OthersStay
  <2> QED
    BY <1>2, <1>4, <1>5, <2>1 DEF Begin, history
<1>6. CASE Crash
  <2>1. Grows /\ \A u \in Threads : th'[u] = Idle
    BY <1>6, CrashTypes
  <2>2. \A u \in Threads : InTrail(u)'
    BY <2>1 DEF InTrail, Idle, RecordPCs
  <2>3. DoneInTrail'
    <3>1. \A e \in done : e.homes \subseteq Homes /\ \A h \in e.homes : InJournal(h, e.id)'
      BY <1>2, <2>1, JournalsGrow DEF DoneInTrail
    <3> QED
      BY <1>6, <3>1 DEF DoneInTrail, InJournal, Crash, history
  <2> QED
    BY <1>2, <1>6, <2>2, <2>3 DEF Crash
<1>7. CASE Quit \/ Plug \/ UNCHANGED vars
  BY <1>2, <1>4, <1>7 DEF Quit, Plug, vars, history
<1>8. CASE Boot
  <2>1. UNCHANGED <<trail, th, done, reach>>
    BY <1>8 DEF Boot, Resolve, Export, ReplacePlain, Open, Upgrade, Serve, OpenFails, StartFails,
       history
  <2> QED
    BY <1>2, <1>4, <2>1
<1>9. CASE Unplug
  BY <1>9 DEF Unplug
<1> QED
  BY <1>3, <1>5, <1>6, <1>7, <1>8, <1>9 DEF Next

\* Everything that was done is on record: with both folders in reach, every move and
\* reset that has ended is in each journal it concerns, whatever order the threads
\* wrote in and wherever it was interrupted, unless that journal is broken.
THEOREM TrailHolds == Spec => []TrailIsComplete
<1>1. Init => TypeInv /\ TrailInv
  <2>1. Init => TrailInv
    BY DEF Init, TrailInv, DoneInTrail, InTrail, Idle, RecordPCs
  <2> QED
    BY <2>1, InitTypes
<1>2. TypeInv /\ TrailInv /\ [Next]_vars => TypeInv' /\ TrailInv'
  BY NextTypes, NextTrail
<1>3. TrailInv => TrailIsComplete
  BY DEF TrailInv, DoneInTrail, InJournal, TrailIsComplete
<1> QED
  BY <1>1, <1>2, <1>3, PTL DEF Spec
-----------------------------------------------------------------------------
(* Moving: the invariant. *)

\* A lookup notes the generation of the moment.
LEMMA SeenStays ==
  ASSUME TypeInv, NEW t \in Threads, Step(t)
  PROVE  th'[t].seen \in {0, gen, th[t].seen}
<1>1. /\ th \in [Threads -> ThreadStates] /\ th[t] \in ThreadStates /\ Idle.seen = 0
  BY ThreadTypes DEF ThreadsOK, Idle
<1>2. CASE Lookup(t)
  <2>1. CASE ReadCache(t)
    BY <2>1, ReadCacheEffect
  <2>2. CASE ReadSetting(t) \/ StorePath(t)
    BY <2>2, ReadSettingEffect, StorePathEffect
  <2> QED
    BY <1>2, <2>1, <2>2 DEF Lookup
<1>3. CASE Use(t)
  <2>1. CASE Check(t) \/ ReadGeneration(t)
    BY <1>1, <2>1 DEF Check, ReadGeneration, Goto, Done, ThreadStates
  <2>3. CASE Pop(t) \/ Connect(t)
    BY <1>1, <2>3 DEF Pop, Connect, Goto, Done, ThreadStates
  <2>2. CASE Commit(t) \/ Compare(t) \/ Push(t)
    BY <1>1, <2>2 DEF Commit, Compare, Push, Goto, Done, ThreadStates
  <2> QED
    BY <1>3, <2>1, <2>2, <2>3 DEF Use
<1>4. CASE Reset(t)
  BY <1>1, <1>4 DEF Reset, ResetSnapshot, ResetJournal, ResetEnds, Goto, Done, ThreadStates
<1>5. CASE Move(t)
  <2>1. CASE Lock(t) \/ Target(t) \/ Checkpoint(t) \/ Copy(t)
    BY <1>1, <2>1 DEF Lock, Target, Checkpoint, Copy, Failed, Goto, Done, ThreadStates
  <2>2. CASE ReadForSetting(t) \/ Truncate(t) \/ Fill(t)
    BY <1>1, <2>2 DEF ReadForSetting, Truncate, Fill, Failed, Goto, Done, ThreadStates
  <2>3. CASE Switch(t) \/ Abandon(t) \/ MoveEnds(t)
    BY <1>1, <2>3 DEF Switch, Abandon, MoveEnds, Failed, Goto, Done, ThreadStates
  <2> QED
    BY <1>5, <2>1, <2>2, <2>3 DEF Move
<1>6. CASE Record(t)
  <2>1. CASE VerifyJournal(t)
    BY <1>1, <2>1 DEF VerifyJournal, NextJournal, Goto, ThreadStates
  <2>2. CASE AppendJournal(t)
    BY <1>1, <2>2 DEF AppendJournal, NextJournal, Goto, ThreadStates
  <2> QED
    BY <1>6, <2>1, <2>2 DEF Record
<1> QED
  BY <1>2, <1>3, <1>4, <1>5, <1>6 DEF Step

\* What is cached and pooled stays, or goes with its generation, or is added to by
\* the end of a lookup or of a command.
LEMMA StepGeneration ==
  ASSUME TypeInv, NEW t \in Threads, Step(t)
  PROVE  \/ UNCHANGED links
         \/ Invalidate
         \/ StorePath(t) /\ UNCHANGED <<gen, pool>>
         \/ (Pop(t) \/ Push(t)) /\ UNCHANGED <<gen, cache>>
<1>1. Lookup(t) => UNCHANGED links \/ (StorePath(t) /\ UNCHANGED <<gen, pool>>)
  BY DEF Lookup, ReadCache, ReadSetting, links
<1>2. Use(t) => UNCHANGED links \/ ((Pop(t) \/ Push(t)) /\ UNCHANGED <<gen, cache>>)
  BY DEF Use, Check, ReadGeneration, Pop, Connect, Commit, Compare, Push
<1>3. Reset(t) => UNCHANGED links \/ Invalidate
  BY DEF Reset, ResetSnapshot, ResetJournal, ResetEnds
<1>4. Move(t) => UNCHANGED links \/ Invalidate
  BY DEF Move, Lock, Target, Checkpoint, Copy, ReadForSetting, Truncate, Fill, Switch, Abandon,
     MoveEnds
<1>5. Record(t) => UNCHANGED links
  BY DEF Record
<1> QED
  BY <1>1, <1>2, <1>3, <1>4, <1>5 DEF Step

\* The generation only grows while the program runs.
LEMMA GenerationGrows ==
  ASSUME TypeInv, NEW t \in Threads, Step(t)
  PROVE  gen' \in {gen, gen + 1} /\ gen \in Nat \ {0} /\ gen' \in Nat /\ gen <= gen'
<1>1. gen \in Nat \ {0}
  BY DEF TypeInv
<1>2. gen' \in {gen, gen + 1}
  BY StepGeneration DEF links, Invalidate
<1> QED
  BY <1>1, <1>2

\* An idle thread has no generation.
LEMMA IdleIsDated ==
  ASSUME NEW u \in Threads, gen' \in Nat, th'[u] = Idle
  PROVE  Dated(u)'
BY DEF Dated, Looking, Idle, LookupPCs

\* A thread that takes a step keeps its generations in order.
LEMMA OwnDated ==
  ASSUME TypeInv, NEW t \in Threads, Step(t), Dated(t)
  PROVE  Dated(t)'
<1>1. /\ gen \in Nat \ {0} /\ gen' \in Nat /\ gen <= gen'
      /\ th'[t].seen \in {0, gen, th[t].seen}
  BY GenerationGrows, SeenStays
<1>2. th[t].gen \in Nat /\ th[t].seen \in Nat /\ th'[t].seen \in Nat
  BY <1>1, ThreadTypes DEF ThreadStates
<1>3. th'[t] = Idle => Dated(t)'
  BY <1>1, IdleIsDated
<1>4. th[t].pc \in LookupPCs => th[t].then \in {"connect", "snapshot", "journal", "lock"}
  BY ThreadTypes, Tasks
<1>5. CASE ReadCache(t)
  BY <1>1, <1>2, <1>4, <1>5, ReadCacheEffect DEF SameConn, Dated, Looking, LookupPCs
<1>6. CASE ReadSetting(t)
  BY <1>1, <1>2, <1>6, ReadSettingEffect DEF SameConn, Dated, Looking, LookupPCs
<1>7. CASE StorePath(t)
  BY <1>1, <1>2, <1>4, <1>7, StorePathEffect DEF SameConn, Dated, Looking, LookupPCs
<1>8. CASE Check(t)
  BY <1>1, <1>2, <1>3, <1>8, CheckEffect DEF SameConn, Dated, Looking, LookupPCs
<1>9. CASE ReadGeneration(t)
  BY <1>1, <1>2, <1>9, ReadGenerationEffect DEF Dated, Looking, LookupPCs
<1>10. CASE Pop(t)
  BY <1>1, <1>2, <1>10, PopEffect DEF Dated, Looking, LookupPCs
<1>11. CASE Connect(t)
  BY <1>1, <1>2, <1>3, <1>11, ConnectEffect DEF Dated, Looking, LookupPCs
<1>12. CASE Commit(t)
  BY <1>1, <1>2, <1>12, CommitEffect DEF SameConn, Dated, Looking, LookupPCs
<1>13. CASE Compare(t) \/ Push(t)
  BY <1>1, <1>2, <1>3, <1>13, CompareEffect, PushEffect DEF SameConn, Dated, Looking, LookupPCs
<1>14. CASE Reset(t)
  BY <1>1, <1>2, <1>3, <1>14, ResetSnapshotEffect, ResetJournalEffect, ResetEndsEffect
  DEF Reset, SameConn, Dated, Looking, LookupPCs
<1>15. CASE Lock(t)
  <2>1. th'[t] = Idle \/ (th'[t].pc = "target" /\ SameConn(t))
    BY <1>15, LockEffect
  <2> QED
    BY <1>1, <1>2, <1>3, <2>1 DEF SameConn, Dated, Looking, LookupPCs
<1>16. CASE Target(t) \/ Checkpoint(t) \/ Copy(t)
  <2>1. SameConn(t) /\ th'[t].pc \in {"unlock", "checkpoint", "verify", "setting", "copy"}
    BY <1>16, TargetEffect, CheckpointEffect, CopyEffect DEF MovesOn, Gives
  <2> QED
    BY <1>1, <1>2, <2>1 DEF SameConn, Dated, Looking, LookupPCs
<1>17. CASE ReadForSetting(t) \/ Truncate(t) \/ Fill(t)
  BY <1>1, <1>2, <1>17, SettingEffect DEF MovesOn, SameConn, Dated, Looking, LookupPCs
<1>18. CASE Switch(t) \/ Abandon(t) \/ MoveEnds(t)
  BY <1>1, <1>2, <1>3, <1>18, SwitchEffect, AbandonEffect, MoveEndsEffect
  DEF MovesOn, Gives, SameConn, Dated, Looking, LookupPCs
<1>19. CASE Record(t)
  BY <1>1, <1>2, <1>19, VerifyEffect, AppendEffect DEF Record, SameConn, Dated, Looking, LookupPCs
<1> QED
  BY <1>5, <1>6, <1>7, <1>8, <1>9, <1>10, <1>11, <1>12, <1>13, <1>14, <1>15, <1>16, <1>17, <1>18,
     <1>19 DEF Step, Lookup, Use, Move

\* So do the other threads.
LEMMA OthersDated ==
  ASSUME TypeInv, NEW u \in Threads, th'[u] = th[u] \/ Warned(u), gen' \in Nat, gen <= gen',
         Dated(u)
  PROVE  Dated(u)'
<1>1. th[u].gen \in Nat /\ th[u].seen \in Nat /\ gen \in Nat
  BY ThreadTypes DEF ThreadStates
<1> QED
  BY <1>1 DEF Warned, Dated, Looking

\* No generation is ahead of the present one in what is cached and pooled.
LEMMA StepLinksDated ==
  ASSUME TypeInv, NEW t \in Threads, Step(t), LinksDated, Dated(t)
  PROVE  LinksDated'
<1>1. /\ gen \in Nat \ {0} /\ gen' \in Nat /\ gen <= gen' /\ th[t].gen <= gen /\ th[t].seen <= gen
  BY GenerationGrows DEF Dated
<1>2. CASE UNCHANGED links
  BY <1>2 DEF links, LinksDated
<1>3. CASE Invalidate
  BY <1>1, <1>3, InvalidateLinks DEF LinksDated
<1>4. CASE StorePath(t) /\ UNCHANGED <<gen, pool>>
  BY <1>1, <1>4, StorePathEffect DEF LinksDated
<1>5. CASE (Pop(t) \/ Push(t)) /\ UNCHANGED <<gen, cache>>
  BY <1>1, <1>5, PopEffect, PushEffect DEF LinksDated
<1> QED
  BY <1>2, <1>3, <1>4, <1>5, StepGeneration

\* What a step does to the lock, and where a move is then.
LEMMA StepLock ==
  ASSUME TypeInv, NEW t \in Threads, Step(t)
  PROVE  \/ restoring' = restoring /\ (Moving(t)' <=> Moving(t))
         \/ ~restoring /\ restoring' /\ Lock(t) /\ Moving(t)' /\ \A u \in Threads \ {t} : Warned(u)
         \/ Moving(t) /\ ~restoring' /\ th'[t] = Idle
<1>1. /\ th[t] \in ThreadStates /\ Shape(th[t]) /\ ThreadsOK'
  BY ThreadTypes, StepThreads
<1>2. th'[t] \in ThreadStates /\ Shape(th'[t])
  BY <1>1 DEF ThreadsOK
<1>3. th'[t] = Idle => ~Moving(t)'
  BY DEF Moving, Idle, MovePCs, RecordPCs
<1>4. /\ th[t].pc \notin MovePCs \cup RecordPCs => ~Moving(t)
      /\ th[t].task # "move" => ~Moving(t)
  BY DEF Moving
<1>5. CASE Lookup(t)
  <2>1. th'[t].pc \notin MovePCs \cup RecordPCs /\ th[t].pc \in LookupPCs
    <3>1. th[t].pc \in LookupPCs => th[t].then \in {"connect", "snapshot", "journal", "lock"}
      BY <1>1, Tasks
    <3> QED
      BY <1>5, <3>1, ReadCacheEffect, ReadSettingEffect, StorePathEffect
      DEF Lookup, LookupPCs, MovePCs, RecordPCs
  <2> QED
    BY <1>5, <2>1 DEF Lookup, Moving, LookupPCs, MovePCs, RecordPCs
<1>6. CASE Use(t)
  <2>1. /\ th[t].pc \in {"check", "generation", "pop", "connect", "commit", "compare", "push"}
        /\ restoring' = restoring /\ (th'[t] = Idle \/ th'[t].task = th[t].task)
    BY <1>6, CheckEffect, ReadGenerationEffect, PopEffect, ConnectEffect, CommitEffect,
       CompareEffect, PushEffect DEF Use, SameRun
  <2>2. th[t].task # "move"
    BY <1>1, <2>1, Tasks
  <2> QED
    BY <1>3, <2>1, <2>2 DEF Moving
<1>7. CASE Reset(t)
  <2>1. th[t].task = "reset" /\ (th'[t] = Idle \/ th'[t].task = "reset")
    BY <1>7, ResetSnapshotEffect, ResetJournalEffect, ResetEndsEffect DEF Reset, SameRun
  <2>2. restoring' = restoring
    BY <1>7 DEF Reset, ResetSnapshot, ResetJournal, ResetEnds
  <2> QED
    BY <1>3, <2>1, <2>2 DEF Moving
<1>8. CASE Lock(t)
  <2>1. th[t].pc = "lock" /\ th[t].task = "move" /\ ~Moving(t)
    BY <1>8, LockEffect DEF Moving, MovePCs, RecordPCs
  <2> QED
    BY <1>3, <1>8, <2>1, LockEffect DEF Moving, MovePCs, SameRun
<1>9. CASE /\ Target(t) \/ Checkpoint(t) \/ Copy(t) \/ ReadForSetting(t) \/ Truncate(t) \/ Fill(t)
           \/ Switch(t) \/ Abandon(t)
  <2>1. MovesOn(t) /\ th[t].pc \in MovePCs /\ th'[t].pc \in MovePCs \cup RecordPCs
    BY <1>9, TargetEffect, CheckpointEffect, CopyEffect, SettingEffect, SwitchEffect,
       AbandonEffect DEF MovePCs, RecordPCs, Gives
  <2>2. restoring' = restoring
    BY <1>9 DEF Target, Checkpoint, Copy, ReadForSetting, Truncate, Fill, Switch, Abandon
  <2> QED
    BY <2>1, <2>2, MoveTypes DEF Moving, MovesOn, SameRun
<1>10. CASE MoveEnds(t)
  BY <1>10, MoveEndsEffect DEF Moving, MovePCs, RecordPCs
<1>11. CASE Record(t)
  <2>1. SameRun(t) /\ th[t].pc \in RecordPCs /\ th'[t].pc \in RecordPCs /\ restoring' = restoring
    BY <1>11, VerifyEffect, AppendEffect DEF Record, RecordPCs
  <2> QED
    BY <2>1 DEF Moving, SameRun
<1> QED
  BY <1>5, <1>6, <1>7, <1>8, <1>9, <1>10, <1>11 DEF Step, Move

\* A command stays fresh or not while it runs.
LEMMA FreshStays ==
  ASSUME TypeInv, NEW t \in Threads, Step(t)
  PROVE  th'[t] = Idle \/ th'[t].fresh = th[t].fresh
<1>1. CASE Lookup(t)
  BY <1>1, ReadCacheEffect, ReadSettingEffect, StorePathEffect DEF Lookup, SameRun
<1>2. CASE Use(t)
  BY <1>2, CheckEffect, ReadGenerationEffect, PopEffect, ConnectEffect, CommitEffect,
     CompareEffect, PushEffect DEF Use, SameRun
<1>3. CASE Reset(t)
  BY <1>3, ResetSnapshotEffect, ResetJournalEffect, ResetEndsEffect DEF Reset, SameRun
<1>4. CASE Lock(t)
  BY <1>4, LockEffect DEF SameRun
<1>5. CASE Move(t) /\ ~Lock(t)
  BY <1>5, TargetEffect, CheckpointEffect, CopyEffect, SettingEffect, SwitchEffect,
     AbandonEffect, MoveEndsEffect DEF Move, MovesOn, SameRun
<1>6. CASE Record(t)
  BY <1>6, VerifyEffect, AppendEffect DEF Record, SameRun
<1> QED
  BY <1>1, <1>2, <1>3, <1>4, <1>5, <1>6 DEF Step

\* Only one move runs, and it has not begun beside another.
LEMMA StepLocked ==
  ASSUME TypeInv, NEW t \in Threads, Step(t), Locked
  PROVE  Locked'
<1>1. \A u \in Threads \ {t} : th'[u] = th[u] \/ Warned(u)
  BY StepOthers
<1>2. \A u \in Threads \ {t} : Moving(u)' = Moving(u)
  BY <1>1 DEF Moving, Warned
<1>3. \A u \in Threads \ {t} : th'[u].fresh => th[u].fresh
  BY <1>1 DEF Warned
<1>4. th'[t].fresh => th[t].fresh
  BY FreshStays DEF Idle
<1>5. CASE restoring' = restoring /\ (Moving(t)' <=> Moving(t))
  BY <1>2, <1>3, <1>4, <1>5 DEF Locked
<1>6. CASE ~restoring /\ restoring' /\ Moving(t)' /\ \A u \in Threads \ {t} : Warned(u)
  <2>1. \A u \in Threads : ~Moving(u)
    BY <1>6 DEF Locked
  <2>2. \A u \in Threads \ {t} : ~Moving(u)' /\ ~th'[u].fresh
    BY <1>2, <1>6, <2>1 DEF Warned
  <2> QED
    BY <1>6, <2>2 DEF Locked
<1>7. CASE Moving(t) /\ ~restoring' /\ th'[t] = Idle
  <2>1. \A u \in Threads : ~Moving(u)'
    BY <1>2, <1>7 DEF Locked, Moving, Idle
  <2> QED
    BY <1>7, <2>1 DEF Locked
<1> QED
  BY <1>5, <1>6, <1>7, StepLock

\* What is cached and pooled from generation g on keeps following the setting.
LEMMA LinksStaySettled ==
  ASSUME TypeInv, NEW t \in Threads, Step(t), setting' = setting, NEW g \in Nat \ {0},
         Settled(g)
  PROVE  LinksFollow(g)'
<1>1. Named' = Named /\ Named \in Homes
  BY DEF Named, Homes
<1>2. LinksFollow(g) /\ Follows(t, g)
  BY DEF Settled
<1>3. CASE UNCHANGED links
  BY <1>1, <1>2, <1>3 DEF links, LinksFollow
<1>4. CASE Invalidate
  BY <1>4, InvalidateLinks DEF LinksFollow
<1>5. CASE StorePath(t) /\ UNCHANGED <<gen, pool>>
  BY <1>1, <1>2, <1>5, StorePathEffect DEF LinksFollow, Follows
<1>6. CASE (Pop(t) \/ Push(t)) /\ UNCHANGED <<gen, cache>>
  <2>1. ASSUME NEW i \in DOMAIN pool', pool'[i].gen >= g PROVE pool'[i].home = Named
    <3>1. CASE i \in DOMAIN pool /\ pool'[i] = pool[i]
      BY <1>2, <2>1, <3>1 DEF LinksFollow
    <3>2. CASE Push(t) /\ pool'[i] = [gen |-> th[t].gen, home |-> th[t].conn, keys |-> TRUE]
      <4>1. th[t].conn # "none"
        BY <3>2, PushEffect DEF Homes
      <4> QED
        BY <1>2, <2>1, <3>2, <4>1 DEF Follows
    <3> QED
      BY <1>6, <3>1, <3>2, PopEffect, PushEffect
  <2> QED
    BY <1>1, <1>2, <1>6, <2>1 DEF LinksFollow
<1> QED
  BY <1>3, <1>4, <1>5, <1>6, StepGeneration

\* An idle thread, and a move, follow whatever they should.
LEMMA NothingToFollow ==
  ASSUME NEW u \in Threads, NEW g \in Nat \ {0}, th'[u].gen = 0, th'[u].pc # "store"
  PROVE  Follows(u, g)'
BY DEF Follows

\* What a thread looks up, opens or holds from generation g on keeps following the setting.
LEMMA OwnStaysSettled ==
  ASSUME TypeInv, NEW t \in Threads, Step(t), setting' = setting, reach = Homes,
         NEW g \in Nat \ {0}, Settled(g), Dated(t)
  PROVE  Follows(t, g)'
<1>1. Named' = Named /\ Named \in Homes /\ Resolved = Named
  BY DEF Named, Resolved, Homes
<1>2. LinksFollow(g) /\ Follows(t, g)
  BY DEF Settled
<1>3. /\ th[t].gen \in Nat /\ th[t].seen \in Nat /\ gen \in Nat \ {0} /\ th[t].gen <= gen
      /\ th'[t].gen \in Nat /\ th'[t].seen \in Nat
  <2>1. th'[t] \in ThreadStates /\ th[t] \in ThreadStates
    BY ThreadTypes, StepThreads DEF ThreadsOK
  <2> QED
    BY <2>1 DEF ThreadStates, TypeInv, Dated
<1>4. th'[t] = Idle => Follows(t, g)'
  BY NothingToFollow DEF Idle
\* A step that leaves the connection alone, and is not the end of a lookup.
<1>5. SameConn(t) /\ th'[t].pc \notin {"store", "connect"} => Follows(t, g)'
  BY <1>1, <1>2 DEF SameConn, Follows
<1>6. th[t].pc \in LookupPCs => th[t].then \in {"connect", "snapshot", "journal", "lock"}
  BY ThreadTypes, Tasks
<1>7. CASE ReadCache(t)
  <2>1. th'[t].pc = "connect" =>
          th[t].then = "connect" /\ th'[t].home = cache.home /\ cache.gen = gen
    BY <1>7, ReadCacheEffect
  <2>2. th'[t].pc # "store" /\ SameConn(t)
    BY <1>6, <1>7, ReadCacheEffect DEF LookupPCs
  <2>3. cache.gen = gen /\ th[t].gen >= g => cache.home = Named
    BY <1>2, <1>3 DEF LinksFollow
  <2> QED
    BY <1>1, <1>2, <2>1, <2>2, <2>3 DEF Follows, SameConn
<1>8. CASE ReadSetting(t)
  BY <1>1, <1>2, <1>8, ReadSettingEffect DEF Follows, SameConn
<1>9. CASE StorePath(t)
  <2>1. th[t].pc = "store" /\ th[t].gen <= th[t].seen /\ th'[t].home = th[t].home
    BY <1>9, StorePathEffect DEF Dated, SameHome
  <2>2. th[t].gen >= g => th[t].home = Named
    BY <1>2, <1>3, <2>1 DEF Follows
  <2>3. th'[t].pc # "store" /\ SameConn(t)
    BY <1>6, <1>9, StorePathEffect DEF LookupPCs
  <2> QED
    BY <1>1, <1>2, <2>1, <2>2, <2>3 DEF Follows, SameConn
<1>10. CASE Check(t)
  BY <1>4, <1>5, <1>10, CheckEffect
<1>11. CASE ReadGeneration(t)
  BY <1>11, ReadGenerationEffect DEF Follows, Dated
<1>12. CASE Pop(t)
  <2>1. CASE /\ th'[t].pc = "commit"
             /\ \E i \in DOMAIN pool : pool[i].gen = th[t].gen /\ th'[t].conn = pool[i].home
    <3>1. th[t].gen >= g => th'[t].conn = Named
      BY <1>2, <2>1 DEF LinksFollow
    <3> QED
      BY <1>1, <1>12, <2>1, <3>1, PopEffect DEF Follows
  <2>2. CASE th'[t].pc = "resolve" /\ th'[t].conn = th[t].conn
    BY <1>5, <1>12, <2>2, PopEffect DEF SameConn
  <2> QED
    BY <1>12, <2>1, <2>2, PopEffect
<1>13. CASE Connect(t)
  BY <1>1, <1>2, <1>4, <1>13, ConnectEffect DEF Follows
<1>14. CASE Commit(t)
  BY <1>5, <1>14, CommitEffect
<1>15. CASE Compare(t) \/ Push(t)
  BY <1>4, <1>5, <1>15, CompareEffect, PushEffect
<1>16. CASE Reset(t)
  BY <1>4, <1>5, <1>16, ResetSnapshotEffect, ResetJournalEffect, ResetEndsEffect DEF Reset
<1>17. CASE Lock(t)
  <2>1. th'[t] = Idle \/ (th'[t].pc = "target" /\ SameConn(t))
    BY <1>17, LockEffect
  <2> QED
    BY <1>4, <1>5, <2>1
<1>18. CASE Target(t) \/ Checkpoint(t) \/ Copy(t) \/ ReadForSetting(t) \/ Truncate(t) \/ Fill(t)
  <2>1. SameConn(t) /\ th'[t].pc \notin {"store", "connect"}
    BY <1>18, TargetEffect, CheckpointEffect, CopyEffect, SettingEffect DEF MovesOn, Gives
  <2> QED
    BY <1>5, <2>1
<1>19. CASE Switch(t) \/ Abandon(t) \/ MoveEnds(t)
  BY <1>4, <1>5, <1>19, SwitchEffect, AbandonEffect, MoveEndsEffect DEF MovesOn, Gives
<1>20. CASE Record(t)
  BY <1>5, <1>20, VerifyEffect, AppendEffect DEF Record
<1> QED
  BY <1>7, <1>8, <1>9, <1>10, <1>11, <1>12, <1>13, <1>14, <1>15, <1>16, <1>17, <1>18, <1>19, <1>20
  DEF Step, Lookup, Use, Move

\* What follows the setting from generation g on keeps following it while the setting stays.
LEMMA StaysSettled ==
  ASSUME TypeInv, NEW t \in Threads, Step(t), setting' = setting, reach = Homes,
         NEW g \in Nat \ {0}, Settled(g), Dated(t)
  PROVE  Settled(g)'
<1>1. LinksFollow(g)' /\ Follows(t, g)'
  BY LinksStaySettled, OwnStaysSettled
<1>2. ASSUME NEW u \in Threads \ {t} PROVE Follows(u, g)'
  <2>1. Follows(u, g) /\ (th'[u] = th[u] \/ Warned(u)) /\ Named' = Named
    BY StepOthers DEF Settled, Named
  <2> QED
    BY <2>1 DEF Warned, Follows
<1> QED
  BY <1>1, <1>2 DEF Settled

\* What is of an older generation need not follow.
LEMMA NewGenerationIsSettled ==
  ASSUME TypeInv, NEW t \in Threads, Step(t), Invalidate, \A u \in Threads : Dated(u)
  PROVE  Settled(gen)'
<1>1. /\ gen \in Nat \ {0} /\ gen' = gen + 1 /\ cache'.gen = 0 /\ DOMAIN pool' = {}
  BY InvalidateLinks DEF TypeInv
<1>2. LinksFollow(gen)'
  BY <1>1 DEF LinksFollow
<1>3. ASSUME NEW u \in Threads PROVE Follows(u, gen)'
  <2>1. th[u].gen <= gen /\ th[u].seen <= gen /\ th[u].gen \in Nat /\ th[u].seen \in Nat
    BY ThreadTypes DEF Dated, ThreadStates
  <2>2. th'[u].gen <= gen /\ th'[u].seen <= gen /\ th'[u].gen \in Nat /\ th'[u].seen \in Nat
    <3>1. CASE u # t
      BY <2>1, <3>1, StepOthers DEF Warned
    <3>2. CASE u = t
      <4>1. th'[t].gen \in {0, th[t].gen} /\ th'[t].seen \in {0, gen, th[t].seen}
        <5>1. th'[t].gen \in {0, th[t].gen}
          <6>1. ResetEnds(t) \/ Checkpoint(t) \/ Switch(t)
            <7>1. gen' # gen
              BY <1>1
            <7>2. Lookup(t) \/ Use(t) \/ Record(t) => gen' = gen
              BY DEF Lookup, Use, Check, ReadGeneration, Pop, Connect, Commit, Compare, Push,
                 Record, links
            <7>3. Reset(t) => ResetEnds(t) \/ gen' = gen
              BY DEF Reset, ResetSnapshot, ResetJournal, links
            <7>4. Move(t) => Checkpoint(t) \/ Switch(t) \/ gen' = gen
              BY DEF Move, Lock, Target, Copy, ReadForSetting, Truncate, Fill, Abandon, MoveEnds,
                 links
            <7> QED
              BY <7>1, <7>2, <7>3, <7>4 DEF Step
          <6> QED
            BY <6>1, ResetEndsEffect, CheckpointEffect, SwitchEffect DEF MovesOn, SameConn
        <5> QED
          BY <5>1, SeenStays
      <4> QED
        BY <1>1, <2>1, <3>2, <4>1
    <3> QED
      BY <3>1, <3>2
  <2> QED
    BY <1>1, <2>2 DEF Follows
<1> QED
  BY <1>2, <1>3 DEF Settled

\* Who changes the setting is a move that has begun to and has not ended.
LEMMA SettingStays ==
  ASSUME TypeInv, NEW t \in Threads, Step(t)
  PROVE  setting' = setting \/ (Moving(t) /\ Moving(t)' /\ Switching')
<1>1. CASE Truncate(t) \/ Fill(t)
  <2>1. MovesOn(t) /\ th'[t].pc \in {"fill", "switchBack", "switch"}
    BY <1>1, SettingEffect DEF Truncate, Fill, At
  <2>2. th[t].pc \in MovePCs /\ th[t].task = "move"
    BY <1>1, MoveTypes DEF Truncate, Fill, At, MovePCs
  <2> QED
    BY <2>1, <2>2 DEF Switching, Moving, MovesOn, SameRun, MovePCs
<1>2. Lookup(t) \/ Use(t) \/ Reset(t) \/ Record(t) => setting' = setting
  BY DEF Lookup, Use, Check, ReadGeneration, Pop, Connect, Commit, Compare, Push, Reset,
     ResetSnapshot, ResetJournal, ResetEnds, Record, stores
<1>3. Move(t) => setting' = setting \/ Truncate(t) \/ Fill(t)
  BY DEF Move, Lock, Target, Checkpoint, Copy, ReadForSetting, Switch, Abandon, MoveEnds, stores
<1> QED
  BY <1>1, <1>2, <1>3 DEF Step

\* A move that ends what it had begun drops what was cached.
LEMMA SwitchingEnds ==
  ASSUME TypeInv, NEW t \in Threads, Step(t), Switching, ~Switching'
  PROVE  Invalidate
<1>1. PICK u \in Threads : th[u].pc \in {"fill", "switch", "switchBack"}
  BY DEF Switching
<1>2. u = t
  <2>1. u # t => th'[u].pc = th[u].pc
    BY StepOthers DEF Warned
  <2> QED
    BY <1>1, <2>1 DEF Switching
<1>3. CASE th[t].pc = "fill"
  <2>1. Fill(t)
    BY <1>3 DEF Step, Lookup, ReadCache, ReadSetting, StorePath, Use, Check, ReadGeneration, Pop,
       Connect, Commit, Compare, Push, Reset, ResetSnapshot, ResetJournal, ResetEnds, Move, Lock,
       Target, Checkpoint, Copy, ReadForSetting, Truncate, Switch, Abandon, MoveEnds, Record,
       VerifyJournal, AppendJournal, At
  <2> QED
    BY <1>3, <2>1, SettingEffect DEF Switching
<1>4. CASE th[t].pc \in {"switch", "switchBack"}
  <2>1. Switch(t)
    BY <1>4 DEF Step, Lookup, ReadCache, ReadSetting, StorePath, Use, Check, ReadGeneration, Pop,
       Connect, Commit, Compare, Push, Reset, ResetSnapshot, ResetJournal, ResetEnds, Move, Lock,
       Target, Checkpoint, Copy, ReadForSetting, Truncate, Fill, Abandon, MoveEnds, Record,
       VerifyJournal, AppendJournal, At
  <2> QED
    BY <2>1, SwitchEffect
<1> QED
  BY <1>1, <1>2, <1>3, <1>4

\* A thread gets a generation only by noting the present one.
LEMMA GenerationNoted ==
  ASSUME TypeInv, NEW t \in Threads, Step(t)
  PROVE  th'[t].gen \in {0, th[t].gen, gen}
<1>1. CASE Lookup(t)
  BY <1>1, ReadCacheEffect, ReadSettingEffect, StorePathEffect DEF Lookup, SameConn
<1>2. CASE Use(t)
  <2>1. CASE Check(t) \/ ReadGeneration(t) \/ Pop(t) \/ Connect(t)
    BY <2>1, CheckEffect, ReadGenerationEffect, PopEffect, ConnectEffect DEF SameConn, Idle
  <2>2. CASE Commit(t) \/ Compare(t) \/ Push(t)
    BY <2>2, CommitEffect, CompareEffect, PushEffect DEF SameConn, Idle
  <2> QED
    BY <1>2, <2>1, <2>2 DEF Use
<1>3. CASE Reset(t)
  BY <1>3, ResetSnapshotEffect, ResetJournalEffect, ResetEndsEffect DEF Reset, SameConn, Idle
<1>4. CASE Lock(t)
  BY <1>4, LockEffect DEF SameConn, Idle
<1>5. CASE Move(t) /\ ~Lock(t)
  <2>1. MovesOn(t) \/ th'[t] = Idle
    BY <1>5, TargetEffect, CheckpointEffect, CopyEffect, SettingEffect, SwitchEffect,
       AbandonEffect, MoveEndsEffect DEF Move
  <2> QED
    BY <2>1 DEF MovesOn, SameConn, Idle
<1>6. CASE Record(t)
  BY <1>6, VerifyEffect, AppendEffect DEF Record, SameConn
<1> QED
  BY <1>1, <1>2, <1>3, <1>4, <1>5, <1>6 DEF Step

\* Commands keep following the setting.
LEMMA StepFollowing ==
  ASSUME TypeInv, PathInv, NEW t \in Threads, Step(t)
  PROVE  Following'
<1> SUFFICES ASSUME "unplugged" \notin strain'
             PROVE  /\ reach' = Homes
                    /\ ~Switching' => Settled(gen)'
                    /\ \A u \in Threads : th'[u].fresh /\ ~restoring' /\ th'[u].gen # 0 =>
                                            (Settled(th[u].gen))'
  BY DEF Following
<1>1. /\ strain' = strain /\ reach' = reach /\ reach = Homes /\ (~Switching => Settled(gen))
      /\ \A u \in Threads : th[u].fresh /\ ~restoring /\ th[u].gen # 0 => Settled(th[u].gen)
      /\ Locked /\ \A u \in Threads : Dated(u)
  BY DEF Step, PathInv, Following
<1>2. gen \in Nat \ {0} /\ \A u \in Threads : th[u].gen \in Nat
  BY ThreadTypes DEF TypeInv, ThreadStates
<1>3. Switching => restoring
  BY <1>1, MoveTypes DEF Switching, Locked, Moving, MovePCs
<1>4. ~Switching' => Settled(gen)'
  <2> SUFFICES ASSUME ~Switching' PROVE Settled(gen)'
    OBVIOUS
  <2>1. CASE Invalidate
    BY <1>1, <2>1, NewGenerationIsSettled
  <2>2. CASE ~Invalidate
    <3>1. ~Switching /\ setting' = setting
      BY <2>2, SwitchingEnds, SettingStays
    <3>2. gen' = gen
      BY <2>2, StepGeneration DEF links
    <3>3. Settled(gen) /\ Dated(t)
      BY <1>1, <3>1
    <3>4. \A g \in Nat \ {0} : Settled(g) => Settled(g)'
      BY <1>1, <3>1, StaysSettled
    <3> QED
      BY <1>2, <3>2, <3>3, <3>4 DEF Settled, LinksFollow, Follows
  <2> QED
    BY <2>1, <2>2
<1>5. ASSUME NEW u \in Threads, th'[u].fresh, ~restoring', th'[u].gen # 0
      PROVE  (Settled(th[u].gen))'
  <2>1. ~restoring /\ th[u].fresh
    <3>1. th'[u] # Idle
      BY <1>5 DEF Idle
    <3>2. th[u].fresh
      BY <1>5, <3>1, StepOthers, FreshStays DEF Warned
    <3>3. ~(Moving(t) /\ th'[t] = Idle)
      BY <1>1, <3>1, <3>2 DEF Locked
    <3> QED
      BY <1>5, <3>2, <3>3, StepLock
  <2>2. ~Moving(t)
    BY <1>1, <2>1 DEF Locked
  <2>3. setting' = setting /\ ~Switching
    BY <1>3, <2>1, <2>2, SettingStays
  <2>4. \A g \in Nat \ {0} : Settled(g) => Settled(g)'
    BY <1>1, <2>3, StaysSettled
  <2>5. (th'[u].gen = th[u].gen) \/ th'[u].gen = gen
    BY <1>5, StepOthers, GenerationNoted DEF Warned
  <2>6. Settled(th'[u].gen)
    BY <1>1, <1>5, <2>1, <2>3, <2>5
  <2>7. th'[u].gen \in Nat \ {0}
    BY <1>2, <1>5, <2>5
  <2>8. ASSUME NEW g \in Nat \ {0}, Settled(g)', g = th'[u].gen PROVE (Settled(th[u].gen))'
    BY <2>8 DEF Settled, LinksFollow, Follows
  <2> QED
    BY <2>4, <2>6, <2>7, <2>8
<1> QED
  BY <1>1, <1>4, <1>5

\* The start takes the path that the setting names.
LEMMA BootPath ==
  ASSUME TypeInv, PathInv, Boot
  PROVE  PathInv'
<1>1. /\ UNCHANGED <<restoring, th, strain>> /\ app # "up"
      /\ \A t \in Threads : th[t] = Idle
  BY Starting DEF Boot, Resolve, Export, ReplacePlain, Open, Upgrade, Serve, OpenFails
<1>2. /\ gen' = gen /\ setting' = setting /\ reach' = reach
      /\ \/ cache' = cache /\ pool' = pool
         \/ Resolve /\ cache' = [gen |-> gen, home |-> Resolved] /\ pool' = pool
         \/ Serve /\ cache' = cache
            /\ pool' = Append(pool, [gen |-> gen, home |-> Home, keys |-> enforced])
  BY DEF Boot, Resolve, Export, ReplacePlain, Open, Upgrade, Serve, OpenFails, StartFails, stores,
     links
<1>3. Named' = Named /\ gen \in Nat \ {0} /\ pool = <<>>
  BY <1>1, <1>2, Starting DEF Named, TypeInv
<1>4. ASSUME NEW c, c = [gen |-> gen, home |-> Home, keys |-> enforced], Serve,
             pool' = Append(pool, c), cache' = cache
      PROVE  /\ \A i \in DOMAIN pool' : pool'[i].gen = gen /\ pool'[i].home = cache.home
             /\ cache.gen = gen
  <2>1. c.gen = gen /\ c.home = cache.home
    BY <1>4 DEF Home
  <2>2. \A i \in DOMAIN pool' : pool'[i] = c
    BY <1>3, <1>4
  <2> QED
    BY <1>4, <2>1, <2>2 DEF Serve, TypeInv, Boots
<1>5. ~Switching
  BY <1>1 DEF Switching, Idle
<1>6. LinksDated'
  BY <1>2, <1>3, <1>4 DEF PathInv, LinksDated
<1>7. (\A u \in Threads : Dated(u)') /\ Locked'
  BY <1>1, <1>2 DEF PathInv, Dated, Looking, Locked, Moving
<1>8. Following'
  <2> SUFFICES ASSUME "unplugged" \notin strain
               PROVE  reach' = Homes /\ Settled(gen)'
    BY <1>1, <1>5 DEF Following, Switching, Idle
  <2>1. reach = Homes /\ Settled(gen) /\ Resolved = Named
    BY <1>5 DEF PathInv, Following, Resolved, Named, Homes
  <2>2. LinksFollow(gen)'
    BY <1>2, <1>3, <1>4, <2>1 DEF Settled, LinksFollow
  <2>3. \A u \in Threads : Follows(u, gen)'
    BY <1>1, <1>2, <1>3 DEF Follows, Idle
  <2> QED
    BY <1>2, <2>1, <2>2, <2>3 DEF Settled
<1> QED
  BY <1>6, <1>7, <1>8 DEF PathInv

\* Every step keeps the invariant.
LEMMA NextPath ==
  ASSUME TypeInv, PathInv, [Next]_vars
  PROVE  PathInv'
<1>1. /\ LinksDated /\ (\A u \in Threads : Dated(u)) /\ Locked /\ Following
      /\ gen \in Nat \ {0}
  BY DEF PathInv, TypeInv
<1>2. ASSUME NEW t \in Threads, Step(t) PROVE PathInv'
  <2>1. gen' \in Nat /\ gen <= gen'
    BY <1>2, GenerationGrows
  <2>2. \A u \in Threads : Dated(u)'
    BY <1>1, <1>2, <2>1, OwnDated, OthersDated, StepOthers
  <2> QED
    BY <1>1, <1>2, <2>2, StepLinksDated, StepLocked, StepFollowing DEF PathInv
<1>3. ASSUME NEW t \in Threads, Begin(t) PROVE PathInv'
  <2>1. /\ UNCHANGED <<setting, reach, gen, cache, pool, restoring>>
        /\ "unplugged" \in strain' <=> "unplugged" \in strain
        /\ \A u \in Threads \ {t} : th'[u] = th[u]
    BY <1>3, BeginEffect DEF Begin, stores, links, Typed, OthersStay
  <2>2. /\ th'[t].gen = 0 /\ th'[t].seen = 0 /\ th'[t].conn = "none" /\ th'[t].fresh = ~restoring
        /\ th'[t].pc \in {"check", "resolve"}
        /\ th'[t].pc = "resolve" => th'[t].then \in {"snapshot", "lock"}
        /\ th[t].pc = "idle"
    BY <1>3, BeginEffect
  <2>3. LinksDated' /\ Named' = Named
    BY <1>1, <2>1 DEF LinksDated, Named
  <2>4. \A u \in Threads : Dated(u)'
    BY <1>1, <2>1, <2>2 DEF Dated, Looking, LookupPCs
  <2>5. ~Moving(t)' /\ ~Moving(t) /\ \A u \in Threads \ {t} : Moving(u)' = Moving(u)
    BY <2>1, <2>2 DEF Moving, MovePCs, RecordPCs
  <2>6. Locked'
    BY <1>1, <2>1, <2>2, <2>5 DEF Locked
  <2>7. Switching' = Switching
    BY <2>1, <2>2 DEF Switching
  <2>8. ASSUME NEW g \in Nat \ {0}, Settled(g) PROVE Settled(g)'
    BY <2>1, <2>2, <2>3, <2>8 DEF Settled, LinksFollow, Follows
  <2>9. Following'
    <3> SUFFICES ASSUME "unplugged" \notin strain
                 PROVE  /\ reach' = Homes
                        /\ ~Switching' => Settled(gen)'
                        /\ \A u \in Threads : th'[u].fresh /\ ~restoring' /\ th'[u].gen # 0 =>
                                                (Settled(th[u].gen))'
      BY <2>1 DEF Following
    <3>1. reach' = Homes /\ (~Switching' => Settled(gen)')
      BY <1>1, <2>1, <2>7, <2>8 DEF Following
    <3>2. ASSUME NEW u \in Threads, th'[u].fresh, ~restoring', th'[u].gen # 0
          PROVE  (Settled(th[u].gen))'
      <4>1. th'[u] = th[u] /\ u # t
        BY <2>1, <2>2, <3>2
      <4>2. Settled(th[u].gen) /\ th[u].gen \in Nat \ {0}
        BY <1>1, <2>1, <3>2, <4>1, ThreadTypes DEF Following, ThreadStates
      <4>3. ASSUME NEW g \in Nat \ {0}, Settled(g)', g = th'[u].gen PROVE (Settled(th[u].gen))'
        BY <4>3 DEF Settled, LinksFollow, Follows
      <4> QED
        BY <2>8, <4>1, <4>2, <4>3
    <3> QED
      BY <3>1, <3>2
  <2> QED
    BY <2>3, <2>4, <2>6, <2>9 DEF PathInv
<1>4. CASE Crash
  <2>1. /\ gen' = 1 /\ cache' = None /\ pool' = <<>> /\ ~restoring' /\ reach' = reach
        /\ ("unplugged" \in strain' <=> "unplugged" \in strain)
        /\ \A u \in Threads : th'[u] = Idle
    BY <1>4 DEF Crash
  <2>2. LinksDated' /\ LinksFollow(1)'
    BY <2>1 DEF LinksDated, LinksFollow, None
  <2>3. \A u \in Threads : Dated(u)' /\ Follows(u, 1)' /\ ~Moving(u)' /\ th'[u].gen = 0
    BY <2>1 DEF Dated, Looking, LookupPCs, Follows, Moving, MovePCs, RecordPCs, Idle
  <2>4. Locked'
    BY <2>1, <2>3 DEF Locked
  <2>5. Settled(gen)'
    BY <2>1, <2>2, <2>3 DEF Settled, LinksFollow, Follows
  <2> QED
    BY <1>1, <2>1, <2>2, <2>3, <2>4, <2>5 DEF PathInv, Following
<1>5. CASE Unplug
  <2>1. UNCHANGED <<gen, cache, pool, restoring, th>> /\ "unplugged" \in strain'
    BY <1>5 DEF Unplug, links
  <2> QED
    BY <1>1, <2>1 DEF PathInv, LinksDated, Dated, Looking, Locked, Moving, Following
<1>6. ASSUME UNCHANGED <<setting, gen, cache, pool, restoring, th, strain>>,
             "unplugged" \notin strain => reach' = reach
      PROVE  PathInv'
  <2>1. LinksDated' /\ Locked' /\ \A u \in Threads : Dated(u)'
    BY <1>1, <1>6 DEF LinksDated, Dated, Looking, Locked, Moving
  <2>2. Following'
    BY <1>1, <1>6 DEF Following, Switching, Settled, LinksFollow, Follows, Named
  <2> QED
    BY <2>1, <2>2 DEF PathInv
<1>7. CASE Plug
  <2>1. "unplugged" \notin strain => FALSE
    BY <1>1, <1>7 DEF Plug, Following, Homes
  <2> QED
    BY <1>6, <1>7, <2>1 DEF Plug, stores, links
<1>8. CASE Quit \/ UNCHANGED vars
  BY <1>6, <1>8 DEF Quit, vars, stores, links
<1>9. CASE Boot
  BY <1>9, BootPath
<1> QED
  BY <1>2, <1>3, <1>4, <1>5, <1>7, <1>8, <1>9 DEF Next

\* Nothing is cached under a generation ahead, only one move runs, and what is
\* cached follows the setting wherever no move is at work.
THEOREM PathsHold == Spec => []PathInv
<1>1. Init => PathInv
  BY DEF Init, PathInv, LinksDated, Dated, Looking, Locked, Moving, Following, Switching, Settled,
     LinksFollow, Follows, None, Idle, LookupPCs, MovePCs, RecordPCs
<1>2. TypeInv /\ PathInv /\ [Next]_vars => PathInv'
  BY NextPath
<1> QED
  BY <1>1, <1>2, HomeTypes, PTL DEF Spec

\* A command that begins with no move running, and meets none, writes to the database
\* that the setting names, whatever moves before it, interrupted or not, have left in
\* the cache and in the pool - unless the shared folder has been lost.
THEOREM FreshOnesFollow == Spec => FreshCommandsFollow
<1>1. ASSUME TypeInv, PathInv, NEW t \in Threads, th[t].fresh, ~restoring, At(t, "commit"),
             Commit(t), "unplugged" \notin strain
      PROVE  th[t].conn = Named
  <2>1. th[t].pc = "commit" /\ th[t].gen # 0 /\ th[t].gen \in Nat /\ th[t].conn \in Homes
    BY <1>1, ThreadTypes, CommitEffect DEF At, PathInv, Dated, ThreadStates
  <2>2. Settled(th[t].gen)
    BY <1>1, <2>1 DEF PathInv, Following
  <2> QED
    BY <2>1, <2>2 DEF Settled, Follows, Homes
<1>2. TypeInv /\ PathInv =>
        [\A t \in Threads : /\ th[t].fresh /\ ~restoring
                            /\ At(t, "commit") /\ Commit(t)
                            /\ "unplugged" \notin strain
                            => th[t].conn = Named]_vars
  BY <1>1
<1> QED
  BY <1>2, HomeTypes, PathsHold, PTL DEF FreshCommandsFollow
-----------------------------------------------------------------------------
(* One command after another: the invariant. *)

\* Opening a database creates a file that holds nothing where there is none.
LEMMA OpeningHolds ==
  ASSUME TypeInv, NoFileIsEmpty, NEW h \in Homes, db' = Opened(h)
  PROVE  /\ NoFileIsEmpty' /\ \A g \in Homes : Holds(db'[g]) = Holds(db[g])
         /\ \A g \in Homes \ {h} : db'[g] = db[g]
<1>1. /\ \A g \in Homes \ {h} : db'[g] = db[g]
      /\ db'[h] = IF db[h].file THEN db[h] ELSE Blank
  BY OpenedFacts DEF TypeInv
<1> QED
  BY <1>1, Originals DEF NoFileIsEmpty, Holds

\* What a commit does to the database that it is on.
LEMMA CommitHolds ==
  ASSUME TypeInv, NoFileIsEmpty, NEW t \in Threads, Commit(t)
  PROVE  /\ NoFileIsEmpty' /\ snaps' = snaps /\ \A g \in Homes \ {th[t].conn} : db'[g] = db[g]
         /\ \/ /\ th[t].task = "write" /\ acked' = acked \cup {th[t].id}
               /\ Holds(db'[th[t].conn]) = Holds(db[th[t].conn]) \cup {th[t].id}
            \/ /\ th[t].task = "reset" /\ acked' = acked
               /\ Holds(db'[th[t].conn]) = {}
            \/ db' = db /\ acked' = acked
<1> DEFINE h == th[t].conn
<1>1. h \in Homes /\ db \in [Homes -> Databases] /\ db[h] \in Databases /\ snaps' = snaps
  BY CommitEffect DEF TypeInv, Commit
<1> HIDE DEF h
<1>2. ASSUME NEW m, NEW w,
             db' = [db EXCEPT ![h] = [db[h] EXCEPT !.main = m, !.wal = w]]
      PROVE  /\ db'[h].main = m /\ db'[h].wal = w /\ db'[h].file = db[h].file
             /\ \A g \in Homes \ {h} : db'[g] = db[g]
  <2>1. db'[h] = [db[h] EXCEPT !.main = m, !.wal = w] /\ \A g \in Homes \ {h} : db'[g] = db[g]
    BY <1>1, <1>2
  <2> QED
    BY <1>1, <2>1 DEF Databases
<1>3. ASSUME "tables" \in db[h].has, db'[h].file = db[h].file,
             \A g \in Homes \ {h} : db'[g] = db[g]
      PROVE  NoFileIsEmpty'
  BY <1>1, <1>3 DEF NoFileIsEmpty
<1>4. CASE /\ "tables" \in db[h].has /\ th[t].task = "write" /\ acked' = acked \cup {th[t].id}
           /\ db' = [db EXCEPT ![h].main = Holds(db[h]) \cup {th[t].id}, ![h].wal = {}]
  <2> DEFINE m == Holds(db[h]) \cup {th[t].id}
  <2>1. db' = [db EXCEPT ![h] = [db[h] EXCEPT !.main = m, !.wal = {}]]
    BY <1>1, <1>4
  <2> HIDE DEF m
  <2>2. /\ db'[h].main = m /\ db'[h].wal = {} /\ db'[h].file = db[h].file
        /\ \A g \in Homes \ {h} : db'[g] = db[g]
    BY <1>2, <2>1
  <2> QED
    BY <1>1, <1>3, <1>4, <2>2 DEF Holds, m, h
<1>5. CASE /\ "tables" \in db[h].has /\ th[t].task = "write" /\ acked' = acked \cup {th[t].id}
           /\ db' = [db EXCEPT ![h].wal = @ \cup {th[t].id}]
  <2> DEFINE w == db[h].wal \cup {th[t].id}
  <2>1. db' = [db EXCEPT ![h] = [db[h] EXCEPT !.main = db[h].main, !.wal = w]]
    <3>1. [db[h] EXCEPT !.wal = w] = [db[h] EXCEPT !.main = db[h].main, !.wal = w]
      BY <1>1 DEF Databases
    <3>2. db' = [db EXCEPT ![h] = [db[h] EXCEPT !.wal = w]]
      BY <1>5
    <3> HIDE DEF w
    <3> QED
      BY <3>1, <3>2
  <2> HIDE DEF w
  <2>2. /\ db'[h].main = db[h].main /\ db'[h].wal = w /\ db'[h].file = db[h].file
        /\ \A g \in Homes \ {h} : db'[g] = db[g]
    BY <1>2, <2>1
  <2> QED
    BY <1>1, <1>3, <1>5, <2>2 DEF Holds, w, h
<1>6. CASE /\ "tables" \in db[h].has /\ th[t].task = "reset" /\ acked' = acked
           /\ db' = [db EXCEPT ![h] = Emptied(db[h])]
  <2>1. /\ Emptied(db[h]).main = {} /\ Emptied(db[h]).wal = {}
        /\ Emptied(db[h]).file = db[h].file
    BY <1>1 DEF Emptied, Databases
  <2>2. /\ db'[h].main = {} /\ db'[h].wal = {} /\ db'[h].file = db[h].file
        /\ \A g \in Homes \ {h} : db'[g] = db[g]
    BY <1>1, <1>6, <2>1
  <2> QED
    BY <1>1, <1>3, <1>6, <2>2 DEF Holds, h
<1>7. CASE db' = db /\ acked' = acked
  BY <1>1, <1>7 DEF NoFileIsEmpty
<1> QED
  BY <1>4, <1>5, <1>6, <1>7 DEF Commit, h

\* A checkpoint loses nothing, and leaves no log where no connection is open.
LEMMA CheckpointHolds ==
  ASSUME TypeInv, NoFileIsEmpty, NEW t \in Threads, Checkpoint(t)
  PROVE  /\ NoFileIsEmpty' /\ snaps' = snaps /\ acked' = acked
         /\ \A g \in Homes : Holds(db[g]) \subseteq Holds(db'[g])
         /\ \A g \in Homes \ {From(t)} : db'[g] = db[g]
         /\ th'[t].pc = "copy" =>
              db'[From(t)].wal = {} \/ \E u \in Threads : th[u].conn = From(t)
<1> DEFINE h == From(t)
<1>1. h \in Homes /\ snaps' = snaps /\ acked' = acked
  BY CheckpointEffect, MoveTypes DEF Checkpoint, From, MovePCs, history
<1>2. CASE th'[t].pc = "unlock" /\ db' = db
  BY <1>1, <1>2 DEF NoFileIsEmpty
<1>3. ASSUME NEW kept \in SUBSET db[h].wal, kept # {} => \E u \in Threads : th[u].conn = h,
             db' = [Opened(h) EXCEPT ![h].main = @ \cup (db[h].wal \ kept), ![h].wal = kept]
      PROVE  /\ NoFileIsEmpty' /\ \A g \in Homes : Holds(db[g]) \subseteq Holds(db'[g])
             /\ \A g \in Homes \ {h} : db'[g] = db[g]
             /\ db'[h].wal = {} \/ \E u \in Threads : th[u].conn = h
  <2>1. /\ \A g \in Homes \ {h} : db'[g] = db[g]
        /\ db'[h].main = Opened(h)[h].main \cup (db[h].wal \ kept) /\ db'[h].wal = kept
        /\ db'[h].file = Opened(h)[h].file
    BY <1>1, <1>3, CheckpointKeeps
  <2>2. Opened(h)[h] = IF db[h].file THEN db[h] ELSE Blank
    BY <1>1, OpenedFacts DEF TypeInv
  <2>3. db'[h].file /\ Holds(db[h]) \subseteq Holds(db'[h])
    BY <1>1, <1>3, <2>1, <2>2, Originals DEF NoFileIsEmpty, Holds
  <2> QED
    BY <1>1, <1>3, <2>1, <2>3 DEF NoFileIsEmpty
<1> HIDE DEF h
<1>4. \/ \E kept \in SUBSET db[h].wal :
           /\ kept # {} => \E u \in Threads : th[u].conn = h
           /\ db' = [Opened(h) EXCEPT ![h].main = @ \cup (db[h].wal \ kept), ![h].wal = kept]
      \/ th'[t].pc = "unlock" /\ db' = db
  BY CheckpointEffect DEF h
<1> QED
  BY <1>1, <1>2, <1>3, <1>4 DEF h

\* A copy to where nothing is loses nothing, and holds what its source holds if that
\* has no log.
LEMMA CopyHolds ==
  ASSUME TypeInv, NoFileIsEmpty, NEW t \in Threads, Copy(t),
         From(t) # th[t].to, ~db[th[t].to].file, db[From(t)].wal = {}
  PROVE  /\ NoFileIsEmpty' /\ snaps' = snaps /\ acked' = acked
         /\ \A g \in Homes : Holds(db[g]) \subseteq Holds(db'[g])
         /\ th'[t].mode = "copy" => Holds(db'[From(t)]) = Holds(db'[th[t].to])
<1>1. /\ From(t) \in Homes /\ th[t].to \in Homes /\ snaps' = snaps /\ acked' = acked
  BY CopyEffect, MoveTypes DEF Copy, From, MovePCs, history
<1>2. CASE Gives(t) /\ db' = db
  BY <1>1, <1>2 DEF NoFileIsEmpty, Gives
<1>3. CASE db' = [db EXCEPT ![th[t].to] = [db[From(t)] EXCEPT !.wal = {}]]
  <2>1. /\ \A k \in Homes \ {th[t].to} : db'[k] = db[k]
        /\ db'[th[t].to].main = db[From(t)].main /\ db'[th[t].to].wal = {}
        /\ db'[th[t].to].file = db[From(t)].file /\ db'[th[t].to].has = db[From(t)].has
    BY <1>1, <1>3, CopyKeeps
  <2>2. Holds(db'[th[t].to]) = Holds(db[From(t)]) /\ Holds(db[th[t].to]) = {}
    BY <1>1, <2>1 DEF Holds, NoFileIsEmpty
  <2> QED
    BY <1>1, <2>1, <2>2 DEF NoFileIsEmpty
<1> QED
  BY <1>2, <1>3, CopyEffect

\* Giving up a move removes at most what it has copied.
LEMMA AbandonHolds ==
  ASSUME TypeInv, NoFileIsEmpty, NEW t \in Threads, Abandon(t)
  PROVE  /\ NoFileIsEmpty' /\ snaps' = snaps /\ acked' = acked
         /\ \A g \in Homes \ {th[t].to} : db'[g] = db[g]
         /\ th[t].mode # "copy" => db' = db
<1>1. th[t].to \in Homes /\ snaps' = snaps /\ acked' = acked
  BY AbandonEffect, MoveTypes DEF Abandon, MovePCs, history
<1>2. Missing.has = {} /\ Holds(Missing) = {}
  BY Originals DEF Holds
<1>3. db' = db \/ (db' = [db EXCEPT ![th[t].to] = Missing] /\ th[t].mode = "copy")
  BY AbandonEffect
<1>4. \A g \in Homes \ {th[t].to} : db'[g] = db[g]
  BY <1>3 DEF TypeInv
<1>5. NoFileIsEmpty'
  BY <1>1, <1>2, <1>3, <1>4 DEF NoFileIsEmpty, TypeInv
<1> QED
  BY <1>1, <1>3, <1>4, <1>5

\* The other steps leave the databases, the snapshots and the acknowledged writes.
LEMMA StoresStay ==
  ASSUME NEW t \in Threads, Step(t)
  PROVE  \/ UNCHANGED <<db, snaps, acked>>
         \/ Connect(t) \/ Commit(t) \/ ResetSnapshot(t) \/ Checkpoint(t) \/ Copy(t) \/ Abandon(t)
BY DEF Step, Lookup, Use, Check, ReadGeneration, Pop, Compare, Push, Reset, ResetJournal,
   ResetEnds, Move, Lock, Target, ReadForSetting, Truncate, Fill, Switch, MoveEnds, Record,
   stores, history

\* A missing file is of no concern to any command.
LEMMA StepEmpty ==
  ASSUME TypeInv, NoFileIsEmpty, NEW t \in Threads, Step(t)
  PROVE  NoFileIsEmpty'
<1>1. CASE UNCHANGED <<db, snaps, acked>>
  BY <1>1 DEF NoFileIsEmpty
<1>2. CASE Connect(t)
  BY <1>2, ConnectEffect, OpeningHolds DEF NoFileIsEmpty
<1>3. CASE ResetSnapshot(t)
  BY <1>3, ResetSnapshotEffect, OpeningHolds DEF NoFileIsEmpty
<1>4. CASE Copy(t)
  <2>1. /\ From(t) \in Homes /\ th[t].to \in Homes
    BY <1>4, CopyEffect, MoveTypes DEF From, MovePCs
  <2>2. CASE db' = [db EXCEPT ![th[t].to] = [db[From(t)] EXCEPT !.wal = {}]]
    BY <1>4, <2>1, <2>2, CopyKeeps DEF NoFileIsEmpty, Holds, Copy
  <2> QED
    BY <1>4, <2>2, CopyEffect DEF NoFileIsEmpty
<1> QED
  BY <1>1, <1>2, <1>3, <1>4, StoresStay, CommitHolds, CheckpointHolds, AbandonHolds

\* Beside the one command that runs, every thread is idle, and knows nothing.
LEMMA OthersIdle ==
  ASSUME TypeInv, NEW t \in Threads, Step(t), \A u \in Threads : Active(u) => u = t
  PROVE  \A u \in Threads \ {t} : th[u] = Idle /\ th'[u] = Idle
<1>1. ThreadsOK /\ ThreadsOK'
  BY StepThreads DEF TypeInv
<1>2. ASSUME NEW u \in Threads \ {t} PROVE th[u] = Idle /\ th'[u] = Idle
  <2>1. th[u].pc = "idle" /\ (th'[u] = th[u] \/ Warned(u))
    BY StepOthers DEF Active
  <2>2. th'[u].pc = "idle"
    BY <2>1 DEF Warned
  <2> QED
    BY <1>1, <2>1, <2>2 DEF ThreadsOK, Shape
<1> QED
  BY <1>2

\* An idle thread has nothing to know.
LEMMA IdleKnows ==
  ASSUME NEW u \in Threads, gen' \in Nat \ {0}, th'[u] = Idle
  PROVE  Steady(u)' /\ ResetKnows(u)' /\ MoveKnows(u)'
BY DEF Steady, ResetKnows, MoveKnows, Idle, Cached

\* The one command that runs works on the database of the cached path.
LEMMA OwnSteady ==
  ASSUME TypeInv, NEW t \in Threads, Step(t), Dated(t), Steady(t),
         \A i \in DOMAIN pool : pool[i].gen = gen => Cached(pool[i].home)
  PROVE  Steady(t)'
<1>1. /\ gen \in Nat \ {0} /\ gen' \in Nat \ {0} /\ th[t].gen \in Nat /\ th[t].gen <= gen
  BY GenerationGrows, ThreadTypes DEF ThreadStates, Dated
<1>2. th'[t] = Idle => Steady(t)'
  BY <1>1, IdleKnows
<1>3. th[t].pc \in LookupPCs => th[t].then \in {"connect", "snapshot", "journal", "lock"}
  BY ThreadTypes, Tasks
\* A step that leaves the connection and the cache alone, and is none of a lookup.
<1>4. ASSUME SameConn(t), UNCHANGED links, th'[t].pc \notin {"named", "store", "pop", "connect"}
      PROVE  Steady(t)'
  BY <1>4 DEF SameConn, links, Steady, Cached
<1>5. CASE Lookup(t)
  <2>1. gen' = gen /\ pool' = pool
    BY <1>5 DEF Lookup
  <2>2. CASE ReadCache(t)
    <3>1. cache' = cache /\ SameConn(t)
      BY <2>2, ReadCacheEffect DEF ReadCache
    <3> QED
      BY <1>3, <2>1, <2>2, <3>1, ReadCacheEffect DEF SameConn, Steady, Cached, LookupPCs
  <2>3. CASE ReadSetting(t)
    <3>1. cache' = cache /\ SameConn(t)
      BY <2>3, ReadSettingEffect DEF ReadSetting
    <3> QED
      BY <2>1, <2>3, <3>1, ReadSettingEffect DEF SameConn, Steady, Cached
  <2>4. CASE StorePath(t)
    BY <1>1, <1>3, <2>1, <2>4, StorePathEffect DEF SameConn, SameHome, Steady, Cached, LookupPCs
  <2> QED
    BY <1>5, <2>2, <2>3, <2>4 DEF Lookup
<1>6. CASE Check(t)
  BY <1>2, <1>4, <1>6, CheckEffect DEF Check
<1>7. CASE ReadGeneration(t)
  BY <1>7, ReadGenerationEffect DEF ReadGeneration, Dated, links, Steady, Cached
<1>8. CASE Pop(t)
  <2>1. th[t].pc = "pop" /\ th[t].gen = gen /\ th'[t].gen = gen /\ gen' = gen /\ cache' = cache
    BY <1>8, PopEffect DEF Pop, Steady
  <2>2. CASE /\ th'[t].pc = "commit"
             /\ \E i \in DOMAIN pool : pool[i].gen = th[t].gen /\ th'[t].conn = pool[i].home
    <3>1. Cached(th'[t].conn)
      BY <2>1, <2>2
    <3> QED
      BY <2>1, <2>2, <3>1 DEF Steady, Cached
  <2>3. CASE th'[t].pc = "resolve" /\ th'[t].conn = th[t].conn
    BY <2>1, <2>3 DEF Steady, Cached
  <2> QED
    BY <1>8, <2>2, <2>3, PopEffect
<1>9. CASE Connect(t)
  BY <1>2, <1>9, ConnectEffect DEF Connect, links, Steady, Cached
<1>10. CASE Commit(t)
  BY <1>4, <1>10, CommitEffect DEF Commit
<1>11. CASE Compare(t) \/ Push(t)
  BY <1>2, <1>4, <1>11, CompareEffect, PushEffect DEF Compare
<1>12. CASE ResetSnapshot(t)
  BY <1>2, <1>4, <1>12, ResetSnapshotEffect DEF ResetSnapshot
<1>13. CASE ResetJournal(t)
  BY <1>4, <1>13, ResetJournalEffect DEF ResetJournal
<1>14. CASE ResetEnds(t)
  <2>1. gen' = gen + 1 /\ th'[t].gen = th[t].gen /\ th'[t].pc = "compare"
    BY <1>14, ResetEndsEffect DEF ResetEnds, Invalidate, SameConn
  <2> QED
    BY <1>1, <2>1 DEF Steady
<1>15. CASE Move(t)
  <2>1. /\ th'[t] = Idle \/ (th'[t].gen = 0 /\ th'[t].conn = "none")
        /\ th'[t].pc \notin {"named", "store", "pop", "connect"}
    <3>1. th[t].gen = 0 /\ th[t].conn = "none"
      BY <1>15, LockEffect, TargetEffect, CheckpointEffect, CopyEffect, SettingEffect,
         SwitchEffect, AbandonEffect, MoveEndsEffect, MoveTypes, RecordTypes DEF Move, MovePCs, RecordPCs
    <3>2. CASE Lock(t)
      BY <3>1, <3>2, LockEffect DEF SameConn, Idle
    <3>3. CASE Target(t) \/ Checkpoint(t) \/ Copy(t)
      BY <3>1, <3>3, TargetEffect, CheckpointEffect, CopyEffect DEF MovesOn, SameConn, Gives
    <3>4. CASE ReadForSetting(t) \/ Truncate(t) \/ Fill(t)
      BY <3>1, <3>4, SettingEffect DEF MovesOn, SameConn
    <3>5. CASE Switch(t) \/ Abandon(t) \/ MoveEnds(t)
      BY <3>1, <3>5, SwitchEffect, AbandonEffect, MoveEndsEffect DEF MovesOn, SameConn, Gives, Idle
    <3> QED
      BY <1>15, <3>2, <3>3, <3>4, <3>5 DEF Move
  <2> QED
    BY <1>1, <1>2, <2>1 DEF Steady
<1>16. CASE Record(t)
  BY <1>4, <1>16, VerifyEffect, AppendEffect DEF Record
<1> QED
  BY <1>5, <1>6, <1>7, <1>8, <1>9, <1>10, <1>11, <1>12, <1>13, <1>14, <1>15, <1>16
  DEF Step, Use, Reset

\* The pool holds what is cached.
LEMMA PoolIsCached ==
  ASSUME TypeInv, NEW t \in Threads, Step(t), Steady(t),
         \A i \in DOMAIN pool : pool[i].gen = gen => Cached(pool[i].home)
  PROVE  (\A i \in DOMAIN pool : pool[i].gen = gen => Cached(pool[i].home))'
<1>1. CASE UNCHANGED links
  BY <1>1 DEF links, Cached
<1>2. CASE Invalidate
  BY <1>2, InvalidateLinks
<1>3. CASE StorePath(t) /\ UNCHANGED <<gen, pool>>
  BY <1>3, StorePathEffect DEF Steady, Cached
<1>4. CASE (Pop(t) \/ Push(t)) /\ UNCHANGED <<gen, cache>>
  <2>1. ASSUME NEW i \in DOMAIN pool', pool'[i].gen = gen PROVE Cached(pool'[i].home)
    <3>1. CASE i \in DOMAIN pool /\ pool'[i] = pool[i]
      BY <2>1, <3>1
    <3>2. CASE Push(t) /\ pool'[i] = [gen |-> th[t].gen, home |-> th[t].conn, keys |-> TRUE]
      BY <2>1, <3>2, PushEffect DEF Steady, Homes
    <3> QED
      BY <1>4, <3>1, <3>2, PopEffect, PushEffect
  <2> QED
    BY <1>4, <2>1 DEF Cached
<1> QED
  BY <1>1, <1>2, <1>3, <1>4, StepGeneration

\* A reset knows that what it will delete is in a snapshot.
LEMMA OwnReset ==
  ASSUME TypeInv, NoFileIsEmpty, NEW t \in Threads, Step(t), Steady(t), ResetKnows(t),
         \A i \in DOMAIN pool : pool[i].gen = gen => Cached(pool[i].home)
  PROVE  ResetKnows(t)'
<1>1. CASE th'[t].task # "reset" \/ th'[t].pc \notin
             {"snapshot", "check", "generation", "pop", "connect", "resolve", "named", "store",
              "commit"}
  BY <1>1 DEF ResetKnows, Looking, LookupPCs
<1>2. CASE th'[t] = Idle
  BY <1>1, <1>2 DEF Idle
<1>3. th[t].pc \in LookupPCs => th[t].then \in {"connect", "snapshot", "journal", "lock"}
  BY ThreadTypes, Tasks
<1>4. cache.gen = gen => cache.home \in Homes
  BY DEF TypeInv
<1>5. CASE Lookup(t)
  <2>1. gen' = gen /\ db' = db /\ snaps' = snaps
    BY <1>5 DEF Lookup, stores
  <2>2. ASSUME cache' = cache PROVE \A h \in Homes : Cached(h)' = Cached(h)
    BY <2>1, <2>2 DEF Cached
  <2>3. CASE ReadCache(t)
    <3>1. cache' = cache /\ th'[t].task = th[t].task /\ th[t].pc = "resolve"
      BY <2>3, ReadCacheEffect DEF ReadCache, SameRun
    <3>2. CASE /\ cache.gen = gen /\ th'[t].pc = th[t].then /\ th'[t].home = cache.home
               /\ th'[t].then = "none"
      <4>1. th'[t].pc = "connect" => Looking(t, "connect")
        BY <3>1, <3>2 DEF Looking, LookupPCs
      <4>2. th'[t].pc \notin {"check", "generation", "pop", "commit"} /\ ~Looking(t, "connect")'
        BY <1>3, <3>1, <3>2 DEF Looking, LookupPCs
      <4> QED
        BY <2>1, <3>1, <3>2, <4>1, <4>2 DEF ResetKnows, Cached, InSnapshot
    <3>3. CASE cache.gen # gen /\ th'[t].pc = "named" /\ th'[t].then = th[t].then
      BY <2>1, <3>1, <3>3 DEF ResetKnows, Looking, LookupPCs
    <3> QED
      BY <2>3, <3>2, <3>3, ReadCacheEffect
  <2>4. CASE ReadSetting(t)
    <3>1. th[t].task = "reset" => th[t].then # "connect"
      BY <2>4, ReadSettingEffect DEF ResetKnows, Steady, Looking, LookupPCs
    <3> QED
      BY <2>4, <3>1, ReadSettingEffect DEF SameRun, ResetKnows, Looking
  <2>5. CASE StorePath(t)
    <3>1. th[t].task = "reset" => th[t].then # "connect"
      BY <2>5, StorePathEffect DEF ResetKnows, Steady, Looking, LookupPCs
    <3>2. th[t].seen = gen /\ th'[t].home = th[t].home /\ th'[t].task = th[t].task
      BY <2>5, StorePathEffect DEF Steady, SameHome, SameRun
    <3>3. th'[t].pc \notin {"check", "generation", "pop", "commit"} /\ ~Looking(t, "connect")'
      BY <1>3, <2>5, StorePathEffect DEF Looking, LookupPCs
    <3> QED
      BY <2>1, <2>5, <3>1, <3>2, <3>3, StorePathEffect DEF ResetKnows, Cached
  <2> QED
    BY <1>5, <2>3, <2>4, <2>5 DEF Lookup
<1>6. CASE Check(t) \/ ReadGeneration(t)
  <2>1. /\ UNCHANGED <<db, snaps, gen, cache>>
        /\ th'[t] = Idle \/ (th'[t].pc \in {"generation", "pop"} /\ th'[t].task = th[t].task)
        /\ th[t].pc \in {"check", "generation"}
    BY <1>6, CheckEffect, ReadGenerationEffect DEF Check, ReadGeneration, stores, links, SameRun
  <2> QED
    BY <1>2, <2>1 DEF ResetKnows, InSnapshot, Looking, LookupPCs
<1>7. CASE Pop(t)
  <2>1. /\ UNCHANGED <<db, snaps, gen, cache>> /\ th'[t].task = th[t].task /\ th[t].pc = "pop"
        /\ th[t].gen = gen
    BY <1>7, PopEffect DEF Pop, stores, SameRun, Steady
  <2>2. CASE /\ th'[t].pc = "commit"
             /\ \E i \in DOMAIN pool : pool[i].gen = th[t].gen /\ th'[t].conn = pool[i].home
    <3>1. cache.home = th'[t].conn
      BY <2>1, <2>2 DEF Cached
    <3> QED
      BY <2>1, <2>2, <3>1 DEF ResetKnows, InSnapshot, Looking, LookupPCs
  <2>3. CASE th'[t].pc = "resolve"
    BY <2>1, <2>3 DEF ResetKnows, InSnapshot, Looking, LookupPCs
  <2> QED
    BY <1>7, <2>2, <2>3, PopEffect
<1>8. CASE Connect(t)
  <2>1. CASE db' = Opened(th[t].home) /\ th'[t].pc = "commit" /\ th'[t].conn = th[t].home
    <3>1. /\ snaps' = snaps /\ th[t].pc = "connect" /\ th[t].home \in Homes
          /\ th'[t].task = th[t].task
      <4>1. snaps' = snaps
        BY <1>8 DEF Connect
      <4>2. SameRun(t)
        BY <1>8, <2>1, ConnectEffect DEF Idle
      <4> QED
        BY <1>8, <4>1, <4>2, ConnectEffect DEF SameRun
    <3>2. Holds(db'[th[t].home]) = Holds(db[th[t].home]) /\ cache.home = th[t].home
      BY <2>1, <3>1, OpeningHolds DEF Steady, Cached
    <3> QED
      BY <2>1, <3>1, <3>2 DEF ResetKnows, InSnapshot, Looking, LookupPCs
  <2> QED
    BY <1>2, <1>8, <2>1, ConnectEffect
<1>9. CASE Commit(t)
  BY <1>1, <1>9, CommitEffect DEF ResetKnows, Looking, LookupPCs
<1>10. CASE Compare(t) \/ Push(t)
  BY <1>1, <1>2, <1>10, CompareEffect, PushEffect
<1>11. CASE ResetSnapshot(t)
  <2>1. CASE /\ th'[t].pc = "check" /\ db' = Opened(th[t].home)
             /\ snaps' = snaps \cup {db'[th[t].home]}
    <3>1. th[t].pc = "snapshot" /\ Cached(th[t].home) /\ UNCHANGED <<gen, cache>>
      BY <1>11, ResetSnapshotEffect DEF ResetSnapshot, links, ResetKnows
    <3>2. InSnapshot(db[cache.home])'
      BY <2>1, <3>1 DEF InSnapshot, Cached
    <3> QED
      BY <2>1, <3>1, <3>2 DEF ResetKnows, Cached, Looking, LookupPCs
  <2> QED
    BY <1>2, <1>11, <2>1, ResetSnapshotEffect
<1>12. CASE ResetJournal(t) \/ ResetEnds(t)
  BY <1>1, <1>12, ResetJournalEffect, ResetEndsEffect
<1>13. CASE Move(t)
  <2>1. th'[t] = Idle \/ th'[t].task = "move"
    <3>1. CASE Lock(t)
      BY <3>1, LockEffect DEF SameRun
    <3>2. CASE Target(t) \/ Checkpoint(t) \/ Copy(t) \/ ReadForSetting(t) \/ Truncate(t) \/ Fill(t)
               \/ Switch(t) \/ Abandon(t)
      <4>1. MovesOn(t) /\ th[t].pc \in MovePCs
        BY <3>2, TargetEffect, CheckpointEffect, CopyEffect, SettingEffect, SwitchEffect,
           AbandonEffect DEF MovePCs
      <4> QED
        BY <4>1, MoveTypes DEF MovesOn, SameRun
    <3> QED
      BY <1>13, <3>1, <3>2, MoveEndsEffect DEF Move
  <2> QED
    BY <1>1, <1>2, <2>1
<1>14. CASE Record(t)
  BY <1>1, <1>14, VerifyEffect, AppendEffect DEF Record
<1> QED
  BY <1>5, <1>6, <1>7, <1>8, <1>9, <1>10, <1>11, <1>12, <1>13, <1>14 DEF Step, Use, Reset

\* A move knows that its target has what its source has once it has copied.
LEMMA OwnMove ==
  ASSUME TypeInv, NoFileIsEmpty, NEW t \in Threads, Step(t), MoveKnows(t),
         \A u \in Threads \ {t} : th[u] = Idle
  PROVE  MoveKnows(t)'
<1> DEFINE Busy == {"checkpoint", "copy", "setting", "truncate", "fill", "switchBack", "abandon"}
<1>1. th'[t].pc \notin Busy => MoveKnows(t)'
  BY DEF MoveKnows
<1>2. CASE Move(t) /\ ~Lock(t) /\ ~MoveEnds(t)
  <2>1. MovesOn(t) /\ th[t].pc \in MovePCs
    BY <1>2, TargetEffect, CheckpointEffect, CopyEffect, SettingEffect, SwitchEffect,
       AbandonEffect DEF Move, MovePCs
  <2>2. /\ th[t].home \in Homes /\ th[t].to \in Homes /\ th[t].conn = "none"
        /\ th'[t].home = th[t].home /\ th'[t].to = th[t].to /\ From(t) = th[t].home
        /\ From(t)' = From(t)
    BY <2>1, MoveTypes DEF MovesOn, SameRun, From
  <2>3. ASSUME db' = db, th'[t].mode = th[t].mode, th'[t].pc \in Busy \ {"checkpoint", "copy"},
               th[t].pc \in {"setting", "truncate", "fill", "switchBack", "abandon"}
        PROVE  MoveKnows(t)'
    BY <2>2, <2>3 DEF MoveKnows
  <2>4. CASE Target(t)
    BY <2>2, <2>4, TargetEffect DEF Target, stores, MoveKnows, Gives
  <2>5. CASE Checkpoint(t)
    <3>1. CASE th'[t].pc = "copy"
      <4>1. /\ th[t].pc = "checkpoint" /\ From(t) # th[t].to /\ ~db[th[t].to].file
        BY <2>5, CheckpointEffect DEF MoveKnows
      <4>2. ~\E u \in Threads : th[u].conn = From(t)
        BY <2>2 DEF Idle, Homes
      <4>3. db'[th[t].to] = db[th[t].to] /\ db'[From(t)].wal = {}
        BY <2>2, <2>5, <3>1, <4>1, <4>2, CheckpointHolds
      <4> QED
        BY <2>2, <3>1, <4>1, <4>3 DEF MoveKnows
    <3> QED
      BY <1>1, <2>5, <3>1, CheckpointEffect
  <2>6. CASE Copy(t)
    <3>1. CASE th'[t].pc = "setting" /\ th'[t].mode = "copy"
      <4>1. From(t) # th[t].to /\ ~db[th[t].to].file /\ db[From(t)].wal = {}
        BY <2>6, CopyEffect DEF MoveKnows
      <4>2. Holds(db'[From(t)]) = Holds(db'[th[t].to])
        BY <2>6, <3>1, <4>1, CopyHolds
      <4> QED
        BY <2>2, <3>1, <4>1, <4>2 DEF MoveKnows
    <3> QED
      BY <1>1, <2>6, <3>1, CopyEffect DEF Gives
  <2>7. CASE ReadForSetting(t) \/ Truncate(t) \/ Fill(t)
    <3>1. db' = db /\ th'[t].mode = th[t].mode
      BY <2>7, SettingEffect DEF ReadForSetting, Truncate, Fill, stores, SameHome
    <3>2. /\ th[t].pc \in {"setting", "truncate", "fill"}
          /\ th'[t].pc \in {"abandon", "truncate", "fill", "switchBack", "switch"}
      BY <2>7, SettingEffect
    <3> QED
      BY <1>1, <2>3, <3>1, <3>2
  <2>8. CASE Switch(t)
    <3>1. db' = db /\ th'[t].mode = th[t].mode
      BY <2>8, SwitchEffect DEF Switch, stores, SameHome
    <3>2. (th[t].pc = "switchBack" /\ th'[t].pc = "abandon") \/ th'[t].pc = "verify"
      BY <2>8, SwitchEffect
    <3> QED
      BY <1>1, <2>3, <3>1, <3>2
  <2>9. CASE Abandon(t)
    BY <1>1, <2>9, AbandonEffect DEF Gives
  <2> QED
    BY <1>2, <2>4, <2>5, <2>6, <2>7, <2>8, <2>9 DEF Move
<1>3. CASE Lock(t) \/ MoveEnds(t)
  BY <1>1, <1>3, LockEffect, MoveEndsEffect DEF Idle
<1>4. CASE Lookup(t)
  <2>1. th[t].pc \in LookupPCs => th[t].then \in {"connect", "snapshot", "journal", "lock"}
    BY ThreadTypes, Tasks
  <2> QED
    BY <1>1, <1>4, <2>1, ReadCacheEffect, ReadSettingEffect, StorePathEffect DEF Lookup, LookupPCs
<1>5. CASE Use(t)
  BY <1>1, <1>5, CheckEffect, ReadGenerationEffect, PopEffect, ConnectEffect, CommitEffect,
     CompareEffect, PushEffect DEF Use, Idle
<1>6. CASE Reset(t)
  BY <1>1, <1>6, ResetSnapshotEffect, ResetJournalEffect, ResetEndsEffect DEF Reset, Idle
<1>7. CASE Record(t)
  BY <1>1, <1>7, VerifyEffect, AppendEffect DEF Record
<1> QED
  BY <1>2, <1>3, <1>4, <1>5, <1>6, <1>7 DEF Step, Move

\* No write is lost.
LEMMA StepHeld ==
  ASSUME TypeInv, NoFileIsEmpty, NEW t \in Threads, Step(t), ResetKnows(t), MoveKnows(t),
         \A w \in acked : Held(w)
  PROVE  \A w \in acked' : Held(w)'
\* What is held stays held if what each database holds is held.
<1>1. ASSUME snaps \subseteq snaps',
             \A h \in Homes : \A w \in Holds(db[h]) :
               (\E g \in Homes : w \in Holds(db'[g])) \/ \E s \in snaps' : w \in Holds(s)
      PROVE  \A w \in acked : Held(w)'
  BY <1>1 DEF Held
<1>2. CASE UNCHANGED <<db, snaps, acked>>
  BY <1>2 DEF Held
<1>3. CASE Connect(t)
  <2>1. \A h \in Homes : Holds(db'[h]) = Holds(db[h])
    BY <1>3, ConnectEffect, OpeningHolds
  <2>2. snaps' = snaps /\ acked' = acked
    BY <1>3 DEF Connect, history
  <2> QED
    BY <1>1, <2>1, <2>2
<1>4. CASE ResetSnapshot(t)
  <2>1. snaps \subseteq snaps' /\ \A h \in Homes : Holds(db'[h]) = Holds(db[h])
    BY <1>4, ResetSnapshotEffect, OpeningHolds
  <2>2. acked' = acked
    BY <1>4 DEF ResetSnapshot, history
  <2> QED
    BY <1>1, <2>1, <2>2
<1>5. CASE Commit(t)
  <2> DEFINE h == th[t].conn
  <2>1. /\ h \in Homes /\ th[t].pc = "commit" /\ snaps' = snaps
        /\ \A g \in Homes \ {h} : db'[g] = db[g]
    BY <1>5, CommitEffect, CommitHolds
  <2>2. CASE acked' = acked \cup {th[t].id} /\ Holds(db'[h]) = Holds(db[h]) \cup {th[t].id}
    <3>1. \A w \in acked : Held(w)'
      BY <1>1, <2>1, <2>2
    <3> QED
      BY <2>1, <2>2, <3>1 DEF Held
  <2>3. CASE th[t].task = "reset" /\ acked' = acked
    <3>1. InSnapshot(db[h])
      BY <2>1, <2>3 DEF ResetKnows
    <3> QED
      BY <1>1, <2>1, <2>3, <3>1 DEF InSnapshot
  <2>4. CASE db' = db /\ acked' = acked
    BY <1>1, <2>1, <2>4
  <2> QED
    BY <1>5, <2>2, <2>3, <2>4, CommitHolds
<1>6. CASE Checkpoint(t)
  <2>1. /\ snaps' = snaps /\ acked' = acked
        /\ \A g \in Homes : Holds(db[g]) \subseteq Holds(db'[g])
    BY <1>6, CheckpointHolds
  <2> QED
    BY <1>1, <2>1
<1>7. CASE Copy(t)
  <2>1. From(t) # th[t].to /\ ~db[th[t].to].file /\ db[From(t)].wal = {}
    BY <1>7, CopyEffect DEF MoveKnows
  <2>2. /\ snaps' = snaps /\ acked' = acked
        /\ \A g \in Homes : Holds(db[g]) \subseteq Holds(db'[g])
    BY <1>7, <2>1, CopyHolds
  <2> QED
    BY <1>1, <2>2
<1>8. CASE Abandon(t)
  <2>1. /\ snaps' = snaps /\ acked' = acked /\ th[t].pc = "abandon"
        /\ \A g \in Homes \ {th[t].to} : db'[g] = db[g]
        /\ th[t].mode # "copy" => db' = db
    BY <1>8, AbandonEffect, AbandonHolds
  <2>2. CASE th[t].mode = "copy"
    <3>1. From(t) # th[t].to /\ Holds(db[From(t)]) = Holds(db[th[t].to]) /\ From(t) \in Homes
      BY <2>1, <2>2, MoveTypes DEF MoveKnows, From, MovePCs
    <3> QED
      BY <1>1, <2>1, <3>1
  <2> QED
    BY <1>1, <2>1, <2>2
<1> QED
  BY <1>2, <1>3, <1>4, <1>5, <1>6, <1>7, <1>8, StoresStay

\* The start loses nothing, and the path it caches is that of its connection.
LEMMA BootSerial ==
  ASSUME TypeInv, UpgradeInv, SerialInv, Boot
  PROVE  SerialInv'
<1>1. /\ UNCHANGED <<th, strain, acked>> /\ app # "up" /\ gen' = gen
      /\ gen \in Nat \ {0} /\ db \in [Homes -> Databases]
      /\ \A t \in Threads : th[t] = Idle
  BY Starting DEF TypeInv, Boot, Resolve, Export, ReplacePlain, Open, Upgrade, Serve, OpenFails,
     StartFails, links, history
<1>2. pool = <<>> /\ (app \in Boots => Home \in Homes /\ db[Home] \in Databases)
  BY <1>1, Starting
<1>3. ASSUME NEW d \in Databases, app \in Boots, db' = [db EXCEPT ![Home] = d],
             d.main = db[Home].main, d.wal = db[Home].wal,
             (d.file /\ db[Home].file) \/ (d.file = db[Home].file /\ d.has = db[Home].has)
      PROVE  NoFileIsEmpty' /\ \A h \in Homes : Holds(db'[h]) = Holds(db[h])
  <2>1. db'[Home] = d /\ \A h \in Homes \ {Home} : db'[h] = db[h]
    BY <1>1, <1>2, <1>3
  <2> QED
    BY <1>2, <1>3, <2>1 DEF SerialInv, NoFileIsEmpty, Holds
<1>4. /\ NoFileIsEmpty' /\ snaps \subseteq snaps'
      /\ \A h \in Homes : Holds(db'[h]) = Holds(db[h])
  <2>1. CASE UNCHANGED <<db, snaps>>
    BY <2>1 DEF SerialInv, NoFileIsEmpty
  <2>2. CASE ReplacePlain
    <3> DEFINE d == [db[Home] EXCEPT !.sealed = TRUE]
    <3>1. app \in Boots /\ db' = [db EXCEPT ![Home] = d] /\ snaps' = snaps
      BY <1>1, <2>2 DEF ReplacePlain, Boots
    <3>2. /\ d \in Databases /\ d.main = db[Home].main /\ d.wal = db[Home].wal
          /\ d.file = db[Home].file /\ d.has = db[Home].has
      BY <1>2, <3>1 DEF Databases
    <3> HIDE DEF d
    <3> QED
      BY <1>3, <3>1, <3>2
  <2>3. CASE db' = Opened(Home) /\ app = "open" /\ snaps \subseteq snaps'
    <3>1. Home \in Homes
      BY <1>2, <2>3 DEF Boots
    <3> QED
      BY <2>3, <3>1, OpeningHolds DEF SerialInv
  <2>4. CASE Upgrade
    <3> DEFINE d == After(Head(todo), db[Home])
    <3>1. app = "upgrade" /\ db' = [db EXCEPT ![Home] = d] /\ snaps' = snaps /\ todo # <<>>
      BY <2>4 DEF Upgrade
    <3>2. Head(todo) \in Steps
      BY <3>1 DEF TypeInv
    <3>3. AfterOK(Head(todo), db[Home], d) /\ db[Home].file
      BY <1>2, <3>1, <3>2, AfterFacts DEF UpgradeInv, Underway, Boots
    <3> HIDE DEF d
    <3> QED
      BY <1>3, <3>1, <3>3 DEF AfterOK, Boots
  <2>5. \/ UNCHANGED <<db, snaps>> \/ ReplacePlain \/ Upgrade
        \/ db' = Opened(Home) /\ app = "open" /\ snaps \subseteq snaps'
    BY DEF Boot, Resolve, Export, ReplacePlain, Open, Upgrade, Serve, OpenFails, StartFails, stores
  <2> QED
    BY <2>1, <2>2, <2>3, <2>4, <2>5
<1>5. (\A i \in DOMAIN pool : pool[i].gen = gen => Cached(pool[i].home))'
  <2>1. CASE pool' = pool
    BY <1>2, <2>1
  <2>2. CASE Serve
    <3> DEFINE c == [gen |-> gen, home |-> Home, keys |-> enforced]
    <3>1. pool' = Append(<<>>, c) /\ cache' = cache /\ cache.gen = gen /\ c.home = cache.home
      BY <1>2, <2>2 DEF Serve, TypeInv, Boots, Home
    <3> HIDE DEF c
    <3>2. \A i \in DOMAIN pool' : pool'[i] = c
      BY <3>1
    <3> QED
      BY <1>1, <3>1, <3>2 DEF Cached
  <2>3. pool' = pool \/ Serve
    BY DEF Boot, Resolve, Export, ReplacePlain, Open, Upgrade, OpenFails, StartFails, links
  <2> QED
    BY <2>1, <2>2, <2>3
<1>6. \A t \in Threads : Steady(t)' /\ ResetKnows(t)' /\ MoveKnows(t)' /\ ~Active(t)'
  BY <1>1, IdleKnows DEF Active, Idle
<1>7. "overlap" \notin strain => \A w \in acked : Held(w)'
  BY <1>4 DEF SerialInv, OneByOne, Held
<1> QED
  BY <1>1, <1>4, <1>5, <1>6, <1>7 DEF SerialInv, OneByOne

\* Every step keeps the invariant.
LEMMA NextSerial ==
  ASSUME TypeInv, UpgradeInv, PathInv, SerialInv, [Next]_vars
  PROVE  SerialInv'
<1>1. NoFileIsEmpty /\ ("overlap" \notin strain => OneByOne) /\ gen \in Nat \ {0}
  BY DEF SerialInv, TypeInv
<1>2. ASSUME NEW t \in Threads, Step(t) PROVE SerialInv'
  <2>1. NoFileIsEmpty' /\ strain' = strain
    BY <1>1, <1>2, StepEmpty DEF Step
  <2> SUFFICES ASSUME "overlap" \notin strain PROVE OneByOne'
    BY <2>1 DEF SerialInv
  <2>2. OneByOne /\ Active(t)
    BY <1>1, <1>2, NotIdle DEF Active
  <2>3. \A u \in Threads \ {t} : th[u] = Idle /\ th'[u] = Idle
    BY <1>2, <2>2, OthersIdle DEF OneByOne
  <2>4. Dated(t) /\ Steady(t) /\ ResetKnows(t) /\ MoveKnows(t)
        /\ \A i \in DOMAIN pool : pool[i].gen = gen => Cached(pool[i].home)
    BY <2>2 DEF PathInv, OneByOne
  <2>5. Steady(t)' /\ ResetKnows(t)' /\ MoveKnows(t)'
    BY <1>1, <1>2, <2>3, <2>4, OwnSteady, OwnReset, OwnMove
  <2>6. \A u \in Threads \ {t} : Steady(u)' /\ ResetKnows(u)' /\ MoveKnows(u)'
    <3>1. gen' \in Nat \ {0}
      BY <1>2, GenerationGrows
    <3> QED
      BY <2>3, <3>1, IdleKnows
  <2>7. (\A i \in DOMAIN pool : pool[i].gen = gen => Cached(pool[i].home))'
    BY <1>2, <2>4, PoolIsCached
  <2>8. \A w \in acked' : Held(w)'
    BY <1>1, <1>2, <2>2, <2>4, StepHeld DEF OneByOne
  <2>9. \A u, v \in Threads : Active(u)' /\ Active(v)' => u = v
    BY <2>3 DEF Active, Idle
  <2> QED
    BY <2>5, <2>6, <2>7, <2>8, <2>9 DEF OneByOne
<1>3. ASSUME NEW t \in Threads, Begin(t) PROVE SerialInv'
  <2>1. /\ UNCHANGED <<db, snaps, acked, gen, cache, pool>>
        /\ \A u \in Threads \ {t} : th'[u] = th[u]
        /\ strain' = strain \cup {s \in {"overlap"} : \E u \in Threads : ~At(u, "idle")}
    BY <1>3, BeginEffect DEF Begin, stores, links, history, Typed, OthersStay
  <2>2. NoFileIsEmpty'
    BY <1>1, <2>1 DEF NoFileIsEmpty
  <2> SUFFICES ASSUME "overlap" \notin strain' PROVE OneByOne'
    BY <2>2 DEF SerialInv
  <2>3. OneByOne /\ \A u \in Threads : ~Active(u)
    BY <1>1, <2>1 DEF Active, At
  <2>4. \A u \in Threads \ {t} : ~Active(u)' /\ Steady(u)' /\ ResetKnows(u)' /\ MoveKnows(u)'
    <3>1. \A u \in Threads : th[u] = Idle
      BY <2>3, ThreadTypes DEF Active, Shape
    <3> QED
      BY <1>1, <2>1, <3>1, IdleKnows DEF Active, Idle
  <2>5. Steady(t)' /\ ResetKnows(t)' /\ MoveKnows(t)'
    <3>1. /\ th'[t].gen = 0 /\ th'[t].conn = "none" /\ th'[t].pc \in {"check", "resolve"}
          /\ th'[t].pc = "check" => th'[t].task = "write"
          /\ th'[t].pc = "resolve" => th'[t].then \in {"snapshot", "lock"}
      BY <1>3, BeginEffect
    <3> QED
      BY <1>1, <2>1, <3>1 DEF Steady, ResetKnows, MoveKnows, Looking
  <2>6. /\ \A w \in acked' : Held(w)'
        /\ (\A i \in DOMAIN pool : pool[i].gen = gen => Cached(pool[i].home))'
    BY <2>1, <2>3 DEF OneByOne, Held, Cached
  <2> QED
    BY <2>4, <2>5, <2>6 DEF OneByOne
<1>4. CASE Crash
  <2>1. /\ gen' = 1 /\ pool' = <<>> /\ UNCHANGED <<db, snaps, acked>>
        /\ ("overlap" \in strain' <=> "overlap" \in strain)
        /\ \A u \in Threads : th'[u] = Idle
    BY <1>4 DEF Crash, stores, history
  <2>2. \A u \in Threads : Steady(u)' /\ ResetKnows(u)' /\ MoveKnows(u)' /\ ~Active(u)'
    BY <2>1, IdleKnows DEF Active, Idle
  <2>3. NoFileIsEmpty' /\ ("overlap" \notin strain => \A w \in acked' : Held(w)')
    BY <1>1, <2>1 DEF NoFileIsEmpty, OneByOne, Held
  <2> QED
    BY <2>1, <2>2, <2>3 DEF SerialInv, OneByOne
<1>5. ASSUME UNCHANGED <<db, snaps, acked, gen, cache, pool, th>>,
             "overlap" \in strain => "overlap" \in strain'
      PROVE  SerialInv'
  <2>1. NoFileIsEmpty'
    BY <1>1, <1>5 DEF NoFileIsEmpty
  <2>2. OneByOne => OneByOne'
    BY <1>5 DEF OneByOne, Active, Held, Steady, ResetKnows, MoveKnows, Cached, InSnapshot, Looking,
       From
  <2> QED
    BY <1>1, <1>5, <2>1, <2>2 DEF SerialInv
<1>6. CASE Quit \/ Unplug \/ Plug \/ UNCHANGED vars
  BY <1>5, <1>6 DEF Quit, Unplug, Plug, vars, stores, links, history
<1>7. CASE Boot
  BY <1>7, BootSerial
<1> QED
  BY <1>2, <1>3, <1>4, <1>6, <1>7 DEF Next

\* While commands run one after another, each works on the database of the cached
\* path, and what a reset or a failed move removes is held elsewhere.
THEOREM SerialHolds == Spec => []SerialInv
<1>1. Init => SerialInv
  <2>1. Init => NoFileIsEmpty
    <3> SUFFICES ASSUME Init PROVE NoFileIsEmpty
      OBVIOUS
    <3>1. Missing.has = {} /\ Holds(Missing) = {}
      BY Originals DEF Holds
    <3>2. Recent.file /\ Old.file /\ [Old EXCEPT !.sealed = FALSE].file
      BY DEF Recent, Old, Blank, Missing
    <3> QED
      BY <3>1, <3>2, FirstDatabases DEF NoFileIsEmpty
  <2>2. Init => OneByOne
    BY DEF Init, OneByOne, Active, Steady, ResetKnows, MoveKnows, Idle
  <2> QED
    BY <2>1, <2>2 DEF SerialInv
<1>2. TypeInv /\ UpgradeInv /\ PathInv /\ SerialInv /\ [Next]_vars => SerialInv'
  BY NextSerial
<1> QED
  BY <1>1, <1>2, HomeTypes, UpgradesHold, PathsHold, PTL DEF Spec

\* While commands run one after another, no acknowledged write is lost by a move or a
\* reset, done, failed or interrupted; and a database that has just been copied
\* holds what its source holds.
THEOREM NothingIsDestroyed == Spec => []NothingDestroyed
<1>1. SerialInv => NothingDestroyed
  BY DEF SerialInv, OneByOne, Held, MoveKnows, NothingDestroyed, At
<1> QED
  BY <1>1, SerialHolds, PTL
=============================================================================
