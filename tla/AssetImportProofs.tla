--------------------------- MODULE AssetImportProofs ---------------------------
(***************************************************************************)
(* Theorems about AssetImport for any workbooks, cells, people and bounds. *)
(***************************************************************************)
EXTENDS AssetImport, FiniteSetTheorems, WellFoundedInduction, TLAPS

\* The rows that a batch may have.
Domains == {DOMAIN Parsed[in] : in \in Inputs} \cup {{}}
\* A cell, as read or as edited.
Cell == STRING \cup Opt({"0"} \cup Numbers)
Row(who) ==
  [code : Opt(Codes), type : Opt(Types), name : Cell, serial : Opt(Serials), qty : Cell,
   owner : Opt(Keys), status : Status, resolved : who \cup {Nobody}]
BatchOf(who) == [mode : Modes \cup {"gone"}, rows : UNION {[D -> Row(who)] : D \in Domains}]
Category == [name : Types, mode : Modes, active : BOOLEAN]
AssetOf(who, n) == [serial : Opt(Serials), cat : 0..n, brand : Opt(STRING), holder : who \cup {Nobody},
                    imported : BOOLEAN]
StockOf(n) == [from : Nat \X UNION Domains, cat : 1..n, onHand : {"0"} \cup Numbers, copy : {0}]

CatInv   == categories \in Seq(Category)
BatchInv == batches \in Seq(BatchOf(staff)) /\ \A b \in DOMAIN batches : batches[b].mode = "gone" => batches[b] = Gone
AssetInv == /\ DOMAIN assets \subseteq Codes
            /\ assets \in [DOMAIN assets -> AssetOf(staff, Len(categories))]
StockInv == stock \subseteq StockOf(Len(categories))
MetaInv  == /\ staff \subseteq People /\ meta.pc \in {"idle", "apply"}
            /\ \E n \in Nat : DOMAIN meta.plan \subseteq 0..n
            /\ \A i \in DOMAIN meta.plan : meta.plan[i].brand \in Opt(STRING) /\ meta.plan[i].serial \in Opt(Serials)

TypeInv == CatInv /\ BatchInv /\ AssetInv /\ StockInv /\ MetaInv

\* The row that stock was made from stays marked, or is gone.
MarkedInv == \A s \in stock :
  /\ s.from[1] \in DOMAIN batches
  /\ batches[s.from[1]] # Gone =>
       /\ s.from[2] \in DOMAIN batches[s.from[1]].rows
       /\ batches[s.from[1]].rows[s.from[2]].status = "imported"

KindInv ==
  /\ \A s \in stock : categories[s.cat].mode = "quantity"
  /\ \A c \in DOMAIN assets : assets[c].imported =>
       assets[c].cat # 0 /\ categories[assets[c].cat].mode = "serialized"

-----------------------------------------------------------------------------
(* Operators. *)

\* A set that is not empty has the element chosen from it.
LEMMA TheIsIn ==
  ASSUME NEW S, S # {}
  PROVE  The(S) \in S
  BY DEF The

\* A set of numbers below a bound has a largest one.
LEMMA MaxIsIn ==
  ASSUME NEW n \in Nat, NEW S \in SUBSET (0..n), S # {}
  PROVE  Max(S) \in S
<1> DEFINE T == {n - x : x \in S}
           R == {ss \in Nat \X Nat : ss[1] < ss[2]}
<1>1. IsWellFoundedOn(R, Nat)
  BY NatLessThanWellFounded DEF OpToRel
<1>2. \A x \in 0..n : n - x \in Nat
  OBVIOUS
<1>3. T \subseteq Nat /\ T # {}
  BY <1>2
<1> HIDE DEF R, T
<1>4. PICK t \in T : \A y \in T : <<y, t>> \notin R
  BY <1>1, <1>3, WFMin
<1>5. PICK x \in S : t = n - x
  BY DEF T
<1>6. \A y \in S : x >= y
  <2> SUFFICES ASSUME NEW y \in S
               PROVE  x >= y
    OBVIOUS
  <2>1. n - y \in T /\ x \in Nat /\ y \in Nat
    BY DEF T
  <2>2. ~(n - y < n - x)
    BY <1>3, <1>4, <1>5, <2>1 DEF R
  <2> QED
    BY <2>1, <2>2
<1> QED
  BY <1>6 DEF Max

\* An owner that is found is an employee.
LEMMA OwnerType ==
  ASSUME NEW row
  PROVE  Owner(row) \in staff \cup {Nobody}
<1>1. CASE Cardinality(Candidate(row.owner)) = 1
  <2>1. Candidate(row.owner) # {}
    BY <1>1, FS_EmptySet
  <2>2. The(Candidate(row.owner)) \in Candidate(row.owner)
    BY <2>1, TheIsIn
  <2>3. Candidate(row.owner) \subseteq staff \X {"id", "digits"}
    BY DEF Candidate, Hits
  <2> QED
    BY <1>1, <2>2, <2>3 DEF Owner
<1> QED
  BY <1>1 DEF Owner

\* What validation leaves of a row: its cells, and all of an imported one.
LEMMA RevalidatedRows ==
  ASSUME NEW reg, NEW mode, NEW D, NEW rows \in [D -> Row(staff)]
  PROVE  /\ Revalidated(reg, mode, rows) \in [D -> Row(staff)]
         /\ \A i \in D :
              LET new == Revalidated(reg, mode, rows)[i] IN
              /\ new.code = rows[i].code /\ new.type = rows[i].type /\ new.serial = rows[i].serial
              /\ new.owner = rows[i].owner /\ new.qty = rows[i].qty
              /\ new.status = Verdict(reg, mode, rows, rows[i])
              /\ new.status = "imported" <=> rows[i].status = "imported"
              /\ rows[i].status = "imported" => new = rows[i]
              /\ rows[i].status # "imported" => new.resolved = Owner(rows[i])
<1> DEFINE new == Revalidated(reg, mode, rows)
<1>1. /\ DOMAIN new = D
      /\ \A i \in D : new[i] = [rows[i] EXCEPT
           !.status = Verdict(reg, mode, rows, rows[i]),
           !.resolved = IF rows[i].status = "imported" THEN @ ELSE Owner(rows[i])]
  BY DEF Revalidated
<1> HIDE DEF new
<1> SUFFICES ASSUME NEW i \in D
             PROVE  /\ new[i] \in Row(staff)
                    /\ new[i].code = rows[i].code /\ new[i].type = rows[i].type /\ new[i].serial = rows[i].serial
                    /\ new[i].owner = rows[i].owner /\ new[i].qty = rows[i].qty
                    /\ new[i].status = Verdict(reg, mode, rows, rows[i])
                    /\ new[i].status = "imported" <=> rows[i].status = "imported"
                    /\ rows[i].status = "imported" => new[i] = rows[i]
                    /\ rows[i].status # "imported" => new[i].resolved = Owner(rows[i])
  BY <1>1 DEF Revalidated, new
<1>2. /\ Verdict(reg, mode, rows, rows[i]) \in Status
      /\ Verdict(reg, mode, rows, rows[i]) = "imported" <=> rows[i].status = "imported"
  BY DEF Verdict, Status
<1>3. rows[i] \in Row(staff) /\ Owner(rows[i]) \in staff \cup {Nobody}
  BY OwnerType
<1>4. PICK v, w : /\ new[i] = [rows[i] EXCEPT !.status = v, !.resolved = w]
                   /\ v = Verdict(reg, mode, rows, rows[i])
                   /\ w = IF rows[i].status = "imported" THEN rows[i].resolved ELSE Owner(rows[i])
  BY <1>1
<1>5. v \in Status /\ w \in staff \cup {Nobody}
  BY <1>2, <1>3, <1>4 DEF Row
<1>6. new[i] \in Row(staff) /\ new[i].status = v /\ new[i].resolved = w
  BY <1>3, <1>4, <1>5 DEF Row
<1>7. /\ new[i].code = rows[i].code /\ new[i].type = rows[i].type /\ new[i].serial = rows[i].serial
      /\ new[i].owner = rows[i].owner /\ new[i].qty = rows[i].qty
  BY <1>3, <1>4 DEF Row
<1>8. rows[i].status = "imported" => new[i] = rows[i]
  <2>1. rows[i].status = "imported" => v = rows[i].status /\ w = rows[i].resolved
    BY <1>2, <1>4
  <2>2. [rows[i] EXCEPT !.status = rows[i].status, !.resolved = rows[i].resolved] = rows[i]
    BY <1>3 DEF Row
  <2> QED
    BY <1>4, <2>1, <2>2
<1> QED
  BY <1>2, <1>4, <1>6, <1>7, <1>8

\* The sequence of a finite set.
LEMMA SetAsSeq ==
  ASSUME NEW S, IsFiniteSet(S)
  PROVE  SetToSeq(S) \in Seq(S)
<1>1. Cardinality(S) \in Nat /\ Bijection(1..Cardinality(S), S) # {}
  BY FS_CardinalityType DEF ExistsBijection
<1>2. \E f \in [1..Cardinality(S) -> S] : IsInjective(f)
  BY <1>1 DEF Bijection, Injection
<1>3. SetToSeq(S) \in [1..Cardinality(S) -> S]
  BY <1>2 DEF SetToSeq
<1> QED
  BY <1>1, <1>3

\* Categories that an import makes come after the others.
LEMMA MoreCategories ==
  ASSUME CatInv, NEW types \in SUBSET Types, NEW mode \in Modes
  PROVE  LET cats == WithCategories(types, mode) IN
         /\ cats \in Seq(Category) /\ Len(categories) <= Len(cats)
         /\ \A c \in DOMAIN categories : c \in DOMAIN cats /\ cats[c] = categories[c]
<1> DEFINE S == {t \in types : Active(categories, t) = {}}
           new == SetToSeq(S)
           more == [i \in DOMAIN new |-> [name |-> new[i], mode |-> mode, active |-> TRUE]]
<1>1. IsFiniteSet(S)
  BY AssetConstantsOK, FS_Subset
<1>2. new \in Seq(S)
  BY <1>1, SetAsSeq
<1>3. S \subseteq Types
  OBVIOUS
<1> HIDE DEF new, S
<1>4. more \in Seq(Category)
  <2>1. Len(new) \in Nat /\ DOMAIN new = 1..Len(new) /\ \A i \in 1..Len(new) : new[i] \in S
    BY <1>2
  <2>2. more \in [1..Len(new) -> Category]
    BY <1>3, <2>1 DEF Category
  <2> QED
    BY <2>1, <2>2
<1>5. WithCategories(types, mode) = categories \o more
  BY DEF WithCategories, new, S
<1> HIDE DEF more
<1> QED
  BY <1>4, <1>5 DEF CatInv

\* A staged row before its first validation.
LEMMA FreshRows ==
  ASSUME NEW in \in Inputs
  PROVE  [i \in DOMAIN Parsed[in] |-> Fresh(Parsed[in][i])] \in [DOMAIN Parsed[in] -> Row(staff)]
<1> SUFFICES ASSUME NEW i \in DOMAIN Parsed[in]
             PROVE  Fresh(Parsed[in][i]) \in Row(staff)
  OBVIOUS
<1>1. PICK r : /\ r = Parsed[in][i]
               /\ r \in [code : Opt(Codes), type : Opt(Types), name : STRING, serial : Opt(Serials),
                         qty : STRING, owner : Opt(Keys)]
  BY CellsOK
<1>2. Fresh(r) = [code |-> r.code, type |-> r.type, name |-> r.name, serial |-> r.serial, qty |-> r.qty,
                  owner |-> r.owner, status |-> "valid", resolved |-> Nobody]
  BY <1>1 DEF Fresh
<1> QED
  BY <1>1, <1>2 DEF Row, Status, Cell

\* Rows that are marked imported keep the rest.
LEMMA MarkedRows ==
  ASSUME NEW D, NEW rows \in [D -> Row(staff)], NEW is \in SUBSET D
  PROVE  /\ MarkImported(rows, is) \in [D -> Row(staff)]
         /\ \A i \in D \ is : MarkImported(rows, is)[i] = rows[i]
         /\ \A i \in is : MarkImported(rows, is)[i] = [rows[i] EXCEPT !.status = "imported"]
<1>1. /\ DOMAIN MarkImported(rows, is) = D
      /\ \A i \in D : MarkImported(rows, is)[i] =
           IF i \in is THEN [rows[i] EXCEPT !.status = "imported"] ELSE rows[i]
  BY DEF MarkImported
<1>2. \A i \in D : [rows[i] EXCEPT !.status = "imported"] \in Row(staff)
  <2> SUFFICES ASSUME NEW i \in D
               PROVE  [rows[i] EXCEPT !.status = "imported"] \in Row(staff)
    OBVIOUS
  <2>1. rows[i] \in Row(staff)
    OBVIOUS
  <2> QED
    BY <2>1 DEF Row, Status
<1>3. MarkImported(rows, is) = [i \in D |-> MarkImported(rows, is)[i]]
  BY DEF MarkImported
<1> QED
  BY <1>1, <1>2, <1>3

-----------------------------------------------------------------------------
(* Batches. *)

\* What a batch holds.
LEMMA BatchFacts ==
  ASSUME TypeInv, NEW b \in DOMAIN batches
  PROVE  /\ batches[b].mode \in Modes \cup {"gone"} /\ batches[b] \in BatchOf(staff)
         /\ DOMAIN batches[b].rows \in Domains
         /\ batches[b].rows \in [DOMAIN batches[b].rows -> Row(staff)]
         /\ batches[b].mode = "gone" <=> batches[b] = Gone
         /\ batches[b] = Gone => batches[b].rows = <<>> /\ DOMAIN batches[b].rows = {}
<1>1. batches[b] \in BatchOf(staff) /\ (batches[b].mode = "gone" => batches[b] = Gone)
  BY DEF TypeInv, BatchInv
<1>2. PICK D \in Domains : batches[b].rows \in [D -> Row(staff)]
  BY <1>1 DEF BatchOf
<1> QED
  BY <1>1, <1>2 DEF BatchOf, Gone

\* Rows of a batch written anew.
LEMMA BatchWritten ==
  ASSUME TypeInv, NEW b \in DOMAIN batches, batches[b] # Gone, staff' = staff,
         NEW rows \in [DOMAIN batches[b].rows -> Row(staff)],
         batches' = [batches EXCEPT ![b].rows = rows]
  PROVE  /\ BatchInv'
         /\ DOMAIN batches' = DOMAIN batches
         /\ batches'[b].mode = batches[b].mode /\ batches'[b].rows = rows
         /\ \A d \in DOMAIN batches : d # b => batches'[d] = batches[d]
<1>1. batches \in Seq(BatchOf(staff)) /\ DOMAIN batches[b].rows \in Domains
  BY BatchFacts DEF TypeInv, BatchInv
<1>2. batches[b] \in BatchOf(staff)
  BY <1>1
<1>3. /\ [batches[b] EXCEPT !.rows = rows] \in BatchOf(staff)
      /\ [batches[b] EXCEPT !.rows = rows].mode = batches[b].mode
      /\ [batches[b] EXCEPT !.rows = rows].rows = rows
  BY <1>1, <1>2 DEF BatchOf
<1>4. batches' = [batches EXCEPT ![b] = [batches[b] EXCEPT !.rows = rows]]
  BY <1>1
<1>5. batches' \in Seq(BatchOf(staff))
  BY <1>1, <1>3, <1>4
<1>6. batches[b].mode # "gone"
  BY BatchFacts
<1> QED
  BY <1>1, <1>3, <1>4, <1>5, <1>6 DEF TypeInv, BatchInv, BatchOf

-----------------------------------------------------------------------------
(* What an import does. *)

\* The rows that an import takes, and the categories they name.
Taken(b) == LET rows == ImportedRows(batches[b].mode, batches[b].rows)
            IN {i \in DOMAIN rows : rows[i].status = "valid"}
TakenRow(b, i) == ImportedRows(batches[b].mode, batches[b].rows)[i]
Named(b) == {TakenRow(b, i).type : i \in Taken(b)}

\* A row that is taken is complete, names its owner, and was not imported before.
LEMMA TakenRows ==
  ASSUME TypeInv, NEW b \in DOMAIN batches, batches[b].mode \in Modes, NEW i \in Taken(b)
  PROVE  LET old == batches[b].rows[i] IN
         /\ i \in DOMAIN batches[b].rows /\ TakenRow(b, i) \in Row(staff)
         /\ TakenRow(b, i).code = old.code /\ TakenRow(b, i).serial = old.serial
         /\ TakenRow(b, i).type = old.type /\ TakenRow(b, i).owner = old.owner
         /\ TakenRow(b, i).qty = old.qty /\ TakenRow(b, i).resolved = Owner(old)
         /\ Open(old) /\ Complete(batches[b].mode, old) /\ TakenRow(b, i).status = "valid"
         /\ batches[b].mode = "serialized" => Classify(assets, batches[b].rows, old) = "new"
<1> DEFINE D == DOMAIN batches[b].rows
           mode == batches[b].mode
           old == batches[b].rows[i]
<1>1. batches[b].rows \in [D -> Row(staff)]
  BY BatchFacts
<1>2. ImportedRows(mode, batches[b].rows) = Revalidated(assets, mode, batches[b].rows)
  BY DEF ImportedRows
<1>3. i \in D /\ TakenRow(b, i).status = "valid"
  BY <1>1, <1>2, RevalidatedRows DEF Taken, TakenRow
<1>4. /\ TakenRow(b, i) \in Row(staff)
      /\ TakenRow(b, i).code = old.code /\ TakenRow(b, i).serial = old.serial
      /\ TakenRow(b, i).type = old.type /\ TakenRow(b, i).owner = old.owner
      /\ TakenRow(b, i).qty = old.qty
      /\ TakenRow(b, i).status = Verdict(assets, mode, batches[b].rows, old)
      /\ old.status # "imported" => TakenRow(b, i).resolved = Owner(old)
  BY <1>1, <1>2, <1>3, RevalidatedRows DEF TakenRow
<1>5. Verdict(assets, mode, batches[b].rows, old) = "valid"
  BY <1>3, <1>4
<1>6. /\ old.status \notin {"imported", "skipped"} /\ Complete(mode, old)
      /\ mode = "serialized" =>
           /\ Classify(assets, batches[b].rows, old) # "existing"
           /\ Classify(assets, batches[b].rows, old) # "conflict"
  BY <1>5 DEF Verdict
<1>7. Classify(assets, batches[b].rows, old) \in {"new", "existing", "conflict"}
  BY DEF Classify
<1> QED
  BY <1>3, <1>4, <1>6, <1>7 DEF Open

\* The steps of an import: the categories, the registry, the stock and the rows.
LEMMA ImportParts ==
  ASSUME NEW b, ImportBatch(b)
  PROVE  LET mode == batches[b].mode
             codes == {TakenRow(b, i).code : i \in Taken(b)}
         IN
         /\ mode \in Modes /\ categories' = WithCategories(Named(b), mode)
         /\ UNCHANGED <<staff, meta, edits>>
         /\ mode = "serialized" =>
              /\ codes \cap DOMAIN assets = {}
              /\ \A i \in Taken(b) : TakenRow(b, i).owner # None => TakenRow(b, i).resolved \in staff
         /\ \E pick \in [Named(b) -> DOMAIN categories'] :
              /\ \A t \in Named(b) : categories'[pick[t]].mode = mode
              /\ assets' = Added(assets,
                   IF mode = "quantity" THEN <<>>
                   ELSE [c \in codes |->
                     AssetFrom(TakenRow(b, The({j \in Taken(b) : TakenRow(b, j).code = c})),
                               pick[TakenRow(b, The({j \in Taken(b) : TakenRow(b, j).code = c})).type])])
              /\ stock' = IF mode = "serialized" THEN stock
                          ELSE stock \cup {NewStock(b, i, TakenRow(b, i), pick[TakenRow(b, i).type]) :
                                             i \in Taken(b)}
         /\ batches' = [batches EXCEPT ![b].rows = Revalidated(assets', mode,
              MarkImported(ImportedRows(mode, batches[b].rows), Taken(b)))]
<1> DEFINE mode == batches[b].mode
           rows == ImportedRows(mode, batches[b].rows)
           is == {i \in DOMAIN rows : rows[i].status = "valid"}
           cats == WithCategories({rows[i].type : i \in is}, mode)
           codes == {rows[i].code : i \in is}
           of(c) == rows[The({i \in is : rows[i].code = c})]
           made(pick) == IF mode = "quantity" THEN <<>>
                         ELSE [c \in codes |-> AssetFrom(of(c), pick[of(c).type])]
<1>1. PICK pick \in [{rows[i].type : i \in is} -> DOMAIN cats] :
        /\ \A t \in DOMAIN pick : pick[t] \in Active(cats, t) /\ cats[pick[t]].mode = mode
        /\ categories' = cats
        /\ mode = "serialized" =>
             /\ codes \cap DOMAIN assets = {}
             /\ \A i \in is : rows[i].owner # None => rows[i].resolved \in staff
        /\ assets' = Added(assets, made(pick))
        /\ stock' = IF mode = "serialized" THEN stock
                    ELSE stock \cup {NewStock(b, i, rows[i], pick[rows[i].type]) : i \in is}
        /\ batches' = [batches EXCEPT
             ![b].rows = Revalidated(Added(assets, made(pick)), mode, MarkImported(rows, is))]
  BY DEF ImportBatch, Import
<1>2. mode \in Modes /\ UNCHANGED <<staff, meta, edits>>
  BY DEF ImportBatch
<1>3. \A t \in {rows[i].type : i \in is} : cats[pick[t]].mode = mode
  BY <1>1
<1> QED
  BY <1>1, <1>2, <1>3, Zenon DEF Taken, TakenRow, Named

\* The categories after an import.
LEMMA ImportCategories ==
  ASSUME TypeInv, NEW b \in DOMAIN batches, ImportBatch(b)
  PROVE  /\ CatInv' /\ Len(categories) <= Len(categories')
         /\ \A c \in DOMAIN categories : c \in DOMAIN categories' /\ categories'[c] = categories[c]
<1>1. batches[b].mode \in Modes /\ categories' = WithCategories(Named(b), batches[b].mode)
  BY ImportParts
<1>2. Named(b) \subseteq Types
  <2> SUFFICES ASSUME NEW i \in Taken(b)
               PROVE  TakenRow(b, i).type \in Types
    BY DEF Named
  <2>1. TakenRow(b, i) \in Row(staff) /\ TakenRow(b, i).type # None
    BY <1>1, TakenRows DEF Complete
  <2> QED
    BY <2>1 DEF Row, Opt
<1>3. CatInv
  BY DEF TypeInv
<1>4. /\ WithCategories(Named(b), batches[b].mode) \in Seq(Category)
      /\ Len(categories) <= Len(WithCategories(Named(b), batches[b].mode))
      /\ \A c \in DOMAIN categories :
           /\ c \in DOMAIN WithCategories(Named(b), batches[b].mode)
           /\ WithCategories(Named(b), batches[b].mode)[c] = categories[c]
  BY <1>1, <1>2, <1>3, MoreCategories
<1> QED
  BY <1>1, <1>4 DEF CatInv

\* The registry and the stock after an import.
LEMMA ImportMakes ==
  ASSUME TypeInv, NEW b \in DOMAIN batches, ImportBatch(b)
  PROVE  /\ \A c \in DOMAIN assets : c \in DOMAIN assets' /\ assets'[c] = assets[c]
         /\ assets' = [c \in DOMAIN assets' |-> assets'[c]]
         /\ \A c \in DOMAIN assets' \ DOMAIN assets :
              /\ batches[b].mode = "serialized"
              /\ \E i \in Taken(b), k \in DOMAIN categories' :
                   /\ TakenRow(b, i).code = c /\ assets'[c] = AssetFrom(TakenRow(b, i), k)
                   /\ categories'[k].mode = "serialized"
         /\ batches[b].mode = "serialized" => \A i \in Taken(b) :
              /\ TakenRow(b, i).code \in DOMAIN assets' \ DOMAIN assets
              /\ TakenRow(b, i).owner # None => TakenRow(b, i).resolved \in staff
         /\ stock \subseteq stock'
         /\ \A s \in stock' \ stock :
              /\ batches[b].mode = "quantity"
              /\ \E i \in Taken(b), k \in DOMAIN categories' :
                   s = NewStock(b, i, TakenRow(b, i), k) /\ categories'[k].mode = "quantity"
<1> DEFINE mode == batches[b].mode
           codes == {TakenRow(b, i).code : i \in Taken(b)}
           from(c) == The({j \in Taken(b) : TakenRow(b, j).code = c})
<1>1. PICK pick \in [Named(b) -> DOMAIN categories'] :
        /\ \A t \in Named(b) : categories'[pick[t]].mode = mode
        /\ assets' = Added(assets,
             IF mode = "quantity" THEN <<>>
             ELSE [c \in codes |-> AssetFrom(TakenRow(b, from(c)), pick[TakenRow(b, from(c)).type])])
        /\ stock' = IF mode = "serialized" THEN stock
                    ELSE stock \cup {NewStock(b, i, TakenRow(b, i), pick[TakenRow(b, i).type]) :
                                       i \in Taken(b)}
  BY ImportParts
<1>2. /\ mode \in {"serialized", "quantity"}
      /\ mode = "serialized" =>
           /\ codes \cap DOMAIN assets = {}
           /\ \A i \in Taken(b) : TakenRow(b, i).owner # None => TakenRow(b, i).resolved \in staff
  BY ImportParts DEF Modes
<1>3. \A i \in Taken(b) : TakenRow(b, i).type \in Named(b)
  BY DEF Named
<1>4. \A c \in codes : from(c) \in Taken(b) /\ TakenRow(b, from(c)).code = c
  <2> SUFFICES ASSUME NEW c \in codes
               PROVE  from(c) \in {j \in Taken(b) : TakenRow(b, j).code = c}
    OBVIOUS
  <2>1. {j \in Taken(b) : TakenRow(b, j).code = c} # {}
    OBVIOUS
  <2> QED
    BY <2>1, TheIsIn
<1> HIDE DEF from
<1>5. CASE mode = "quantity"
  <2>1. assets' = [c \in DOMAIN assets |-> assets[c]]
    BY <1>1, <1>5 DEF Added
  <2>2. \A s \in stock' \ stock : \E i \in Taken(b) : s = NewStock(b, i, TakenRow(b, i), pick[TakenRow(b, i).type])
    BY <1>1, <1>5
  <2>3. stock \subseteq stock'
    BY <1>1, <1>5
  <2>4. \A i \in Taken(b) : /\ pick[TakenRow(b, i).type] \in DOMAIN categories'
                           /\ categories'[pick[TakenRow(b, i).type]].mode = "quantity"
    BY <1>1, <1>3, <1>5
  <2>5. \A s \in stock' \ stock : \E i \in Taken(b), k \in DOMAIN categories' :
          s = NewStock(b, i, TakenRow(b, i), k) /\ categories'[k].mode = "quantity"
    BY <2>2, <2>4
  <2> QED
    BY <1>5, <2>1, <2>3, <2>5
<1>6. CASE mode = "serialized"
  <2>1. /\ DOMAIN assets' = DOMAIN assets \cup codes /\ assets' = [c \in DOMAIN assets' |-> assets'[c]]
        /\ \A c \in DOMAIN assets : assets'[c] = assets[c]
        /\ \A c \in codes : c \notin DOMAIN assets =>
             assets'[c] = AssetFrom(TakenRow(b, from(c)), pick[TakenRow(b, from(c)).type])
    BY <1>1, <1>6 DEF Added
  <2>2. \A c \in codes : c \notin DOMAIN assets
    BY <1>2, <1>6
  <2>3. \A i \in Taken(b) : /\ pick[TakenRow(b, i).type] \in DOMAIN categories'
                           /\ categories'[pick[TakenRow(b, i).type]].mode = "serialized"
    BY <1>1, <1>3, <1>6
  <2>4. \A c \in DOMAIN assets' \ DOMAIN assets : \E i \in Taken(b), k \in DOMAIN categories' :
          /\ TakenRow(b, i).code = c /\ assets'[c] = AssetFrom(TakenRow(b, i), k)
          /\ categories'[k].mode = "serialized"
    BY <1>4, <2>1, <2>2, <2>3
  <2>5. \A i \in Taken(b) : TakenRow(b, i).code \in DOMAIN assets' \ DOMAIN assets
    BY <2>1, <2>2
  <2>6. stock' = stock
    BY <1>1, <1>6
  <2> QED
    BY <1>2, <1>6, <2>1, <2>4, <2>5, <2>6
<1> QED
  BY <1>2, <1>5, <1>6

\* The rows after an import.
LEMMA ImportMarks ==
  ASSUME TypeInv, NEW b \in DOMAIN batches, ImportBatch(b)
  PROVE  /\ BatchInv' /\ DOMAIN batches' = DOMAIN batches /\ batches'[b].mode = batches[b].mode
         /\ batches[b] # Gone /\ batches'[b] # Gone
         /\ DOMAIN batches'[b].rows = DOMAIN batches[b].rows /\ Taken(b) \subseteq DOMAIN batches[b].rows
         /\ \A d \in DOMAIN batches : d # b => batches'[d] = batches[d]
         /\ \A i \in Taken(b) : batches'[b].rows[i] = [TakenRow(b, i) EXCEPT !.status = "imported"]
         /\ \A i \in DOMAIN batches[b].rows \ Taken(b) :
              IF batches[b].rows[i].status = "imported" THEN batches'[b].rows[i] = batches[b].rows[i]
              ELSE batches'[b].rows[i].status # "imported"
<1> DEFINE D == DOMAIN batches[b].rows
           mode == batches[b].mode
           rows == ImportedRows(mode, batches[b].rows)
           new == Revalidated(assets', mode, MarkImported(rows, Taken(b)))
<1>0. mode \in Modes /\ batches[b] # Gone /\ batches[b].rows \in [D -> Row(staff)] /\ staff' = staff
  BY BatchFacts, ImportParts DEF Modes, Gone
<1>1. /\ rows \in [D -> Row(staff)]
      /\ \A i \in D : /\ rows[i].status = "imported" <=> batches[b].rows[i].status = "imported"
                      /\ batches[b].rows[i].status = "imported" => rows[i] = batches[b].rows[i]
  BY <1>0, RevalidatedRows DEF ImportedRows
<1>2. Taken(b) \subseteq D /\ \A i \in Taken(b) : rows[i] = TakenRow(b, i)
  BY <1>1 DEF Taken, TakenRow
<1>3. batches' = [batches EXCEPT ![b].rows = new]
  BY ImportParts
<1> HIDE DEF rows
<1>4. /\ MarkImported(rows, Taken(b)) \in [D -> Row(staff)]
      /\ \A i \in D \ Taken(b) : MarkImported(rows, Taken(b))[i] = rows[i]
      /\ \A i \in Taken(b) : MarkImported(rows, Taken(b))[i] = [rows[i] EXCEPT !.status = "imported"]
  BY <1>1, <1>2, MarkedRows
<1>5. /\ new \in [D -> Row(staff)]
      /\ \A i \in D : /\ MarkImported(rows, Taken(b))[i].status = "imported" => new[i] = MarkImported(rows, Taken(b))[i]
                      /\ new[i].status = "imported" <=> MarkImported(rows, Taken(b))[i].status = "imported"
  BY <1>4, RevalidatedRows
<1> HIDE DEF new
<1>6. /\ BatchInv' /\ DOMAIN batches' = DOMAIN batches
      /\ batches'[b].mode = mode /\ batches'[b].rows = new
      /\ \A d \in DOMAIN batches : d # b => batches'[d] = batches[d]
  BY <1>0, <1>3, <1>5, BatchWritten
<1>7. \A i \in Taken(b) : new[i] = [TakenRow(b, i) EXCEPT !.status = "imported"]
  <2> SUFFICES ASSUME NEW i \in Taken(b)
               PROVE  new[i] = [rows[i] EXCEPT !.status = "imported"]
    BY <1>2
  <2>1. rows[i] \in Row(staff) /\ MarkImported(rows, Taken(b))[i] = [rows[i] EXCEPT !.status = "imported"]
    BY <1>1, <1>2, <1>4
  <2>2. MarkImported(rows, Taken(b))[i].status = "imported"
    BY <2>1 DEF Row
  <2> QED
    BY <1>2, <1>5, <2>1, <2>2
<1>8. batches'[b] # Gone
  BY <1>0, <1>6 DEF Gone, Modes
<1> QED
  BY <1>0, <1>1, <1>2, <1>4, <1>5, <1>6, <1>7, <1>8

-----------------------------------------------------------------------------
(* What every step leaves of the rows. *)

\* An imported row stays, but for the employee it was resolved to; only an
\* import makes others so.
KeepsRow(b, i) ==
  IF batches[b].rows[i].status = "imported"
  THEN /\ batches'[b].rows[i].status = "imported"
       /\ [batches'[b].rows[i] EXCEPT !.resolved = Nobody] = [batches[b].rows[i] EXCEPT !.resolved = Nobody]
  ELSE batches'[b].rows[i].status = "imported" => ImportBatch(b) /\ i \in Taken(b)

KeepsBatch(b) ==
  /\ b \in DOMAIN batches'
  /\ batches[b] = Gone => batches'[b] = Gone
  /\ batches'[b] # Gone =>
       /\ batches'[b].mode = batches[b].mode /\ DOMAIN batches'[b].rows = DOMAIN batches[b].rows
       /\ \A i \in DOMAIN batches[b].rows : KeepsRow(b, i)

\* A batch left alone.
LEMMA SameBatch ==
  ASSUME TypeInv, NEW b \in DOMAIN batches, b \in DOMAIN batches', batches'[b] = batches[b]
  PROVE  KeepsBatch(b)
  BY DEF KeepsBatch, KeepsRow

\* Rows edited and validated again.
LEMMA RewriteStep ==
  ASSUME TypeInv, NEW b \in DOMAIN batches, batches[b] # Gone, staff' = staff,
         NEW rows \in [DOMAIN batches[b].rows -> Row(staff)], Rewrite(b, rows),
         \A i \in DOMAIN batches[b].rows :
           IF batches[b].rows[i].status = "imported" THEN rows[i] = batches[b].rows[i]
           ELSE rows[i].status # "imported"
  PROVE  BatchInv' /\ \A d \in DOMAIN batches : KeepsBatch(d)
<1> DEFINE D == DOMAIN batches[b].rows
           new == Revalidated(assets, batches[b].mode, rows)
<1>1. /\ new \in [D -> Row(staff)]
      /\ \A i \in D : /\ rows[i].status = "imported" => new[i] = rows[i]
                      /\ new[i].status = "imported" <=> rows[i].status = "imported"
  BY RevalidatedRows
<1>2. batches' = [batches EXCEPT ![b].rows = new]
  BY DEF Rewrite
<1> HIDE DEF new
<1>3. /\ BatchInv' /\ DOMAIN batches' = DOMAIN batches
      /\ batches'[b].mode = batches[b].mode /\ batches'[b].rows = new
      /\ \A d \in DOMAIN batches : d # b => batches'[d] = batches[d]
  BY <1>1, <1>2, BatchWritten
<1>4. KeepsBatch(b)
  BY <1>1, <1>3 DEF KeepsBatch, KeepsRow
<1>5. \A d \in DOMAIN batches : d # b => KeepsBatch(d)
  BY <1>3, SameBatch
<1> QED
  BY <1>3, <1>4, <1>5

\* An edit and a skip.
LEMMA EditSteps ==
  ASSUME TypeInv, NEW b \in DOMAIN batches, RowNext(b)
  PROVE  BatchInv' /\ \A d \in DOMAIN batches : KeepsBatch(d)
<1> DEFINE D == DOMAIN batches[b].rows
<1>1. PICK i \in 1..2 : \/ \E c \in Opt(Codes) : EditRow(b, i, "code", c)
                        \/ \E s \in Opt(Serials) : EditRow(b, i, "serial", s)
                        \/ \E k \in Opt(Keys) : EditRow(b, i, "owner", k)
                        \/ \E t \in Opt(Types) : EditRow(b, i, "type", t)
                        \/ \E n \in Opt(Names) : EditRow(b, i, "name", n)
                        \/ \E n \in Opt({"0"} \cup Numbers) : EditRow(b, i, "qty", n)
                        \/ \E skip \in BOOLEAN : SkipRow(b, i, skip)
  BY DEF RowNext
<1>2. i \in D /\ Editable(batches[b].rows[i]) /\ staff' = staff
  BY <1>1 DEF EditRow, SkipRow
<1>3. batches[b] # Gone /\ batches[b].rows \in [D -> Row(staff)] /\ batches[b].rows[i] \in Row(staff)
  BY <1>2, BatchFacts
<1>4. ASSUME NEW row \in Row(staff), row.status # "imported", Rewrite(b, [batches[b].rows EXCEPT ![i] = row])
      PROVE  BatchInv' /\ \A d \in DOMAIN batches : KeepsBatch(d)
  <2> DEFINE rows == [batches[b].rows EXCEPT ![i] = row]
  <2>1. rows \in [D -> Row(staff)] /\ rows[i] = row /\ \A j \in D \ {i} : rows[j] = batches[b].rows[j]
    BY <1>2, <1>3, <1>4
  <2>2. \A j \in D : IF batches[b].rows[j].status = "imported" THEN rows[j] = batches[b].rows[j]
                     ELSE rows[j].status # "imported"
    BY <1>2, <1>4, <2>1 DEF Editable
  <2>3. Rewrite(b, rows)
    BY <1>4
  <2> HIDE DEF rows
  <2> QED
    BY <1>2, <1>3, <2>1, <2>2, <2>3, RewriteStep
<1>5. ASSUME NEW skip \in BOOLEAN, SkipRow(b, i, skip)
      PROVE  \E row \in Row(staff) : row.status # "imported" /\ Rewrite(b, [batches[b].rows EXCEPT ![i] = row])
  <2> DEFINE row == [batches[b].rows[i] EXCEPT !.status = IF skip THEN "skipped" ELSE "error"]
  <2>1. row \in Row(staff) /\ row.status # "imported"
    BY <1>3 DEF Row, Status
  <2>2. Rewrite(b, [batches[b].rows EXCEPT ![i] = row])
    BY <1>5 DEF SkipRow
  <2> QED
    BY <2>1, <2>2
<1>6. ASSUME NEW f \in {"code", "serial", "owner", "type", "name", "qty"}, NEW v, EditRow(b, i, f, v),
             f = "code" => v \in Opt(Codes), f = "serial" => v \in Opt(Serials),
             f = "owner" => v \in Opt(Keys), f = "type" => v \in Opt(Types),
             f \in {"name", "qty"} => v \in Cell
      PROVE  \E row \in Row(staff) : row.status # "imported" /\ Rewrite(b, [batches[b].rows EXCEPT ![i] = row])
  <2> DEFINE row == [batches[b].rows[i] EXCEPT ![f] = v]
  <2>1. row \in Row(staff) /\ row.status # "imported"
    BY <1>2, <1>3, <1>6 DEF Row, Status, Opt, Editable
  <2>2. Rewrite(b, [batches[b].rows EXCEPT ![i] = row])
    BY <1>6 DEF EditRow
  <2> QED
    BY <2>1, <2>2
<1>7. Opt(Names) \subseteq Cell /\ Opt({"0"} \cup Numbers) \subseteq Cell
  BY AssetConstantsOK DEF Opt, Cell
<1>8. ASSUME NEW f \in {"name", "qty"}, NEW v \in Cell, EditRow(b, i, f, v)
      PROVE  \E row \in Row(staff) : row.status # "imported" /\ Rewrite(b, [batches[b].rows EXCEPT ![i] = row])
  BY <1>6, <1>8
<1>9. ASSUME NEW f \in {"code", "serial", "owner", "type"}, NEW v, EditRow(b, i, f, v),
             f = "code" => v \in Opt(Codes), f = "serial" => v \in Opt(Serials),
             f = "owner" => v \in Opt(Keys), f = "type" => v \in Opt(Types)
      PROVE  \E row \in Row(staff) : row.status # "imported" /\ Rewrite(b, [batches[b].rows EXCEPT ![i] = row])
  BY <1>6, <1>9
<1> QED
  BY <1>1, <1>4, <1>5, <1>7, <1>8, <1>9

\* An employee leaves.
LEMMA LeaveStep ==
  ASSUME TypeInv, NEW p \in People, Leave(p)
  PROVE  BatchInv' /\ \A d \in DOMAIN batches : KeepsBatch(d)
<1> DEFINE freed(b) == [mode |-> batches[b].mode,
                        rows |-> [i \in DOMAIN batches[b].rows |-> Freed(batches[b].rows[i], p)]]
<1>0. batches \in Seq(BatchOf(staff)) /\ staff' = staff \ {p}
  BY DEF TypeInv, BatchInv, Leave
<1>1. ASSUME NEW row \in Row(staff)
      PROVE  /\ Freed(row, p) \in Row(staff') /\ Freed(row, p).status = row.status
             /\ [Freed(row, p) EXCEPT !.resolved = Nobody] = [row EXCEPT !.resolved = Nobody]
  <2>1. CASE row.resolved = p
    BY <1>0, <2>1 DEF Freed, Row
  <2>2. CASE row.resolved # p
    BY <1>0, <2>2 DEF Freed, Row
  <2> QED
    BY <2>1, <2>2
<1>2. ASSUME NEW b \in DOMAIN batches
      PROVE  /\ freed(b) \in BatchOf(staff') /\ freed(b).mode = batches[b].mode
             /\ DOMAIN freed(b).rows = DOMAIN batches[b].rows
             /\ \A i \in DOMAIN batches[b].rows : freed(b).rows[i] = Freed(batches[b].rows[i], p)
             /\ batches[b] = Gone => freed(b) = Gone
  <2> DEFINE rows == [i \in DOMAIN batches[b].rows |-> Freed(batches[b].rows[i], p)]
  <2>2. rows \in [DOMAIN batches[b].rows -> Row(staff')] /\ DOMAIN batches[b].rows \in Domains
    BY <1>1, BatchFacts
  <2>3. batches[b] = Gone => rows = <<>>
    BY BatchFacts
  <2>4. batches[b].mode \in Modes \cup {"gone"}
    BY BatchFacts
  <2>5. freed(b) \in BatchOf(staff')
    BY <2>2, <2>4 DEF BatchOf
  <2>6. batches[b] = Gone => freed(b) = Gone
    BY <2>3 DEF Gone
  <2> QED
    BY <2>5, <2>6
<1>3. batches' = [b \in DOMAIN batches |-> freed(b)]
  BY DEF Leave
<1> HIDE DEF freed
<1>4. batches' \in Seq(BatchOf(staff')) /\ DOMAIN batches' = DOMAIN batches
  <2>1. Len(batches) \in Nat /\ DOMAIN batches = 1..Len(batches)
    BY <1>0
  <2>2. batches' \in [1..Len(batches) -> BatchOf(staff')]
    BY <1>2, <1>3, <2>1
  <2> QED
    BY <2>1, <2>2
<1>5. \A b \in DOMAIN batches' : batches'[b].mode = "gone" => batches'[b] = Gone
  BY <1>2, <1>3, BatchFacts
<1>6. ASSUME NEW b \in DOMAIN batches
      PROVE  KeepsBatch(b)
  <2>1. \A i \in DOMAIN batches[b].rows : batches[b].rows[i] \in Row(staff)
    BY BatchFacts
  <2> QED
    BY <1>1, <1>2, <1>3, <2>1 DEF KeepsBatch, KeepsRow
<1> QED
  BY <1>4, <1>5, <1>6 DEF BatchInv

\* A new batch.
LEMMA StageStep ==
  ASSUME TypeInv, NEW in \in Inputs, Stage(in)
  PROVE  BatchInv' /\ \A d \in DOMAIN batches : KeepsBatch(d)
<1> DEFINE first == [i \in DOMAIN Parsed[in] |-> Fresh(Parsed[in][i])]
           rows == Revalidated(assets, in[3], first)
           new == [mode |-> in[3], rows |-> rows]
<1>1. rows \in [DOMAIN Parsed[in] -> Row(staff)]
  <2>1. first \in [DOMAIN Parsed[in] -> Row(staff)]
    BY FreshRows
  <2> HIDE DEF first
  <2> QED
    BY <2>1, RevalidatedRows
<1>2. in[3] \in Modes
  BY DEF Inputs
<1>3. batches' = Append(batches, new) /\ staff' = staff
  BY DEF Stage
<1> HIDE DEF rows
<1>4. new \in BatchOf(staff) /\ new.mode # "gone"
  BY <1>1, <1>2 DEF BatchOf, Domains, Modes
<1> HIDE DEF new
<1>5. batches \in Seq(BatchOf(staff)) /\ \A b \in DOMAIN batches : batches[b].mode = "gone" => batches[b] = Gone
  BY DEF TypeInv, BatchInv
<1>6. /\ batches' \in Seq(BatchOf(staff)) /\ Len(batches') = Len(batches) + 1 /\ Len(batches) \in Nat
      /\ batches'[Len(batches) + 1] = new /\ \A d \in 1..Len(batches) : batches'[d] = batches[d]
      /\ DOMAIN batches = 1..Len(batches) /\ DOMAIN batches' = 1..(Len(batches) + 1)
  BY <1>3, <1>4, <1>5
<1>7. BatchInv'
  BY <1>3, <1>4, <1>5, <1>6 DEF BatchInv
<1> QED
  BY <1>6, <1>7, SameBatch

\* An import.
LEMMA ImportStep ==
  ASSUME TypeInv, NEW b \in DOMAIN batches, ImportBatch(b)
  PROVE  BatchInv' /\ \A d \in DOMAIN batches : KeepsBatch(d)
<1>1. \A i \in DOMAIN batches[b].rows : KeepsRow(b, i)
  BY ImportMarks, TakenRows, ImportParts DEF KeepsRow, Open
<1>2. KeepsBatch(b)
  BY <1>1, ImportMarks DEF KeepsBatch
<1>3. \A d \in DOMAIN batches : d # b => KeepsBatch(d)
  BY ImportMarks, SameBatch
<1> QED
  BY <1>2, <1>3, ImportMarks

\* Every step keeps the batches.
LEMMA BatchSteps ==
  ASSUME TypeInv, [AssetsNext]_assetVars
  PROVE  BatchInv' /\ \A d \in DOMAIN batches : KeepsBatch(d)
<1>1. CASE UNCHANGED <<batches, staff>>
  BY <1>1, SameBatch DEF TypeInv, BatchInv
<1>2. ASSUME NEW in \in Inputs, Stage(in)
      PROVE  BatchInv' /\ \A d \in DOMAIN batches : KeepsBatch(d)
  BY <1>2, StageStep
<1>3. ASSUME NEW b \in DOMAIN batches, BatchNext(b)
      PROVE  BatchInv' /\ \A d \in DOMAIN batches : KeepsBatch(d)
  <2>1. CASE DeleteBatch(b)
    <3>1. batches' = [batches EXCEPT ![b] = Gone] /\ staff' = staff
      BY <2>1 DEF DeleteBatch
    <3>2. Gone \in BatchOf(staff)
      <4>1. <<>> \in [{} -> Row(staff)] /\ {} \in Domains
        BY DEF Domains
      <4> QED
        BY <4>1 DEF BatchOf, Gone
    <3>3. BatchInv' /\ DOMAIN batches' = DOMAIN batches
      BY <3>1, <3>2 DEF TypeInv, BatchInv
    <3>4. \A d \in DOMAIN batches : KeepsBatch(d)
      BY <3>1, <3>3, SameBatch DEF KeepsBatch
    <3> QED
      BY <3>3, <3>4
  <2> QED
    BY <1>3, <2>1, EditSteps, ImportStep DEF BatchNext
<1>4. ASSUME NEW p \in People, Hire(p)
      PROVE  BatchInv' /\ \A d \in DOMAIN batches : KeepsBatch(d)
  <2>1. staff' = staff \cup {p} /\ batches' = batches
    BY <1>4 DEF Hire
  <2>2. Row(staff) \subseteq Row(staff')
    BY <2>1 DEF Row
  <2>3. BatchOf(staff) \subseteq BatchOf(staff')
    BY <2>2 DEF BatchOf
  <2>4. batches' \in Seq(BatchOf(staff'))
    <3>1. batches \in [1..Len(batches) -> BatchOf(staff)] /\ Len(batches) \in Nat
      BY DEF TypeInv, BatchInv
    <3>2. batches' \in [1..Len(batches) -> BatchOf(staff')]
      BY <2>1, <2>3, <3>1
    <3> QED
      BY <3>1, <3>2
  <2> QED
    BY <2>1, <2>4, SameBatch DEF TypeInv, BatchInv
<1>5. CASE RegistryNext
  <2>1. \/ UNCHANGED <<batches, staff>> \/ \E p \in People : Hire(p) \/ Leave(p)
    BY <1>5 DEF RegistryNext, Register, AddCategory, DeactivateCategory, SaveCategory, UpdateStock,
       MetaRead, MetaApply
  <2> QED
    BY <1>1, <1>4, <2>1, LeaveStep
<1>6. CASE UNCHANGED assetVars
  BY <1>1, <1>6 DEF assetVars
<1>7. CASE \E in \in Inputs : in[1] \in Books /\ Stage(in)
  BY <1>2, <1>7
<1>8. CASE \E b \in DOMAIN batches : BatchNext(b)
  BY <1>3, <1>8
<1> QED
  BY <1>5, <1>6, <1>7, <1>8 DEF AssetsNext

-----------------------------------------------------------------------------
(* What every step does to the categories, the registry and the stock. *)

\* The steps that change more than batches.
LEMMA Steps ==
  ASSUME [AssetsNext]_assetVars
  PROVE  \/ UNCHANGED <<assets, categories, stock, staff, meta>>
         \/ \E b \in DOMAIN batches : ImportBatch(b)
         \/ \E c \in Codes, s \in Opt(Serials), cat \in 0..MaxCategories : Register(c, s, cat)
         \/ \E t \in Types, mode \in Modes : AddCategory(t, mode)
         \/ \E cat \in DOMAIN categories : DeactivateCategory(cat)
         \/ \E cat \in DOMAIN categories, t \in Types, mode \in Modes : SaveCategory(cat, t, mode)
         \/ \E s \in stock, n \in {"0"} \cup Numbers : UpdateStock(s, n)
         \/ \E p \in People : Hire(p) \/ Leave(p)
         \/ \E file \in MetaFiles : MetaRead(file)
         \/ MetaApply
<1>1. CASE UNCHANGED assetVars
  BY <1>1 DEF assetVars
<1>2. CASE \E in \in Inputs : in[1] \in Books /\ Stage(in)
  BY <1>2 DEF Stage
<1>3. CASE \E b \in DOMAIN batches : BatchNext(b)
  <2>1. PICK b \in DOMAIN batches : BatchNext(b)
    BY <1>3
  <2>2. CASE RowNext(b)
    BY <2>2 DEF RowNext, EditRow, SkipRow
  <2>3. CASE DeleteBatch(b)
    BY <2>3 DEF DeleteBatch
  <2> QED
    BY <2>1, <2>2, <2>3 DEF BatchNext
<1>4. CASE RegistryNext
  BY <1>4, Zenon DEF RegistryNext
<1> QED
  BY <1>1, <1>2, <1>3, <1>4 DEF AssetsNext

\* A category stays, and changes its kind only when nothing is of it.
LEMMA CategorySteps ==
  ASSUME TypeInv, [AssetsNext]_assetVars
  PROVE  /\ CatInv' /\ Len(categories) <= Len(categories')
         /\ \A c \in DOMAIN categories :
              /\ c \in DOMAIN categories'
              /\ categories'[c].mode # categories[c].mode => Unused(c) /\ UNCHANGED <<assets, stock>>
<1>0. categories \in Seq(Category) /\ Len(categories) \in Nat /\ DOMAIN categories = 1..Len(categories)
  BY DEF TypeInv, CatInv
<1>1. CASE UNCHANGED categories
  BY <1>0, <1>1 DEF CatInv
<1>2. CASE \E b \in DOMAIN batches : ImportBatch(b)
  BY <1>2, ImportCategories
<1>3. CASE \E t \in Types, mode \in Modes : AddCategory(t, mode)
  <2>1. PICK t \in Types, mode \in Modes : AddCategory(t, mode)
    BY <1>3
  <2>2. PICK new : new = [name |-> t, mode |-> mode, active |-> TRUE]
    OBVIOUS
  <2>3. new \in Category /\ categories' = Append(categories, new)
    BY <2>1, <2>2 DEF AddCategory, Category
  <2> QED
    BY <1>0, <2>3 DEF CatInv
<1>4. ASSUME NEW cat \in DOMAIN categories, NEW new \in Category,
             categories' = [categories EXCEPT ![cat] = new],
             new.mode # categories[cat].mode => Unused(cat) /\ UNCHANGED <<assets, stock>>
      PROVE  /\ CatInv' /\ Len(categories) <= Len(categories')
             /\ \A c \in DOMAIN categories :
                  /\ c \in DOMAIN categories'
                  /\ categories'[c].mode # categories[c].mode => Unused(c) /\ UNCHANGED <<assets, stock>>
  BY <1>0, <1>4 DEF CatInv
<1>5. ASSUME NEW cat \in DOMAIN categories, DeactivateCategory(cat)
      PROVE  \E new \in Category :
               /\ categories' = [categories EXCEPT ![cat] = new]
               /\ new.mode = categories[cat].mode
  <2> DEFINE new == [categories[cat] EXCEPT !.active = FALSE]
  <2>1. categories[cat] \in Category
    BY <1>0
  <2>2. new \in Category /\ new.mode = categories[cat].mode
    BY <2>1 DEF Category
  <2>3. categories' = [categories EXCEPT ![cat] = new]
    BY <1>5 DEF DeactivateCategory
  <2> QED
    BY <2>2, <2>3
<1>6. ASSUME NEW cat \in DOMAIN categories, NEW t \in Types, NEW mode \in Modes, SaveCategory(cat, t, mode)
      PROVE  \E new \in Category :
               /\ categories' = [categories EXCEPT ![cat] = new]
               /\ new.mode # categories[cat].mode => Unused(cat) /\ UNCHANGED <<assets, stock>>
  <2> DEFINE new == [name |-> t, mode |-> mode, active |-> TRUE]
  <2>1. new \in Category /\ new.mode = mode
    BY DEF Category
  <2>2. /\ categories' = [categories EXCEPT ![cat] = new] /\ UNCHANGED <<assets, stock>>
        /\ categories[cat].mode # mode => Unused(cat)
    BY <1>6 DEF SaveCategory
  <2> QED
    BY <2>1, <2>2
<1>7. \/ UNCHANGED categories
      \/ \E b \in DOMAIN batches : ImportBatch(b)
      \/ \E t \in Types, mode \in Modes : AddCategory(t, mode)
      \/ \E cat \in DOMAIN categories : DeactivateCategory(cat)
      \/ \E cat \in DOMAIN categories, t \in Types, mode \in Modes : SaveCategory(cat, t, mode)
  BY Steps DEF Register, UpdateStock, Hire, Leave, MetaRead, MetaApply
<1> QED
  BY <1>1, <1>2, <1>3, <1>4, <1>5, <1>6, <1>7


\* Assets, old and new, are well formed; a new one that was imported lists in a
\* category that lists.
LEMMA AssetSteps ==
  ASSUME TypeInv, [AssetsNext]_assetVars
  PROVE  /\ AssetInv'
         /\ \A c \in DOMAIN assets' :
              \/ /\ c \in DOMAIN assets /\ assets'[c].cat = assets[c].cat
                 /\ assets'[c].imported = assets[c].imported
              \/ ~assets'[c].imported
              \/ assets'[c].cat \in DOMAIN categories' /\ categories'[assets'[c].cat].mode = "serialized"
<1> DEFINE Goal == /\ AssetInv'
                   /\ \A c \in DOMAIN assets' :
                        \/ /\ c \in DOMAIN assets /\ assets'[c].cat = assets[c].cat
                           /\ assets'[c].imported = assets[c].imported
                        \/ ~assets'[c].imported
                        \/ /\ assets'[c].cat \in DOMAIN categories'
                           /\ categories'[assets'[c].cat].mode = "serialized"
<1>0. /\ DOMAIN assets \subseteq Codes /\ assets \in [DOMAIN assets -> AssetOf(staff, Len(categories))]
      /\ Len(categories) \in Nat /\ Len(categories') \in Nat /\ Len(categories) <= Len(categories')
      /\ DOMAIN categories = 1..Len(categories) /\ DOMAIN categories' = 1..Len(categories')
  BY CategorySteps DEF TypeInv, AssetInv, CatInv
<1>1. ASSUME NEW who, \A c \in DOMAIN assets : assets[c].holder \in who \cup {Nobody}
      PROVE  \A c \in DOMAIN assets : assets[c] \in AssetOf(who, Len(categories'))
  <2> SUFFICES ASSUME NEW c \in DOMAIN assets
               PROVE  assets[c] \in AssetOf(who, Len(categories'))
    OBVIOUS
  <2>1. assets[c] \in AssetOf(staff, Len(categories)) /\ assets[c].holder \in who \cup {Nobody}
    BY <1>0, <1>1
  <2>2. 0..Len(categories) \subseteq 0..Len(categories')
    BY <1>0
  <2> QED
    BY <2>1, <2>2 DEF AssetOf
<1>2. \A c \in DOMAIN assets : assets[c].holder \in staff \cup {Nobody}
  BY <1>0 DEF AssetOf
<1>3. ASSUME UNCHANGED assets, \A c \in DOMAIN assets : assets[c].holder \in staff' \cup {Nobody}
      PROVE  Goal
  <2>1. \A c \in DOMAIN assets : assets[c] \in AssetOf(staff', Len(categories'))
    BY <1>1, <1>3
  <2>2. assets \in [DOMAIN assets -> AssetOf(staff', Len(categories'))]
    BY <1>0, <2>1
  <2> QED
    BY <1>0, <1>3, <2>2 DEF AssetInv
<1>4. ASSUME NEW b \in DOMAIN batches, ImportBatch(b)
      PROVE  Goal
  <2>1. /\ \A c \in DOMAIN assets : c \in DOMAIN assets' /\ assets'[c] = assets[c]
        /\ assets' = [c \in DOMAIN assets' |-> assets'[c]]
        /\ batches[b].mode \in Modes /\ staff' = staff
    BY <1>4, ImportMakes, ImportParts
  <2>2. \A c \in DOMAIN assets : assets'[c] \in AssetOf(staff', Len(categories'))
    BY <1>1, <1>2, <2>1
  <2>3. ASSUME NEW c \in DOMAIN assets' \ DOMAIN assets
        PROVE  /\ c \in Codes /\ assets'[c] \in AssetOf(staff', Len(categories'))
               /\ assets'[c].cat \in DOMAIN categories' /\ categories'[assets'[c].cat].mode = "serialized"
    <3>1. PICK i \in Taken(b), k \in DOMAIN categories' :
            /\ TakenRow(b, i).code = c /\ assets'[c] = AssetFrom(TakenRow(b, i), k)
            /\ categories'[k].mode = "serialized" /\ batches[b].mode = "serialized"
      BY <1>4, ImportMakes
    <3>2. /\ TakenRow(b, i) \in Row(staff) /\ TakenRow(b, i).code # None
          /\ TakenRow(b, i).resolved \in staff \cup {Nobody}
      BY <2>1, <3>1, TakenRows, OwnerType DEF Complete
    <3>3. k \in 0..Len(categories') /\ None \in Opt(STRING)
      BY <1>0 DEF Opt
    <3>4. assets'[c] \in AssetOf(staff', Len(categories')) /\ assets'[c].cat = k
      BY <2>1, <3>1, <3>2, <3>3 DEF AssetFrom, AssetOf, Row
    <3> QED
      BY <3>1, <3>2, <3>4 DEF Row, Opt
  <2>4. DOMAIN assets' \subseteq Codes /\ \A c \in DOMAIN assets' : assets'[c] \in AssetOf(staff', Len(categories'))
    BY <1>0, <2>2, <2>3
  <2>5. AssetInv'
    BY <2>1, <2>4 DEF AssetInv
  <2> QED
    BY <2>1, <2>3, <2>5
<1>5. ASSUME NEW c \in Codes, NEW s \in Opt(Serials), NEW cat \in 0..MaxCategories, Register(c, s, cat)
      PROVE  Goal
  <2> DEFINE new == [serial |-> s, cat |-> cat, brand |-> None, imported |-> FALSE,
                     holder |-> IF c \in DOMAIN assets THEN assets[c].holder ELSE Nobody]
  <2>1. /\ DOMAIN assets' = DOMAIN assets \cup {c} /\ assets'[c] = new
        /\ \A d \in DOMAIN assets \ {c} : assets'[d] = assets[d]
        /\ assets' = [d \in DOMAIN assets' |-> assets'[d]]
        /\ cat \in DOMAIN categories \cup {0} /\ staff' = staff /\ categories' = categories
    BY <1>5 DEF Register
  <2>2. cat \in 0..Len(categories') /\ None \in Opt(STRING)
    BY <1>0, <2>1 DEF Opt
  <2>3. new \in AssetOf(staff', Len(categories')) /\ ~new.imported
    BY <1>2, <2>1, <2>2 DEF AssetOf
  <2> HIDE DEF new
  <2>4. \A d \in DOMAIN assets' : assets'[d] \in AssetOf(staff', Len(categories'))
    BY <1>1, <1>2, <2>1, <2>3
  <2>5. AssetInv'
    BY <1>0, <2>1, <2>4 DEF AssetInv
  <2> QED
    BY <2>1, <2>3, <2>5
<1>6. ASSUME MetaApply
      PROVE  Goal
  <2> DEFINE p(c) == meta.plan[Max(RowsOf(meta.plan, c))]
  <2>1. /\ DOMAIN assets' = DOMAIN assets /\ staff' = staff
        /\ assets' = [c \in DOMAIN assets' |-> assets'[c]]
        /\ \A c \in DOMAIN assets : assets'[c] =
             IF RowsOf(meta.plan, c) = {} THEN assets[c]
             ELSE [assets[c] EXCEPT !.brand = p(c).brand, !.serial = p(c).serial]
    BY <1>6 DEF MetaApply
  <2>2. ASSUME NEW c \in DOMAIN assets, RowsOf(meta.plan, c) # {}
        PROVE  p(c).brand \in Opt(STRING) /\ p(c).serial \in Opt(Serials)
    <3>1. PICK n \in Nat : DOMAIN meta.plan \subseteq 0..n
      BY DEF TypeInv, MetaInv
    <3>2. Max(RowsOf(meta.plan, c)) \in RowsOf(meta.plan, c)
      <4>1. RowsOf(meta.plan, c) \subseteq 0..n
        BY <3>1 DEF RowsOf
      <4> QED
        BY <2>2, <4>1, MaxIsIn
    <3>3. Max(RowsOf(meta.plan, c)) \in DOMAIN meta.plan
      BY <3>2 DEF RowsOf
    <3> QED
      BY <3>3 DEF TypeInv, MetaInv
  <2> HIDE DEF p
  <2>3. ASSUME NEW c \in DOMAIN assets
        PROVE  /\ assets'[c] \in AssetOf(staff', Len(categories'))
               /\ assets'[c].cat = assets[c].cat /\ assets'[c].imported = assets[c].imported
    <3>1. assets[c] \in AssetOf(staff', Len(categories'))
      BY <1>1, <1>2, <2>1
    <3>2. CASE RowsOf(meta.plan, c) = {}
      BY <2>1, <3>1, <3>2
    <3>3. CASE RowsOf(meta.plan, c) # {}
      <4>1. assets'[c] = [assets[c] EXCEPT !.brand = p(c).brand, !.serial = p(c).serial]
        BY <2>1, <3>3
      <4> QED
        BY <2>2, <3>1, <3>3, <4>1 DEF AssetOf
    <3> QED
      BY <3>2, <3>3
  <2>4. AssetInv'
    BY <1>0, <2>1, <2>3 DEF AssetInv
  <2> QED
    BY <2>1, <2>3, <2>4
<1>7. ASSUME NEW p \in People, Leave(p)
      PROVE  Goal
  <2>1. UNCHANGED assets /\ staff' = staff \ {p} /\ \A c \in DOMAIN assets : assets[c].holder # p
    BY <1>7 DEF Leave, NotHolder
  <2> HIDE DEF Goal
  <2> QED
    BY <1>2, <1>3, <2>1
<1>8. ASSUME NEW p \in People, Hire(p)
      PROVE  Goal
  <2>1. UNCHANGED assets /\ staff' = staff \cup {p}
    BY <1>8 DEF Hire
  <2> HIDE DEF Goal
  <2> QED
    BY <1>2, <1>3, <2>1
<1>9. \/ UNCHANGED <<assets, staff>>
      \/ \E b \in DOMAIN batches : ImportBatch(b)
      \/ \E c \in Codes, s \in Opt(Serials), cat \in 0..MaxCategories : Register(c, s, cat)
      \/ MetaApply
      \/ \E p \in People : Hire(p) \/ Leave(p)
  BY Steps DEF AddCategory, DeactivateCategory, SaveCategory, UpdateStock, MetaRead
<1> HIDE DEF Goal
<1>10. ASSUME UNCHANGED <<assets, staff>>
       PROVE  Goal
  BY <1>2, <1>3, <1>10
<1>11. Goal
  BY <1>4, <1>5, <1>6, <1>7, <1>8, <1>9, <1>10
<1> QED
  BY <1>11 DEF Goal

\* Stock is what it was, but for the count, or comes from a row that an import
\* takes and that nothing came from before.
LEMMA StockSteps ==
  ASSUME TypeInv, MarkedInv, [AssetsNext]_assetVars
  PROVE  /\ StockInv'
         /\ \A s \in stock' :
              \/ \E o \in stock : s.from = o.from /\ s.cat = o.cat
              \/ /\ s.cat \in DOMAIN categories' /\ categories'[s.cat].mode = "quantity"
                 /\ \E b \in DOMAIN batches : /\ ImportBatch(b) /\ s.from[1] = b /\ s.from[2] \in Taken(b)
<1> DEFINE New(s) == /\ s.cat \in DOMAIN categories' /\ categories'[s.cat].mode = "quantity"
                     /\ \E b \in DOMAIN batches : /\ ImportBatch(b) /\ s.from[1] = b /\ s.from[2] \in Taken(b)
           Goal == /\ StockInv'
                   /\ \A s \in stock' : (\E o \in stock : s.from = o.from /\ s.cat = o.cat) \/ New(s)
<1>0. /\ Len(categories) \in Nat /\ Len(categories') \in Nat /\ Len(categories) <= Len(categories')
      /\ DOMAIN categories = 1..Len(categories) /\ DOMAIN categories' = 1..Len(categories')
  BY CategorySteps DEF TypeInv, CatInv
<1>1. stock \subseteq StockOf(Len(categories'))
  <2>1. 1..Len(categories) \subseteq 1..Len(categories')
    BY <1>0
  <2>2. StockOf(Len(categories)) \subseteq StockOf(Len(categories'))
    BY <2>1 DEF StockOf
  <2> QED
    BY <2>2 DEF TypeInv, StockInv
<1>2. ASSUME UNCHANGED stock
      PROVE  Goal
  BY <1>1, <1>2 DEF StockInv
<1>3. ASSUME NEW s \in stock, NEW n \in {"0"} \cup Numbers, UpdateStock(s, n)
      PROVE  Goal
  <2> DEFINE new == [s EXCEPT !.onHand = n]
  <2>1. stock' = (stock \ {s}) \cup {new}
    BY <1>3 DEF UpdateStock
  <2>3. new \in StockOf(Len(categories')) /\ new.from = s.from /\ new.cat = s.cat
    BY <1>1 DEF StockOf
  <2> HIDE DEF new
  <2> QED
    BY <1>1, <2>1, <2>3 DEF StockInv
<1>4. ASSUME NEW b \in DOMAIN batches, ImportBatch(b)
      PROVE  Goal
  <2>1. ASSUME NEW s \in stock' \ stock
        PROVE  s \in StockOf(Len(categories')) /\ New(s)
    <3>1. PICK i \in Taken(b), k \in DOMAIN categories' :
            s = NewStock(b, i, TakenRow(b, i), k) /\ categories'[k].mode = "quantity"
      BY <1>4, ImportMakes
    <3>2. batches[b].mode \in Modes
      BY <1>4, ImportParts
    <3>3. /\ i \in DOMAIN batches[b].rows /\ TakenRow(b, i) \in Row(staff) /\ Open(batches[b].rows[i])
          /\ batches[b] # Gone /\ DOMAIN batches[b].rows \in Domains
          /\ TakenRow(b, i).qty \in Numbers
      <4>1. batches[b].mode = "quantity"
        BY <1>4, <2>1, ImportMakes
      <4> QED
        BY <3>2, <4>1, TakenRows, BatchFacts DEF Complete
    <3>4. \A o \in stock : o.from # <<b, i>>
      <4> SUFFICES ASSUME NEW o \in stock, o.from = <<b, i>>
                   PROVE  FALSE
        OBVIOUS
      <4>1. o.from[1] = b /\ o.from[2] = i
        OBVIOUS
      <4> QED
        BY <3>3, <4>1 DEF MarkedInv, Open
    <3>5. {o \in stock : o.from = <<b, i>>} = {}
      BY <3>4
    <3>6. NewStock(b, i, TakenRow(b, i), k).copy = 0
      BY <3>5, FS_EmptySet DEF NewStock
    <3>7. /\ s.from = <<b, i>> /\ s.cat = k /\ s.onHand = TakenRow(b, i).qty
          /\ s = [from |-> s.from, cat |-> s.cat, onHand |-> s.onHand, copy |-> s.copy]
      BY <3>1 DEF NewStock
    <3>8. <<b, i>> \in Nat \X UNION Domains
      <4>1. b \in Nat
        BY DEF TypeInv, BatchInv
      <4> QED
        BY <3>3, <4>1
    <3>9. s \in StockOf(Len(categories'))
      BY <1>0, <3>1, <3>3, <3>6, <3>7, <3>8 DEF StockOf, Row
    <3> QED
      BY <1>4, <3>1, <3>7, <3>9
  <2>2. stock' \subseteq StockOf(Len(categories'))
    BY <1>1, <2>1
  <2> QED
    BY <2>1, <2>2 DEF StockInv
<1>5. \/ UNCHANGED stock
      \/ \E b \in DOMAIN batches : ImportBatch(b)
      \/ \E s \in stock, n \in {"0"} \cup Numbers : UpdateStock(s, n)
  BY Steps DEF Register, AddCategory, DeactivateCategory, SaveCategory, Hire, Leave, MetaRead, MetaApply
<1> HIDE DEF Goal
<1>6. Goal
  BY <1>2, <1>3, <1>4, <1>5
<1> QED
  BY <1>6 DEF Goal

\* Employees, and what the metadata re-import has read.
LEMMA MetaSteps ==
  ASSUME TypeInv, [AssetsNext]_assetVars
  PROVE  MetaInv'
<1>0. MetaInv
  BY DEF TypeInv
<1>1. CASE UNCHANGED <<staff, meta>>
  BY <1>0, <1>1 DEF MetaInv
<1>2. ASSUME NEW p \in People, Hire(p) \/ Leave(p)
      PROVE  MetaInv'
  BY <1>0, <1>2 DEF MetaInv, Hire, Leave
<1>3. CASE MetaApply
  <2>1. meta'.pc = "idle" /\ meta'.plan = <<>> /\ staff' = staff
    BY <1>3 DEF MetaApply, NoMeta
  <2>2. DOMAIN meta'.plan = {}
    BY <2>1
  <2> QED
    BY <1>0, <2>1, <2>2 DEF MetaInv
<1>4. ASSUME NEW file \in MetaFiles, MetaRead(file)
      PROVE  MetaInv'
  <2> DEFINE R == [tag : STRING, brand : STRING, serial : Opt(Serials)]
  <2>1. file \in Seq(R)
    BY AssetConstantsOK DEF Opt
  <2>2. \A row \in R : row.brand \in STRING /\ row.serial \in Opt(Serials)
    OBVIOUS
  <2> HIDE DEF R
  <2>3. meta'.pc = "apply" /\ meta'.plan = Plan(file) /\ staff' = staff
    BY <1>4 DEF MetaRead
  <2>4. /\ DOMAIN Plan(file) \subseteq DOMAIN file
        /\ \A i \in DOMAIN Plan(file) : /\ Canonical[file[i].tag] \in DOMAIN assets
                                       /\ Plan(file)[i] = Written(file[i])
    BY DEF Plan
  <2>5. Len(file) \in Nat /\ DOMAIN Plan(file) \subseteq 0..Len(file)
    BY <2>1, <2>4
  <2>6. ASSUME NEW i \in DOMAIN Plan(file)
        PROVE  Plan(file)[i].brand \in Opt(STRING) /\ Plan(file)[i].serial \in Opt(Serials)
    <3>1. i \in DOMAIN file
      BY <2>4
    <3>2. file[i] \in R
      BY <2>1, <3>1
    <3>3. assets[Canonical[file[i].tag]] \in AssetOf(staff, Len(categories))
      BY <2>4 DEF TypeInv, AssetInv
    <3> QED
      BY <2>2, <2>4, <3>2, <3>3 DEF Written, Keep, AssetOf, Opt
  <2> QED
    BY <1>0, <2>3, <2>5, <2>6 DEF MetaInv
<1>5. \/ UNCHANGED <<staff, meta>>
      \/ \E b \in DOMAIN batches : ImportBatch(b)
      \/ \E p \in People : Hire(p) \/ Leave(p)
      \/ \E file \in MetaFiles : MetaRead(file)
      \/ MetaApply
  BY Steps DEF Register, AddCategory, DeactivateCategory, SaveCategory, UpdateStock
<1>6. ASSUME NEW b \in DOMAIN batches, ImportBatch(b)
      PROVE  UNCHANGED <<staff, meta>>
  BY <1>6 DEF ImportBatch
<1> QED
  BY <1>1, <1>2, <1>3, <1>4, <1>5, <1>6

-----------------------------------------------------------------------------
(* The inductive invariant. *)

\* Stock names a row that stays marked.
LEMMA MarkedSteps ==
  ASSUME TypeInv, MarkedInv, [AssetsNext]_assetVars
  PROVE  MarkedInv'
<1> SUFFICES ASSUME NEW s \in stock'
             PROVE  /\ s.from[1] \in DOMAIN batches'
                    /\ batches'[s.from[1]] # Gone =>
                         /\ s.from[2] \in DOMAIN batches'[s.from[1]].rows
                         /\ batches'[s.from[1]].rows[s.from[2]].status = "imported"
  BY DEF MarkedInv
<1>1. CASE \E o \in stock : s.from = o.from
  <2>1. PICK o \in stock : s.from = o.from
    BY <1>1
  <2>2. /\ o.from[1] \in DOMAIN batches
        /\ batches[o.from[1]] # Gone =>
             /\ o.from[2] \in DOMAIN batches[o.from[1]].rows
             /\ batches[o.from[1]].rows[o.from[2]].status = "imported"
    BY DEF MarkedInv
  <2>3. KeepsBatch(o.from[1])
    BY <2>2, BatchSteps
  <2> QED
    BY <2>1, <2>2, <2>3 DEF KeepsBatch, KeepsRow
<1>2. CASE \E b \in DOMAIN batches : ImportBatch(b) /\ s.from[1] = b /\ s.from[2] \in Taken(b)
  <2>1. PICK b \in DOMAIN batches : ImportBatch(b) /\ s.from[1] = b /\ s.from[2] \in Taken(b)
    BY <1>2
  <2>2. /\ DOMAIN batches' = DOMAIN batches /\ s.from[2] \in DOMAIN batches'[b].rows
        /\ batches'[b].rows[s.from[2]] = [TakenRow(b, s.from[2]) EXCEPT !.status = "imported"]
    BY <2>1, ImportMarks
  <2>3. TakenRow(b, s.from[2]) \in Row(staff)
    <3>1. batches[b].mode \in Modes
      BY <2>1, ImportParts
    <3> QED
      BY <2>1, <3>1, TakenRows
  <2> QED
    BY <2>1, <2>2, <2>3 DEF Row
<1> QED
  BY <1>1, <1>2, StockSteps

\* What counts stays with categories that count, what lists with those that list.
LEMMA KindSteps ==
  ASSUME TypeInv, MarkedInv, KindInv, [AssetsNext]_assetVars
  PROVE  KindInv'
<1>1. \A s \in stock : s.cat \in DOMAIN categories
  BY DEF TypeInv, StockInv, StockOf, CatInv
<1>2. \A c \in DOMAIN assets : assets[c].cat # 0 => assets[c].cat \in DOMAIN categories
  <2> SUFFICES ASSUME NEW c \in DOMAIN assets, assets[c].cat # 0
               PROVE  assets[c].cat \in DOMAIN categories
    OBVIOUS
  <2>1. assets[c] \in AssetOf(staff, Len(categories))
    BY DEF TypeInv, AssetInv
  <2>2. assets[c].cat \in 0..Len(categories) /\ Len(categories) \in Nat /\ DOMAIN categories = 1..Len(categories)
    BY <2>1 DEF AssetOf, TypeInv, CatInv
  <2> QED
    BY <2>2
<1>3. ASSUME NEW s \in stock'
      PROVE  categories'[s.cat].mode = "quantity"
  <2>1. CASE \E o \in stock : s.cat = o.cat
    <3>1. PICK o \in stock : s.cat = o.cat
      BY <2>1
    <3>2. categories[o.cat].mode = "quantity" /\ o.cat \in DOMAIN categories
      BY <1>1 DEF KindInv
    <3>3. ~Unused(o.cat)
      BY DEF Unused
    <3> QED
      BY <3>1, <3>2, <3>3, CategorySteps
  <2> QED
    BY <2>1, StockSteps
<1>4. ASSUME NEW c \in DOMAIN assets', assets'[c].imported
      PROVE  assets'[c].cat # 0 /\ categories'[assets'[c].cat].mode = "serialized"
  <2>1. CASE /\ c \in DOMAIN assets /\ assets'[c].cat = assets[c].cat
             /\ assets'[c].imported = assets[c].imported
    <3>1. assets[c].cat # 0 /\ categories[assets[c].cat].mode = "serialized"
      BY <1>4, <2>1 DEF KindInv
    <3>2. assets[c].cat \in DOMAIN categories /\ ~Unused(assets[c].cat)
      BY <1>2, <2>1, <3>1 DEF Unused
    <3> QED
      BY <2>1, <3>1, <3>2, CategorySteps
  <2>2. CASE assets'[c].cat \in DOMAIN categories' /\ categories'[assets'[c].cat].mode = "serialized"
    BY <2>2, CategorySteps DEF CatInv
  <2> QED
    BY <1>4, <2>1, <2>2, AssetSteps
<1> QED
  BY <1>3, <1>4 DEF KindInv

Inv == TypeInv /\ MarkedInv /\ KindInv

\* The invariant holds at first and every step keeps it.
LEMMA AssetInvariant == AssetsSpec => []Inv
<1>1. AssetsInit => Inv
  <2> SUFFICES ASSUME AssetsInit
               PROVE  Inv
    OBVIOUS
  <2>1. /\ DOMAIN assets = {} /\ categories = <<>> /\ stock = {} /\ batches = <<>> /\ staff \subseteq People
        /\ meta.pc = "idle" /\ DOMAIN meta.plan = {}
    <3>1. meta.pc = "idle" /\ meta.plan = <<>>
      BY DEF AssetsInit, NoMeta
    <3>2. DOMAIN meta.plan = {}
      BY <3>1
    <3> QED
      BY <3>1, <3>2 DEF AssetsInit
  <2>2. CatInv /\ BatchInv /\ StockInv
    BY <2>1 DEF CatInv, BatchInv, StockInv
  <2>3. AssetInv
    <3>1. assets = [c \in DOMAIN assets |-> assets[c]]
      BY DEF AssetsInit
    <3> QED
      BY <2>1, <3>1 DEF AssetInv
  <2>4. MetaInv
    <3>1. DOMAIN meta.plan \subseteq 0..0 /\ 0 \in Nat
      BY <2>1
    <3> QED
      BY <2>1, <3>1 DEF MetaInv
  <2> QED
    BY <2>1, <2>2, <2>3, <2>4 DEF Inv, TypeInv, MarkedInv, KindInv
<1>2. Inv /\ [AssetsNext]_assetVars => Inv'
  BY BatchSteps, CategorySteps, AssetSteps, StockSteps, MetaSteps, MarkedSteps, KindSteps DEF Inv, TypeInv
<1> QED
  BY <1>1, <1>2, PTL DEF AssetsSpec

-----------------------------------------------------------------------------
(* Theorems. *)

\* Assets, categories and rows are well formed, and no asset is with a category
\* that is not there nor, as the rows of a batch, with an employee who left.
THEOREM AssetTypes == AssetsSpec => []AssetTypeOK
<1>1. Inv => AssetTypeOK
  <2> SUFFICES ASSUME Inv
               PROVE  AssetTypeOK
    OBVIOUS
  <2>1. ASSUME NEW c \in DOMAIN assets
        PROVE  /\ c \in Codes /\ assets[c].serial \in Opt(Serials)
               /\ assets[c].cat \in DOMAIN categories \cup {0}
               /\ assets[c].holder \in staff \cup {Nobody}
    <3>1. c \in Codes /\ assets[c] \in AssetOf(staff, Len(categories))
      BY DEF Inv, TypeInv, AssetInv
    <3>2. Len(categories) \in Nat /\ DOMAIN categories = 1..Len(categories)
      BY DEF Inv, TypeInv, CatInv
    <3> QED
      BY <3>1, <3>2 DEF AssetOf
  <2>2. ASSUME NEW c \in DOMAIN categories
        PROVE  categories[c].name \in Types /\ categories[c].mode \in Modes
    <3>1. categories[c] \in Category
      BY DEF Inv, TypeInv, CatInv
    <3> QED
      BY <3>1 DEF Category
  <2>3. ASSUME NEW b \in DOMAIN batches, NEW i \in DOMAIN batches[b].rows
        PROVE  batches[b].rows[i].status \in Status /\ batches[b].rows[i].resolved \in staff \cup {Nobody}
    <3>1. batches[b].rows[i] \in Row(staff)
      BY BatchFacts DEF Inv
    <3> QED
      BY <3>1 DEF Row
  <2> QED
    BY <2>1, <2>2, <2>3 DEF AssetTypeOK
<1> QED
  BY <1>1, AssetInvariant, PTL

\* A staged row becomes stock once, however often its batch is imported, and stock
\* and imported assets stay with categories of their kind.
THEOREM RowsStockedOnce == AssetsSpec => []StockedOnce
<1>1. Inv => StockedOnce
  <2> SUFFICES ASSUME Inv
               PROVE  StockedOnce
    OBVIOUS
  <2>1. \A s \in stock : s.copy = 0
    BY DEF Inv, TypeInv, StockInv, StockOf
  <2> QED
    BY <2>1 DEF Inv, KindInv, StockedOnce
<1> QED
  BY <1>1, AssetInvariant, PTL

\* Rows that an import takes differ in code and in serial number, and no asset has
\* either.
LEMMA TakenDiffer ==
  ASSUME TypeInv, NEW b \in DOMAIN batches, batches[b].mode = "serialized", NEW i \in Taken(b),
         TakenRow(b, i).code \notin DOMAIN assets
  PROVE  /\ \A j \in Taken(b) : TakenRow(b, j).code = TakenRow(b, i).code => j = i
         /\ TakenRow(b, i).serial # None =>
              /\ \A j \in Taken(b) : TakenRow(b, j).serial = TakenRow(b, i).serial => j = i
              /\ \A c \in DOMAIN assets : assets[c].serial # TakenRow(b, i).serial
<1> DEFINE rows == batches[b].rows
<1>1. batches[b].mode \in Modes
  BY DEF Modes
<1>2. \A j \in Taken(b) : /\ j \in DOMAIN rows /\ Open(rows[j])
                         /\ TakenRow(b, j).code = rows[j].code /\ TakenRow(b, j).serial = rows[j].serial
  BY <1>1, TakenRows
<1>3. rows[i].code # None /\ Classify(assets, rows, rows[i]) = "new"
  BY <1>1, TakenRows DEF Complete
<1>4. /\ WithSerial(assets, rows[i].serial) = {} /\ ~Twice(rows, "code", rows[i].code)
      /\ rows[i].serial # None => ~Twice(rows, "serial", rows[i].serial)
  BY <1>2, <1>3 DEF Classify
<1>5. \A j \in Taken(b) : rows[j].code = rows[i].code => j = i
  BY <1>2, <1>4 DEF Twice
<1>6. rows[i].serial # None => \A j \in Taken(b) : rows[j].serial = rows[i].serial => j = i
  BY <1>2, <1>4 DEF Twice
<1>7. rows[i].serial # None => \A c \in DOMAIN assets : assets[c].serial # rows[i].serial
  BY <1>4 DEF WithSerial
<1> QED
  BY <1>2, <1>5, <1>6, <1>7

\* The steps that make assets.
LEMMA NewAssets ==
  ASSUME TypeInv, [AssetsNext]_assetVars, NEW c \in DOMAIN assets' \ DOMAIN assets, assets'[c].imported
  PROVE  \E b \in DOMAIN batches : ImportBatch(b)
<1>1. CASE \E d \in Codes, s \in Opt(Serials), cat \in 0..MaxCategories : Register(d, s, cat)
  BY <1>1 DEF Register
<1>2. CASE DOMAIN assets' = DOMAIN assets
  BY <1>2
<1>3. \/ DOMAIN assets' = DOMAIN assets
      \/ \E b \in DOMAIN batches : ImportBatch(b)
      \/ \E d \in Codes, s \in Opt(Serials), cat \in 0..MaxCategories : Register(d, s, cat)
  BY Steps DEF AddCategory, DeactivateCategory, SaveCategory, UpdateStock, Hire, Leave, MetaRead, MetaApply
<1> QED
  BY <1>1, <1>2, <1>3

\* An imported asset is the only one with its serial number when it is made, and
\* the row it came from keeps naming it.
THEOREM ImportedAreIdentified == AssetsSpec => ImportsIdentify
<1>1. ASSUME Inv, [AssetsNext]_assetVars, NEW c \in DOMAIN assets' \ DOMAIN assets, assets'[c].imported
      PROVE  WithSerial(assets', assets'[c].serial) \subseteq {c}
  <2>0. TypeInv
    BY <1>1 DEF Inv
  <2>1. PICK b \in DOMAIN batches : ImportBatch(b)
    BY <1>1, <2>0, NewAssets
  <2>2. PICK i \in Taken(b), k \in DOMAIN categories' :
          /\ batches[b].mode = "serialized"
          /\ TakenRow(b, i).code = c /\ assets'[c] = AssetFrom(TakenRow(b, i), k)
    BY <1>1, <2>0, <2>1, ImportMakes
  <2>3. assets'[c].serial = TakenRow(b, i).serial
    BY <2>2 DEF AssetFrom
  <2> SUFFICES ASSUME NEW d \in DOMAIN assets', assets'[c].serial # None,
                      assets'[d].serial = assets'[c].serial
               PROVE  d = c
    BY DEF WithSerial
  <2>4. /\ \A j \in Taken(b) : TakenRow(b, j).serial = TakenRow(b, i).serial => j = i
        /\ \A e \in DOMAIN assets : assets[e].serial # TakenRow(b, i).serial
    BY <1>1, <2>0, <2>2, <2>3, TakenDiffer
  <2>5. CASE d \in DOMAIN assets
    <3>1. assets'[d] = assets[d]
      BY <2>0, <2>1, <2>5, ImportMakes
    <3> QED
      BY <2>3, <2>4, <2>5, <3>1
  <2>6. CASE d \notin DOMAIN assets
    <3>1. PICK j \in Taken(b), l \in DOMAIN categories' :
            TakenRow(b, j).code = d /\ assets'[d] = AssetFrom(TakenRow(b, j), l)
      BY <2>0, <2>1, <2>6, ImportMakes
    <3>2. TakenRow(b, j).serial = TakenRow(b, i).serial
      BY <2>3, <3>1 DEF AssetFrom
    <3> QED
      BY <2>2, <2>4, <3>1, <3>2
  <2> QED
    BY <2>5, <2>6
<1>2. ASSUME Inv, [AssetsNext]_assetVars, NEW b \in DOMAIN batches, NEW i \in 1..2
      PROVE  ReadOnly(b, i)
  <2>1. KeepsBatch(b)
    BY <1>2, BatchSteps DEF Inv
  <2> QED
    BY <2>1 DEF ReadOnly, KeepsBatch, KeepsRow
<1>3. ASSUME Inv, [AssetsNext]_assetVars
      PROVE  /\ \A c \in DOMAIN assets' \ DOMAIN assets : assets'[c].imported =>
                  WithSerial(assets', assets'[c].serial) \subseteq {c}
             /\ \A b \in DOMAIN batches, i \in 1..2 : ReadOnly(b, i)
  BY <1>1, <1>2, <1>3
<1> QED
  BY <1>3, AssetInvariant, PTL DEF AssetsSpec, ImportsIdentify

\* An asset that is imported with an owner goes to the one employee his StaffID
\* stands for at that time.
THEOREM ImportsGoToCurrentOwners == AssetsSpec => OwnersAreCurrent
<1>1. ASSUME Inv, [AssetsNext]_assetVars, NEW b \in DOMAIN batches', NEW i \in 1..2, Imports(b, i),
             batches[b].mode = "serialized", batches'[b].rows[i].owner # None
      PROVE  /\ assets'[batches'[b].rows[i].code].holder = Owner(batches'[b].rows[i])
             /\ Owner(batches'[b].rows[i]) \in staff
  <2> DEFINE old == batches[b].rows[i]
             row == batches'[b].rows[i]
  <2>0. TypeInv
    BY <1>1 DEF Inv
  <2>1. b \in DOMAIN batches /\ i \in DOMAIN batches'[b].rows /\ row.status = "imported" /\ old.status # "imported"
    BY <1>1 DEF Imports
  <2>2. batches'[b] # Gone
    <3>1. DOMAIN Gone.rows = {}
      BY DEF Gone
    <3> QED
      BY <2>1, <3>1
  <2>3. ImportBatch(b) /\ i \in Taken(b)
    BY <1>1, <2>0, <2>1, <2>2, BatchSteps DEF KeepsBatch, KeepsRow
  <2>4. batches[b].mode \in Modes /\ TakenRow(b, i) \in Row(staff)
    BY <2>0, <2>1, <2>3, ImportParts, TakenRows
  <2>5. row = [TakenRow(b, i) EXCEPT !.status = "imported"]
    BY <2>0, <2>1, <2>3, ImportMarks
  <2>6. row.code = TakenRow(b, i).code /\ row.owner = TakenRow(b, i).owner
    BY <2>4, <2>5 DEF Row
  <2>7. TakenRow(b, i).owner = old.owner /\ TakenRow(b, i).resolved = Owner(old)
    BY <2>0, <2>1, <2>3, <2>4, TakenRows
  <2>8. Owner(row) = Owner(old)
    BY <2>6, <2>7 DEF Owner
  <2>9. /\ row.code \in DOMAIN assets' \ DOMAIN assets /\ TakenRow(b, i).resolved \in staff
    BY <1>1, <2>0, <2>1, <2>3, <2>6, ImportMakes
  <2>10. PICK j \in Taken(b), k \in DOMAIN categories' :
           TakenRow(b, j).code = row.code /\ assets'[row.code] = AssetFrom(TakenRow(b, j), k)
    BY <2>0, <2>1, <2>3, <2>9, ImportMakes
  <2>11. j = i
    BY <1>1, <2>0, <2>1, <2>3, <2>6, <2>9, <2>10, TakenDiffer
  <2>12. assets'[row.code].holder = TakenRow(b, i).resolved
    BY <1>1, <2>6, <2>10, <2>11 DEF AssetFrom
  <2> QED
    BY <2>7, <2>8, <2>9, <2>12
<1>2. ASSUME Inv, [AssetsNext]_assetVars
      PROVE  \A b \in DOMAIN batches', i \in 1..2 : Imports(b, i) =>
               LET row == batches'[b].rows[i] IN
               batches[b].mode = "serialized" /\ row.owner # None =>
                 assets'[row.code].holder = Owner(row) /\ Owner(row) \in staff
  BY <1>1, <1>2
<1> QED
  BY <1>2, AssetInvariant, PTL DEF AssetsSpec, OwnersAreCurrent

-----------------------------------------------------------------------------
(* Workbooks. *)

\* Numbers are reached from 0, one after the other.
LEMMA UpTo ==
  ASSUME NEW n \in Nat, NEW T, 0 \in T, \A i \in 1..n : i - 1 \in T => i \in T
  PROVE  0..n \subseteq T
<1> DEFINE B == {i \in 0..n : i \notin T}
           R == {ss \in Nat \X Nat : ss[1] < ss[2]}
<1>1. IsWellFoundedOn(R, Nat)
  BY NatLessThanWellFounded DEF OpToRel
<1> SUFFICES ASSUME B # {}
             PROVE  FALSE
  OBVIOUS
<1>2. B \subseteq Nat
  OBVIOUS
<1> HIDE DEF R
<1>3. PICK b \in B : \A y \in B : <<y, b>> \notin R
  <2> HIDE DEF B
  <2> QED
    BY <1>1, <1>2, WFMin
<1>4. b \in 1..n /\ b - 1 \in 0..n
  OBVIOUS
<1>5. b - 1 \in T
  <2>1. <<b - 1, b>> \in R
    BY <1>4 DEF R
  <2> QED
    BY <1>3, <1>4, <2>1
<1> QED
  BY <1>4, <1>5

\* A set of numbers has a smallest one.
LEMMA MinIsIn ==
  ASSUME NEW S \in SUBSET Nat, S # {}
  PROVE  Min(S) \in S
<1> DEFINE R == {ss \in Nat \X Nat : ss[1] < ss[2]}
<1>1. IsWellFoundedOn(R, Nat)
  BY NatLessThanWellFounded DEF OpToRel
<1> HIDE DEF R
<1>2. PICK x \in S : \A y \in S : <<y, x>> \notin R
  BY <1>1, WFMin
<1>3. \A y \in S : x <= y
  <2> SUFFICES ASSUME NEW y \in S
               PROVE  x <= y
    OBVIOUS
  <2>1. ~(y < x)
    BY <1>2 DEF R
  <2> QED
    BY <2>1
<1> QED
  BY <1>3 DEF Min

\* The fields.
LEMMA FieldNames ==
  AllFields = {"assetCode", "assetType", "computerName", "usageLocation", "serialNumber",
               "quantity", "warehouse", "displayName"}
<1>1. DOMAIN FieldOrder = 1..7
  BY DEF FieldOrder
<1>2. 1..7 = {1, 2, 3, 4, 5, 6, 7}
  OBVIOUS
<1>3. /\ FieldOrder[1] = "assetCode" /\ FieldOrder[2] = "assetType"
      /\ FieldOrder[3] = "computerName" /\ FieldOrder[4] = "usageLocation"
      /\ FieldOrder[5] = "serialNumber" /\ FieldOrder[6] = "quantity"
      /\ FieldOrder[7] = "warehouse"
  BY DEF FieldOrder
<1> QED
  BY <1>1, <1>2, <1>3 DEF AllFields, Fields, ToSet

\* The keys of a header row, and the mappings to them.
HeaderKeys(headers) == {headers[i] : i \in DOMAIN headers}
Mappings(headers)   == [AllFields -> Opt(HeaderKeys(headers))]

\* A header that goes to a field leaves a mapping to the headers.
LEMMA AssignKeeps ==
  ASSUME NEW headers, NEW m \in Mappings(headers), NEW i \in DOMAIN headers
  PROVE  AssignHeader(m, headers[i]) \in Mappings(headers)
<1>1. \A f : [m EXCEPT ![f] = headers[i]] \in Mappings(headers)
  BY DEF Mappings, Opt, HeaderKeys
<1> QED
  BY <1>1 DEF AssignHeader

Assigns(headers, n, f) ==
  /\ f \in [0..n -> Mappings(headers)] /\ f[0] = NoMapping
  /\ \A i \in 1..n : f[i] = AssignHeader(f[i - 1], headers[i])

\* The headers can be assigned one after the other.
LEMMA HeadersAssigned ==
  ASSUME NEW S, NEW headers \in Seq(S)
  PROVE  \E f : Assigns(headers, Len(headers), f)
<1> DEFINE n == Len(headers)
           T == {m \in 0..n : \E f : Assigns(headers, m, f)}
<1>1. n \in Nat /\ DOMAIN headers = 1..n
  OBVIOUS
<1> HIDE DEF n
<1>2. 0 \in T
  <2> DEFINE g == [i \in 0..0 |-> NoMapping]
  <2>1. NoMapping \in Mappings(headers)
    BY DEF NoMapping, Mappings, Opt
  <2>2. Assigns(headers, 0, g)
    BY <2>1 DEF Assigns
  <2>3. 0 \in 0..n
    BY <1>1
  <2> HIDE DEF g
  <2> QED
    BY <2>2, <2>3
<1>3. ASSUME NEW m \in 1..n, m - 1 \in T
      PROVE  m \in T
  <2>1. PICK f : Assigns(headers, m - 1, f)
    BY <1>3
  <2>2. m \in 0..n /\ m - 1 \in 0..(m - 1) /\ m \in DOMAIN headers /\ m \in Nat
    BY <1>1
  <2> DEFINE last == AssignHeader(f[m - 1], headers[m])
             g == [i \in 0..m |-> IF i = m THEN last ELSE f[i]]
  <2>3. last \in Mappings(headers)
    BY <2>1, <2>2, AssignKeeps DEF Assigns
  <2> HIDE DEF last
  <2>4. g \in [0..m -> Mappings(headers)]
    <3>1. \A i \in 0..m : i = m \/ i \in 0..(m - 1)
      BY <2>2
    <3> QED
      BY <2>1, <2>3, <3>1 DEF Assigns
  <2>5. g[0] = f[0] /\ g[m] = last /\ g[m - 1] = f[m - 1]
    <3>1. 0 \in 0..m /\ 0 # m /\ m \in 0..m /\ m - 1 \in 0..m /\ m - 1 # m
      BY <1>1
    <3> QED
      BY <3>1
  <2>6. \A i \in 1..(m - 1) : g[i] = f[i] /\ g[i - 1] = f[i - 1]
    OBVIOUS
  <2> HIDE DEF g
  <2>7. ASSUME NEW i \in 1..m
        PROVE  g[i] = AssignHeader(g[i - 1], headers[i])
    <3>1. CASE i = m
      BY <2>5, <3>1 DEF last
    <3>2. CASE i \in 1..(m - 1)
      BY <2>1, <2>6, <3>2 DEF Assigns
    <3> QED
      BY <3>1, <3>2
  <2>8. Assigns(headers, m, g)
    BY <2>1, <2>4, <2>5, <2>7 DEF Assigns
  <2> QED
    BY <2>2, <2>8
<1> HIDE DEF T
<1>4. 0..n \subseteq T
  BY <1>1, <1>2, <1>3, UpTo
<1>5. n \in T
  BY <1>1, <1>4
<1> QED
  BY <1>5 DEF T, n

\* The first header among some keys is one of them.
LEMMA FirstHeaderIsOne ==
  ASSUME NEW S, NEW headers \in Seq(S), NEW keys
  PROVE  /\ FirstHeader(headers, keys) \in Opt(HeaderKeys(headers))
         /\ Indices(headers, keys) # {} => FirstHeader(headers, keys) \in keys \cap HeaderKeys(headers)
<1> DEFINE is == Indices(headers, keys)
<1>1. is \subseteq DOMAIN headers /\ \A i \in is : headers[i] \in keys
  BY DEF Indices
<1>2. is \in SUBSET Nat
  BY <1>1
<1> HIDE DEF is
<1>3. CASE is = {}
  BY <1>3 DEF FirstHeader, FirstOf, Opt, is
<1>4. CASE is # {}
  <2>1. Min(is) \in is
    BY <1>2, <1>4, MinIsIn
  <2>2. FirstHeader(headers, keys) = headers[Min(is)]
    BY <1>4 DEF FirstHeader, FirstOf, is
  <2> QED
    BY <1>1, <2>1, <2>2 DEF Opt, HeaderKeys
<1> QED
  BY <1>3, <1>4 DEF is

\* What is detected are headers, and a row that names the name has one for it.
LEMMA DetectsHeaders ==
  ASSUME NEW S, NEW headers \in Seq(S)
  PROVE  /\ DetectMapping(headers) \in Mappings(headers)
         /\ ExplicitName(headers) => DetectMapping(headers)["displayName"] # None
<1> DEFINE n == Len(headers)
           After(f) == f = [i \in 0..n |-> IF i = 0 THEN NoMapping
                                           ELSE AssignHeader(f[i - 1], headers[i])]
           after == CHOOSE f : After(f)
<1>1. n \in Nat
  OBVIOUS
<1>2. PICK f : Assigns(headers, n, f)
  BY HeadersAssigned
<1> HIDE DEF n
<1>3. After(f)
  BY <1>1, <1>2 DEF Assigns
<1>4. After(after)
  <2> HIDE DEF After
  <2> QED
    BY <1>3
<1>5. DetectMapping(headers) = WithName(after[n], headers)
  BY DEF DetectMapping, n
<1> HIDE DEF after
<1>6. after[0] = NoMapping /\ \A i \in 1..n : after[i] = AssignHeader(after[i - 1], headers[i])
  BY <1>1, <1>4
<1>7. after[n] \in Mappings(headers)
  <2> DEFINE T == {i \in 0..n : after[i] \in Mappings(headers)}
  <2>1. 0 \in T
    BY <1>1, <1>6 DEF NoMapping, Mappings, Opt
  <2>2. ASSUME NEW i \in 1..n, i - 1 \in T
        PROVE  i \in T
    <3>1. after[i - 1] \in Mappings(headers) /\ i \in 0..n /\ i \in DOMAIN headers
      BY <1>1, <2>2 DEF n
    <3>2. AssignHeader(after[i - 1], headers[i]) \in Mappings(headers)
      BY <3>1, AssignKeeps
    <3> QED
      BY <1>6, <3>1, <3>2
  <2> HIDE DEF T
  <2>3. 0..n \subseteq T
    BY <1>1, <2>1, <2>2, UpTo
  <2>4. n \in T
    BY <1>1, <2>3
  <2> QED
    BY <2>4 DEF T
<1> DEFINE m == after[n]
           first == FirstHeader(headers, PrimaryNames)
           second == FirstHeader(headers, FallbackNames)
           name == Given(first, Given(second, m["computerName"]))
<1>8. DetectMapping(headers) = [m EXCEPT !["displayName"] = name]
  BY <1>5 DEF WithName
<1>9. first \in Opt(HeaderKeys(headers)) /\ second \in Opt(HeaderKeys(headers))
  BY FirstHeaderIsOne
<1>10. "computerName" \in AllFields /\ "displayName" \in AllFields
  BY FieldNames
<1>11. name \in Opt(HeaderKeys(headers))
  BY <1>7, <1>9, <1>10 DEF Mappings, Given
<1>12. ASSUME ExplicitName(headers)
       PROVE  name # None
  <2>1. \/ Indices(headers, PrimaryNames) # {}
        \/ Indices(headers, FallbackNames) # {}
    BY <1>12 DEF ExplicitName, Indices
  <2>2. first \in PrimaryNames \/ second \in FallbackNames
    BY <2>1, FirstHeaderIsOne
  <2>3. None \notin PrimaryNames /\ None \notin FallbackNames
    BY DEF None, PrimaryNames, FallbackNames
  <2> QED
    BY <2>2, <2>3 DEF Given
<1> HIDE DEF m, name
<1> QED
  BY <1>7, <1>8, <1>10, <1>11, <1>12 DEF Mappings, m

\* A key of the row has a column.
LEMMA KeysHaveColumns ==
  ASSUME NEW S, NEW headers \in Seq(S), NEW key \in HeaderKeys(headers), key # None
  PROVE  Column(headers, key) # 0
<1> DEFINE is == Indices(headers, {key})
<1>1. Len(headers) \in Nat /\ DOMAIN headers = 1..Len(headers)
  OBVIOUS
<1>2. is # {} /\ is \subseteq 1..Len(headers)
  BY <1>1 DEF HeaderKeys, Indices
<1>3. Column(headers, key) = Max(is)
  BY <1>2 DEF Column, LastOf
<1> HIDE DEF is
<1>4. is \in SUBSET (0..Len(headers))
  BY <1>1, <1>2
<1>5. Max(is) \in is
  BY <1>1, <1>2, <1>4, MaxIsIn
<1> QED
  BY <1>1, <1>2, <1>3, <1>5

\* A mapping of the category scores.
LEMMA MappedScores ==
  ASSUME NEW m, m["assetType"] # None
  PROVE  MappingScore(m) \in Nat /\ MappingScore(m) > 0
<1> DEFINE P == {f \in Required("serialized") : m[f] # None}
           Q == {f \in AllFields \ Required("serialized") : m[f] # None}
<1>1. Required("serialized") = {"assetType", "displayName"}
  BY DEF Required
<1>2. IsFiniteSet(AllFields)
  <2>1. DOMAIN FieldOrder = 1..7 /\ FieldOrder = [i \in 1..7 |-> FieldOrder[i]]
    BY DEF FieldOrder
  <2>2. FieldOrder \in Surjection(1..7, Fields)
    BY <2>1 DEF Fields, ToSet, Surjection
  <2>3. IsFiniteSet(1..7)
    <3>1. 1 \in Int /\ 7 \in Int
      OBVIOUS
    <3> QED
      BY ONLY <3>1, FS_Interval
  <2>4. IsFiniteSet(Fields)
    BY <2>2, <2>3, FS_Surjection
  <2>5. IsFiniteSet(Fields \cup {"displayName"})
    BY <2>4, FS_AddElement
  <2> QED
    BY <2>5 DEF AllFields
<1>3. IsFiniteSet({"assetType", "displayName"})
  <2>1. {"assetType", "displayName"} = {"assetType"} \cup {"displayName"}
    OBVIOUS
  <2>2. IsFiniteSet({"assetType"})
    BY FS_Singleton
  <2>3. IsFiniteSet({"assetType"} \cup {"displayName"})
    BY ONLY <2>2, FS_AddElement
  <2> QED
    BY ONLY <2>1, <2>3
<1>4. P \subseteq {"assetType", "displayName"} /\ Q \subseteq AllFields /\ "assetType" \in P
  BY <1>1
<1> HIDE DEF P, Q
<1>5. Cardinality(P) \in Nat /\ Cardinality(Q) \in Nat /\ Cardinality(P) # 0
  <2>1. IsFiniteSet(P) /\ IsFiniteSet(Q) /\ P # {}
    BY <1>2, <1>3, <1>4, FS_Subset
  <2> QED
    BY <2>1, FS_CardinalityType, FS_EmptySet
<1> QED
  BY <1>5 DEF MappingScore, P, Q

\* Of a single sheet the first of the best is that one, if it scores at all.
LEMMA OneIsBest ==
  ASSUME NEW score \in Nat, score > 0, NEW i \in Nat
  PROVE  Best({<<score, i>>}) = {i}
<1>1. \A p \in {<<score, i>>} : p[1] = score /\ p[2] = i
  OBVIOUS
<1>2. i <= i /\ ~(score < score)
  OBVIOUS
<1> QED
  BY <1>1, <1>2 DEF Best

\* The header row of a sheet is a row of it.
LEMMA HeaderRowsAreRows ==
  ASSUME NEW sheet
  PROVE  HeaderRows(sheet) \subseteq DOMAIN sheet
<1> DEFINE is == {i \in DOMAIN sheet : i <= 30 /\ ~Blank(sheet[i])}
           scored == {<<HeaderScore(sheet[i]), i>> : i \in is}
<1>1. \A p \in scored : p[2] \in is
  OBVIOUS
<1>2. HeaderRows(sheet) = Best(scored)
  BY DEF HeaderRows
<1> HIDE DEF scored
<1> QED
  BY <1>1, <1>2 DEF Best

\* What is said of an asset sheet of a kind that can be imported: its columns for that.
LEMMA EvidenceMaps ==
  ASSUME NEW headers, NEW m, NEW k \in Modes, k \in Kinds(headers, m)
  PROVE  ExplicitName(headers) /\ m["assetType"] # None /\ (k = "quantity" => m["quantity"] # None)
<1>1. CASE k = "serialized"
  <2>1. SerializedEvidence(headers, m)
    BY <1>1 DEF Kinds
  <2> QED
    BY <1>1, <2>1 DEF SerializedEvidence, Maps
<1>2. CASE k = "quantity"
  <2>1. QuantityEvidence(headers, m)
    BY <1>2 DEF Kinds
  <2> QED
    BY <2>1 DEF QuantityEvidence, Maps
<1> QED
  BY <1>1, <1>2 DEF Modes

\* A sheet with the evidence has a header row that scores, and rows below it are staged.
LEMMA EvidentSheets ==
  ASSUME NEW S, NEW sheet \in Seq(Seq(S)), NEW k \in Modes,
         k \in Kinds(Headers(sheet), DetectMapping(Headers(sheet))),
         \A h \in HeaderRows(sheet) : 1 \in DOMAIN RowsBelow(sheet, h)
  PROVE  /\ HeaderScore(Headers(sheet)) \in Nat /\ HeaderScore(Headers(sheet)) > 0
         /\ ParseSheet(sheet, The(HeaderRows(sheet)), k, NoMapping) # <<>>
<1> DEFINE headers == Headers(sheet)
           h == The(HeaderRows(sheet))
           m == DetectMapping(headers)
           merged == MergeMapping(m, NoMapping)
<1>1. ExplicitName(headers) /\ m["assetType"] # None /\ (k = "quantity" => m["quantity"] # None)
  BY EvidenceMaps
<1>2. HeaderRows(sheet) # {}
  <2> SUFFICES ASSUME HeaderRows(sheet) = {}
               PROVE  FALSE
    OBVIOUS
  <2>1. headers = <<>>
    BY DEF Headers, RowOf
  <2>2. DOMAIN headers = {}
    BY <2>1
  <2> QED
    BY <1>1, <2>2 DEF ExplicitName, Indices
<1>3. h \in DOMAIN sheet /\ h \in HeaderRows(sheet)
  BY <1>2, TheIsIn, HeaderRowsAreRows
<1>4. headers = sheet[h]
  BY <1>2 DEF Headers, RowOf
<1>5. headers \in Seq(S)
  BY <1>3, <1>4
<1>6. m \in Mappings(headers) /\ m["displayName"] # None
  BY <1>1, <1>5, DetectsHeaders
<1>7. HeaderScore(headers) \in Nat /\ HeaderScore(headers) > 0
  BY <1>1, MappedScores DEF HeaderScore
<1>8. \A f \in AllFields : merged[f] = m[f]
  BY DEF MergeMapping, NoMapping, Given
<1>9. Required(k) \subseteq AllFields /\ \A f \in Required(k) : m[f] # None
  BY <1>1, <1>6, FieldNames DEF Required
<1>10. ASSUME NEW f \in Required(k)
       PROVE  Column(headers, merged[f]) # 0
  <2>1. f \in AllFields /\ m[f] # None /\ merged[f] = m[f]
    BY <1>8, <1>9
  <2>2. m[f] \in HeaderKeys(headers)
    BY <1>6, <2>1 DEF Mappings, Opt
  <2> QED
    BY <1>5, <2>1, <2>2, KeysHaveColumns
<1> DEFINE data == RowsBelow(sheet, h)
           staged == [i \in DOMAIN data |-> StagedRow(headers, data[i], merged)]
<1>11. ParseSheet(sheet, h, k, NoMapping) = StagedRows(headers, data, merged, k)
  BY <1>4 DEF ParseSheet
<1>12. 1 \in DOMAIN data
  BY <1>3
<1> HIDE DEF headers, h, m, merged, data
<1>13. StagedRows(headers, data, merged, k) = staged
  BY <1>10 DEF StagedRows
<1>14. 1 \in DOMAIN staged
  BY <1>12
<1>15. staged # <<>>
  <2>1. 1 \notin DOMAIN <<>>
    OBVIOUS
  <2> HIDE DEF staged
  <2> QED
    BY <1>14, <2>1
<1> HIDE DEF staged
<1>16. ParseSheet(sheet, h, k, NoMapping) # <<>>
  BY <1>11, <1>13, <1>15
<1> QED
  BY <1>7, <1>16 DEF headers, h

\* Where a workbook is routed to an import, it is to a sheet with the evidence for it.
LEMMA RoutesHaveEvidence ==
  ASSUME NEW S, NEW book \in Seq(S), Route(book).kind \in Modes
  PROVE  /\ Route(book).sheet \in DOMAIN book
         /\ Route(book).kind \in Kinds(Headers(book[Route(book).sheet]),
                                       DetectMapping(Headers(book[Route(book).sheet])))
<1> DEFINE found == Detections(book)
           kinds == UNION ToSet(found)
           ss == {s \in DOMAIN found : kinds \subseteq found[s]}
<1>1. DOMAIN found = DOMAIN book /\ DOMAIN book = 1..Len(book) /\ Len(book) \in Nat
  BY DEF Detections
<1>2. Route(book) = RouteTo(kinds, found)
  BY DEF Route
<1>3. \A s \in DOMAIN book, k \in Modes :
        k \in found[s] => k \in Kinds(Headers(book[s]), DetectMapping(Headers(book[s])))
  BY DEF Detections, Modes
<1>4. \A k \in kinds : \E s \in DOMAIN found : k \in found[s]
  BY DEF ToSet
<1> HIDE DEF found
<1>5. Cardinality(kinds) = 1 /\ kinds \subseteq Modes
  <2> HIDE DEF kinds, ss
  <2>1. {"unknown", "employee", "ambiguous"} \cap Modes = {}
    BY DEF Modes
  <2> QED
    BY <1>2, <2>1 DEF RouteTo
<1>6. Route(book).kind = The(kinds) /\ Route(book).sheet = Min(ss)
  <2>1. RouteTo(kinds, found) = [kind |-> The(kinds), sheet |-> Min(ss)]
    BY <1>5 DEF RouteTo
  <2> HIDE DEF kinds, ss
  <2> QED
    BY <1>2, <2>1
<1>7. PICK k \in Modes : kinds = {k}
  <2> HIDE DEF kinds
  <2>1. IsFiniteSet(kinds)
    <3>1. Modes = {"serialized"} \cup {"quantity"}
      BY DEF Modes
    <3>2. IsFiniteSet({"serialized"})
      BY FS_Singleton
    <3>3. IsFiniteSet({"serialized"} \cup {"quantity"})
      BY ONLY <3>2, FS_AddElement
    <3> QED
      BY <1>5, <3>1, <3>3, FS_Subset
  <2>2. \E x : kinds = {x}
    BY <1>5, <2>1, FS_Singleton
  <2> QED
    BY <1>5, <2>2
<1>8. The(kinds) = k
  <2>1. kinds # {}
    BY <1>7
  <2> HIDE DEF kinds
  <2> QED
    BY <1>7, <2>1, TheIsIn
<1>9. PICK s \in DOMAIN found : k \in found[s]
  <2> HIDE DEF kinds
  <2> QED
    BY <1>4, <1>7
<1>10. ss # {} /\ ss \in SUBSET Nat
  <2>1. \A t \in DOMAIN found : kinds \subseteq found[t] <=> k \in found[t]
    <3> HIDE DEF kinds
    <3> QED
      BY <1>7
  <2> HIDE DEF kinds
  <2> QED
    BY <1>1, <1>9, <2>1
<1>11. Min(ss) \in ss
  <2> HIDE DEF ss
  <2> QED
    BY <1>10, MinIsIn
<1>12. Min(ss) \in DOMAIN book /\ k \in found[Min(ss)]
  <2>1. Min(ss) \in DOMAIN found /\ kinds \subseteq found[Min(ss)]
    BY <1>11
  <2> HIDE DEF ss, kinds
  <2> QED
    BY <1>1, <1>7, <2>1
<1> HIDE DEF ss, kinds
<1> QED
  BY <1>3, <1>6, <1>8, <1>12

\* Where a workbook is routed to, there is a row with something in it below the header.
RowsToStage ==
  \A book \in Files : Routes[book].kind \in Modes =>
    LET sheet == book[Routes[book].sheet]
    IN \A h \in HeaderRows(sheet) : 1 \in DOMAIN RowsBelow(sheet, h)

\* The file detector and the asset import agree on every workbook: what the detector
\* routes to an import has the columns that this import requires, on the sheet that it
\* names, whatever other sheets there are, unless that sheet has nothing below its header.
THEOREM RoutesAreReadable == RowsToStage => (AssetsSpec => []RoutedFilesParse)
<1> SUFFICES ASSUME RowsToStage
             PROVE  AssetsSpec => []RoutedFilesParse
  OBVIOUS
<1>1. ASSUME NEW book \in Files, Routes[book].kind \in Modes
      PROVE  Parsed[<<book, Routes[book].sheet, Routes[book].kind, NoMapping>>] # <<>>
  <2> DEFINE s == Route(book).sheet
             k == Route(book).kind
             sheet == book[s]
  <2>1. book \in Seq(Seq(Seq(STRING))) /\ NoMapping \in Chosen /\ DOMAIN book \subseteq Requested
    BY WorkbooksAreSheets
  <2>2. Routes[book] = Route(book) /\ k \in Modes
    BY <1>1 DEF Routes
  <2>3. s \in DOMAIN book /\ k \in Kinds(Headers(sheet), DetectMapping(Headers(sheet)))
    BY <2>1, <2>2, RoutesHaveEvidence
  <2> HIDE DEF s, k
  <2>4. sheet \in Seq(Seq(STRING)) /\ s \in Nat /\ s # 0 /\ s \in Requested
    BY <2>1, <2>3
  <2>5. \A h \in HeaderRows(sheet) : 1 \in DOMAIN RowsBelow(sheet, h)
    BY <1>1, <2>2 DEF RowsToStage, s
  <2>6. /\ HeaderScore(Headers(sheet)) \in Nat /\ HeaderScore(Headers(sheet)) > 0
        /\ ParseSheet(sheet, The(HeaderRows(sheet)), k, NoMapping) # <<>>
    BY <2>2, <2>3, <2>4, <2>5, EvidentSheets
  <2>7. SelectSheet(book, s) = {s}
    <3>1. {t \in DOMAIN book : s \in {0, t}} = {s}
      BY <2>3, <2>4
    <3>2. {<<HeaderScore(Headers(book[t])), t>> : t \in {t \in DOMAIN book : s \in {0, t}}}
            = {<<HeaderScore(Headers(sheet)), s>>}
      BY <3>1
    <3>3. Best({<<HeaderScore(Headers(sheet)), s>>}) = {s}
      BY <2>4, <2>6, OneIsBest
    <3> QED
      BY <3>2, <3>3 DEF SelectSheet
  <2>8. ParseBook(book, s, k, NoMapping) = ParseSheet(sheet, The(HeaderRows(sheet)), k, NoMapping)
    <3>1. {book[t] : t \in SelectSheet(book, s)} = {sheet}
      BY <2>7
    <3>2. {sheet} # {} /\ The({sheet}) = sheet
      <4> HIDE DEF sheet
      <4>1. {sheet} # {}
        OBVIOUS
      <4> QED
        BY <4>1, TheIsIn
    <3> HIDE DEF sheet
    <3>3. ParseSheets({sheet}, k, NoMapping)
            = ParseSheet(sheet, The(HeaderRows(sheet)), k, NoMapping)
      BY <3>2 DEF ParseSheets
    <3> QED
      BY <3>1, <3>3 DEF ParseBook
  <2> DEFINE in == <<book, s, k, NoMapping>>
  <2>9. in \in Inputs /\ in[1] = book /\ in[2] = s /\ in[3] = k /\ in[4] = NoMapping
    BY <2>1, <2>2, <2>4 DEF Inputs
  <2>10. Parsed[in] = ParseBook(book, s, k, NoMapping)
    <3> HIDE DEF in
    <3>1. Parsed[in] = ParseBook(in[1], in[2], in[3], in[4])
      BY <2>9 DEF Parsed
    <3> QED
      BY <2>9, <3>1
  <2> QED
    BY <2>2, <2>6, <2>8, <2>10 DEF s, k
<1>2. RoutedFilesParse
  BY <1>1 DEF RoutedFilesParse
<1> QED
  BY <1>2, PTL
=============================================================================
