----------------------------- MODULE AssetImport -----------------------------
(***************************************************************************)
(* The asset registry with its categories and bulk stock, and the imports  *)
(* that fill it.  A workbook is staged as a batch of rows, which is edited *)
(* and imported later.  Preview and direct import stage a batch too, import *)
(* it (direct import) and delete it, in transactions of their own: if one  *)
(* fails the batch stays, and while it is there it is one like any other.  *)
(* Meanwhile assets are registered, categories change and employees come   *)
(* and go.  Each transaction is one step.                                  *)
(***************************************************************************)
EXTENDS AssetSheet

CONSTANTS
  Files, Books,   \* workbooks, and those of them that are imported
  Requested,      \* sheets a user may ask for, 0 for none
  Chosen,         \* mappings of columns a user may choose
  Codes, Serials, Types, Keys,  \* values of the corresponding cells
  Names,          \* display names a user may type
  People,         \* employees, by row
  Canonical,      \* an asset tag -> the code it stands for
  MetaFiles,      \* sheets for the metadata re-import: sequences of tag, brand, serial
  IdOf, DigitsOf, \* the StaffID of an employee, and its digits
  AliasDigits,    \* StaffIDs of the old form -> their digits
  Nobody,
  MaxBatches, MaxCategories, MaxEdits  \* bounds

ASSUME AssetConstantsOK ==
  /\ Books \subseteq Files /\ Nobody \notin People
  /\ IdOf \in [People -> Keys] /\ DigitsOf \in [People -> Keys]
  /\ IsFiniteSet(Types) /\ Codes \cup Serials \cup Types \cup Keys \cup Names \subseteq STRING
  /\ MetaFiles \subseteq Seq([tag : STRING, brand : STRING, serial : Serials \cup {None}])
  /\ MaxBatches \in Nat /\ MaxCategories \in Nat /\ MaxEdits \in Nat

VARIABLES
  assets,      \* assets by code, with their category and holder; brand for the metadata
  categories,  \* asset_categories, by id
  stock,       \* stock_items, with the row each was made from
  batches,     \* asset_import_batches with their rows, by id; Gone once deleted
  staff,       \* employees
  meta,        \* the metadata re-import under way, and what it has read
  edits        \* edits of rows, categories and assets so far

assetVars == <<assets, categories, stock, batches, staff, meta, edits>>

Gone == [mode |-> "gone", rows |-> <<>>]
NoMeta == [pc |-> "idle", plan |-> <<>>]
Opt(S) == S \cup {None}

AssetsInit ==
  /\ assets = <<>> /\ categories = <<>> /\ stock = {} /\ batches = <<>>
  /\ staff \in SUBSET People /\ meta = NoMeta /\ edits = 0

Added(reg, new) ==
  [c \in DOMAIN reg \cup DOMAIN new |-> IF c \in DOMAIN reg THEN reg[c] ELSE new[c]]
WithSerial(reg, s) == {c \in DOMAIN reg : s # None /\ reg[c].serial = s}

-----------------------------------------------------------------------------
(* Owners *)

\* An employee is found under his StaffID and under its digits; where the two
\* are the same he is found twice.
Hits(key) == {h \in staff \X {"id", "digits"} :
                IF h[2] = "id" THEN IdOf[h[1]] = key ELSE DigitsOf[h[1]] = key}

Candidate(key) ==
  IF Hits(key) # {} \/ key \notin DOMAIN AliasDigits THEN Hits(key) ELSE Hits(AliasDigits[key])

\* resolve_owner_state
Owner(row) == IF Cardinality(Candidate(row.owner)) = 1 THEN The(Candidate(row.owner))[1] ELSE Nobody
OwnerBlocks(row) == row.owner # None /\ Owner(row) = Nobody

-----------------------------------------------------------------------------
(* Validation of a batch *)

Open(row) == row.status \notin {"imported", "skipped"}
Twice(rows, f, v) == \E i, j \in DOMAIN rows :
  i # j /\ Open(rows[i]) /\ Open(rows[j]) /\ rows[i][f] = v /\ rows[j][f] = v

\* Mutant: serial numbers are compared with the registry only.
ClassifyByCode(reg, rows, row) ==
  LET own == row.code \in DOMAIN reg
      same == WithSerial(reg, row.serial)
  IN IF row.code = None THEN "new"
     ELSE IF own THEN IF \/ same # {} /\ The(same) = row.code
                         \/ same = {} /\ None \in {row.serial, reg[row.code].serial}
                      THEN "existing" ELSE "conflict"
     ELSE IF same # {} \/ Twice(rows, "code", row.code) THEN "conflict" ELSE "new"

\* classify_serialized_asset_row; of assets with one serial number by_serial keeps
\* the one read last, which the query does not order: some one of them.
Classify(reg, rows, row) ==
  LET own == row.code \in DOMAIN reg
      same == WithSerial(reg, row.serial)
  IN IF row.code = None THEN "new"
     ELSE IF own THEN IF \/ same # {} /\ The(same) = row.code
                         \/ same = {} /\ None \in {row.serial, reg[row.code].serial}
                      THEN "existing" ELSE "conflict"
     ELSE IF \/ same # {} \/ Twice(rows, "code", row.code)
             \/ row.serial # None /\ Twice(rows, "serial", row.serial)
          THEN "conflict" ELSE "new"

\* validate_staged_row
Complete(mode, row) ==
  /\ row.type # None /\ row.name # None
  /\ IF mode = "serialized" THEN row.code # None ELSE row.qty \in Numbers

Verdict(reg, mode, rows, row) ==
  LET class == IF mode = "serialized" THEN Classify(reg, rows, row) ELSE "new" IN
  IF row.status = "imported" THEN "imported"
  ELSE IF class = "existing" \/ row.status = "skipped" THEN "skipped"
  ELSE IF class = "conflict" \/ ~Complete(mode, row) \/ OwnerBlocks(row) THEN "error"
  ELSE "valid"

\* revalidate_batch_tx: imported rows are left alone.
Revalidated(reg, mode, rows) ==
  [i \in DOMAIN rows |->
     [rows[i] EXCEPT !.status = Verdict(reg, mode, rows, rows[i]),
                     !.resolved = IF rows[i].status = "imported" THEN @ ELSE Owner(rows[i])]]

-----------------------------------------------------------------------------
(* Staging *)

Fresh(row) == [code |-> row.code, type |-> row.type, name |-> row.name, serial |-> row.serial,
               qty |-> row.qty, owner |-> row.owner, status |-> "valid", resolved |-> Nobody]

Inputs == Files \X Requested \X Modes \X Chosen
Parsed == [in \in Inputs |-> ParseBook(in[1], in[2], in[3], in[4])]
Routes == [book \in Files |-> Route(book)]

\* A workbook is a sequence of sheets, any of which a user may ask for, with or
\* without choosing columns.
ASSUME WorkbooksAreSheets ==
  /\ Files \subseteq Seq(Seq(Seq(STRING))) /\ NoMapping \in Chosen
  /\ \A book \in Files : DOMAIN book \subseteq Requested

\* The cells of the workbooks are among the values named above.
ASSUME CellsOK ==
  \A in \in Inputs : Parsed[in] \in
    [DOMAIN Parsed[in] -> [code : Opt(Codes), type : Opt(Types), name : STRING,
                           serial : Opt(Serials), qty : STRING, owner : Opt(Keys)]]

\* create_asset_import_batch_seed_conn
Stage(in) ==
  /\ Len(batches) < MaxBatches /\ Parsed[in] # <<>>
  /\ batches' = Append(batches,
       [mode |-> in[3],
        rows |-> Revalidated(assets, in[3], [i \in DOMAIN Parsed[in] |-> Fresh(Parsed[in][i])])])
  /\ UNCHANGED <<assets, categories, stock, staff, meta, edits>>

Edited == edits < MaxEdits /\ edits' = edits + 1
Rewrite(b, rows) == batches' = [batches EXCEPT ![b].rows = Revalidated(assets, batches[b].mode, rows)]

Editable(row) == row.status # "imported"

\* update_asset_import_row
EditRow(b, i, f, v) ==
  /\ Edited /\ i \in DOMAIN batches[b].rows /\ Editable(batches[b].rows[i])
  /\ v # batches[b].rows[i][f]
  /\ Rewrite(b, [batches[b].rows EXCEPT ![i][f] = v])
  /\ UNCHANGED <<assets, categories, stock, staff, meta>>

\* set_asset_import_row_skipped
SkipRow(b, i, skip) ==
  /\ i \in DOMAIN batches[b].rows /\ Editable(batches[b].rows[i])
  /\ skip # (batches[b].rows[i].status = "skipped")
  /\ Rewrite(b, [batches[b].rows EXCEPT ![i].status = IF skip THEN "skipped" ELSE "error"])
  /\ UNCHANGED <<assets, categories, stock, staff, meta, edits>>

\* delete_asset_import_batch, and the cleanup of preview and direct import.
DeleteBatch(b) ==
  /\ batches[b] # Gone
  /\ batches' = [batches EXCEPT ![b] = Gone]
  /\ UNCHANGED <<assets, categories, stock, staff, meta, edits>>

-----------------------------------------------------------------------------
(* Import *)

Active(cats, t) == {c \in DOMAIN cats : cats[c].active /\ cats[c].name = t}

\* ensure_category_exists_or_create_tx, for every type of the rows to import.
WithCategories(types, mode) ==
  LET new == SetToSeq({t \in types : Active(categories, t) = {}})
  IN categories \o [i \in DOMAIN new |-> [name |-> new[i], mode |-> mode, active |-> TRUE]]

\* Mutant: the rows are imported as they were validated before.
ImportedUnchecked(mode, rows) == rows

ImportedRows(mode, rows) == Revalidated(assets, mode, rows)

\* Mutant: rows that became stock are not marked.
MarkSerialized(rows, is) ==
  [i \in DOMAIN rows |-> IF i \in is /\ rows[i].qty = None
                         THEN [rows[i] EXCEPT !.status = "imported"] ELSE rows[i]]

MarkImported(rows, is) ==
  [i \in DOMAIN rows |-> IF i \in is THEN [rows[i] EXCEPT !.status = "imported"] ELSE rows[i]]

\* create_asset_tx, with create_owner_aware_import_loan_tx for an owned row.
AssetFrom(row, cat) == [serial |-> row.serial, cat |-> cat, brand |-> None,
                        holder |-> IF row.owner = None THEN Nobody ELSE row.resolved,
                        imported |-> TRUE]

NewStock(b, i, row, cat) ==
  [from |-> <<b, i>>, cat |-> cat, onHand |-> row.qty,
   copy |-> Cardinality({s \in stock : s.from = <<b, i>>})]

\* import_asset_import_batch_valid_rows: all the valid rows, or none if one of
\* their categories is of the other kind or an owner is not there.
Import(b) ==
  LET mode  == batches[b].mode
      rows  == ImportedRows(mode, batches[b].rows)
      is    == {i \in DOMAIN rows : rows[i].status = "valid"}
      cats  == WithCategories({rows[i].type : i \in is}, mode)
      codes == {rows[i].code : i \in is}
      of(c) == rows[The({i \in is : rows[i].code = c})]
      made(pick) == IF mode = "quantity" THEN <<>>
                    ELSE [c \in codes |-> AssetFrom(of(c), pick[of(c).type])]
  IN \E pick \in [{rows[i].type : i \in is} -> DOMAIN cats] :
     /\ \A t \in DOMAIN pick : pick[t] \in Active(cats, t) /\ cats[pick[t]].mode = mode
     /\ Len(cats) <= MaxCategories /\ categories' = cats
     /\ mode = "serialized" =>
          /\ codes \cap DOMAIN assets = {} /\ Cardinality(codes) = Cardinality(is)
          /\ \A i \in is : rows[i].owner # None => rows[i].resolved \in staff
     /\ assets' = Added(assets, made(pick))
     /\ stock' = IF mode = "serialized" THEN stock
                 ELSE stock \cup {NewStock(b, i, rows[i], pick[rows[i].type]) : i \in is}
     /\ batches' = [batches EXCEPT
          ![b].rows = Revalidated(Added(assets, made(pick)), mode, MarkImported(rows, is))]

ImportBatch(b) ==
  /\ batches[b].mode \in Modes
  /\ Import(b)
  /\ UNCHANGED <<staff, meta, edits>>

-----------------------------------------------------------------------------
(* The registry *)

\* create_asset_manually, and upsert_assets, which writes over the asset of the
\* code; neither looks at the serial number or the kind of the category.
Register(c, s, cat) ==
  /\ Edited /\ cat \in DOMAIN categories \cup {0}
  /\ assets' = [d \in DOMAIN assets \cup {c} |->
       IF d # c THEN assets[d]
       ELSE [serial |-> s, cat |-> cat, brand |-> None, imported |-> FALSE,
             holder |-> IF c \in DOMAIN assets THEN assets[c].holder ELSE Nobody]]
  /\ UNCHANGED <<categories, stock, batches, staff, meta>>

Unused(cat) == /\ \A c \in DOMAIN assets : assets[c].cat # cat
               /\ \A s \in stock : s.cat # cat

\* upsert_asset_category: the kind of a category in use stays; saving activates.
SaveCategory(cat, t, mode) ==
  /\ Edited
  /\ categories[cat].mode # mode => Unused(cat)
  /\ categories' = [categories EXCEPT ![cat] = [name |-> t, mode |-> mode, active |-> TRUE]]
  /\ UNCHANGED <<assets, stock, batches, staff, meta>>

AddCategory(t, mode) ==
  /\ Len(categories) < MaxCategories
  /\ categories' = Append(categories, [name |-> t, mode |-> mode, active |-> TRUE])
  /\ UNCHANGED <<assets, stock, batches, staff, meta, edits>>

DeactivateCategory(cat) ==
  /\ categories' = [categories EXCEPT ![cat].active = FALSE]
  /\ UNCHANGED <<assets, stock, batches, staff, meta, edits>>

\* update_stock_item_quantity writes what the screen showed.
UpdateStock(s, n) ==
  /\ Edited /\ n # s.onHand
  /\ stock' = (stock \ {s}) \cup {[s EXCEPT !.onHand = n]}
  /\ UNCHANGED <<assets, categories, batches, staff, meta>>

Hire(p) ==
  /\ p \notin staff /\ staff' = staff \cup {p}
  /\ UNCHANGED <<assets, categories, stock, batches, meta, edits>>

NotHolder(p) == \A c \in DOMAIN assets : assets[c].holder # p

Freed(row, p) == IF row.resolved = p THEN [row EXCEPT !.resolved = Nobody] ELSE row

\* Refused while a loan names him; a staged row that was resolved to him is not
\* resolved any more, but keeps its status.
Leave(p) ==
  /\ Edited /\ p \in staff /\ NotHolder(p)
  /\ staff' = staff \ {p}
  /\ batches' = [b \in DOMAIN batches |-> [mode |-> batches[b].mode,
       rows |-> [i \in DOMAIN batches[b].rows |-> Freed(batches[b].rows[i], p)]]]
  /\ UNCHANGED <<assets, categories, stock, meta>>

-----------------------------------------------------------------------------
(* Metadata re-import *)

Keep(new, old) == IF new = None THEN old ELSE new

\* A blank cell keeps what the asset has now.
Written(row) ==
  LET c == Canonical[row.tag] IN
  [code |-> c, brand |-> Keep(row.brand, assets[c].brand), serial |-> Keep(row.serial, assets[c].serial)]

Changes(p) == p.brand # assets[p.code].brand \/ p.serial # assets[p.code].serial

\* What preview_asset_metadata_reimport makes of the rows of known assets that
\* change something, by row number.
Plan(file) ==
  [i \in {i \in DOMAIN file : Canonical[file[i].tag] \in DOMAIN assets /\ Changes(Written(file[i]))}
     |-> Written(file[i])]

\* The preview is made before the transaction begins.
MetaRead(file) ==
  /\ Edited /\ meta.pc = "idle"
  /\ meta' = [pc |-> "apply", plan |-> Plan(file)]
  /\ UNCHANGED <<assets, categories, stock, batches, staff>>

RowsOf(plan, c) == {i \in DOMAIN plan : plan[i].code = c}

\* Of several rows for one asset the last one stays.
MetaApply ==
  /\ meta.pc = "apply" /\ meta' = NoMeta
  /\ assets' = [c \in DOMAIN assets |->
       IF RowsOf(meta.plan, c) = {} THEN assets[c]
       ELSE LET p == meta.plan[Max(RowsOf(meta.plan, c))]
            IN [assets[c] EXCEPT !.brand = p.brand, !.serial = p.serial]]
  /\ UNCHANGED <<categories, stock, batches, staff, edits>>

-----------------------------------------------------------------------------
RowNext(b) ==
  \/ \E i \in 1..2 : \/ \E c \in Opt(Codes) : EditRow(b, i, "code", c)
                     \/ \E s \in Opt(Serials) : EditRow(b, i, "serial", s)
                     \/ \E k \in Opt(Keys) : EditRow(b, i, "owner", k)
                     \/ \E t \in Opt(Types) : EditRow(b, i, "type", t)
                     \/ \E n \in Opt(Names) : EditRow(b, i, "name", n)
                     \/ \E n \in Opt({"0"} \cup Numbers) : EditRow(b, i, "qty", n)
                     \/ \E skip \in BOOLEAN : SkipRow(b, i, skip)

BatchNext(b) == RowNext(b) \/ ImportBatch(b) \/ DeleteBatch(b)

RegistryNext ==
  \/ \E c \in Codes, s \in Opt(Serials), cat \in 0..MaxCategories : Register(c, s, cat)
  \/ \E t \in Types, mode \in Modes : AddCategory(t, mode)
  \/ \E cat \in DOMAIN categories :
       DeactivateCategory(cat) \/ \E t \in Types, mode \in Modes : SaveCategory(cat, t, mode)
  \/ \E s \in stock, n \in {"0"} \cup Numbers : UpdateStock(s, n)
  \/ \E p \in People : Hire(p) \/ Leave(p)
  \/ \E file \in MetaFiles : MetaRead(file)
  \/ MetaApply

AssetsNext == (\E in \in Inputs : in[1] \in Books /\ Stage(in)) \/ (\E b \in DOMAIN batches : BatchNext(b)) \/ RegistryNext

AssetsSpec == AssetsInit /\ [][AssetsNext]_assetVars

-----------------------------------------------------------------------------
(* Properties *)

Status == {"valid", "error", "skipped", "imported"}

AssetTypeOK ==
  /\ \A c \in DOMAIN assets : /\ c \in Codes /\ assets[c].serial \in Opt(Serials)
                             /\ assets[c].cat \in DOMAIN categories \cup {0}
                             /\ assets[c].holder \in staff \cup {Nobody}
  /\ \A c \in DOMAIN categories : categories[c].name \in Types /\ categories[c].mode \in Modes
  /\ \A b \in DOMAIN batches, i \in 1..2 : i \in DOMAIN batches[b].rows =>
       batches[b].rows[i].status \in Status /\ batches[b].rows[i].resolved \in staff \cup {Nobody}

ReadOnly(b, i) == (i \in DOMAIN batches[b].rows /\ batches[b].rows[i].status = "imported") =>
  batches'[b] = Gone \/ [batches'[b].rows[i] EXCEPT !.resolved = Nobody]
                       = [batches[b].rows[i] EXCEPT !.resolved = Nobody]

\* An imported asset is the only one with its serial number when it is made,
\* whatever rows were edited, skipped or imported before and whichever assets were
\* registered since the batch was staged; and the row it came from keeps naming it.
ImportsIdentify == [][
  /\ \A c \in DOMAIN assets' \ DOMAIN assets : assets'[c].imported =>
       WithSerial(assets', assets'[c].serial) \subseteq {c}
  /\ \A b \in DOMAIN batches, i \in 1..2 : ReadOnly(b, i)]_assetVars

Imports(b, i) == /\ b \in DOMAIN batches /\ i \in DOMAIN batches'[b].rows
                 /\ batches'[b].rows[i].status = "imported"
                 /\ batches[b].rows[i].status # "imported"

\* An asset that is imported with an owner goes to the one employee his StaffID
\* stands for at that time, although he was looked up when the row was staged.
OwnersAreCurrent == [][
  \A b \in DOMAIN batches', i \in 1..2 : Imports(b, i) =>
    LET row == batches'[b].rows[i] IN
    batches[b].mode = "serialized" /\ row.owner # None =>
      assets'[row.code].holder = Owner(row) /\ Owner(row) \in staff]_assetVars

\* A staged row becomes stock once: importing its batch again, after an edit, a
\* skip or a direct import that left it behind, adds nothing. And stock stays with
\* categories that count, imported assets with categories that list, however
\* categories are renamed, changed, deactivated and made again.
StockedOnce ==
  /\ \A s \in stock : s.copy = 0 /\ categories[s.cat].mode = "quantity"
  /\ \A c \in DOMAIN assets : assets[c].imported => categories[assets[c].cat].mode = "serialized"

\* A workbook that the detector sends to an asset import can be imported there:
\* the detector and the import read headers by the same rules.
RoutedFilesParse == batches = <<>> =>
  \A book \in Files : Routes[book].kind \in Modes =>
    Parsed[<<book, Routes[book].sheet, Routes[book].kind, NoMapping>>] # <<>>
=============================================================================
