--------------------------- MODULE StaffDirectory ---------------------------
(***************************************************************************)
(* The employee directory and what writes to it: the forms, the moves      *)
(* between staff groups, the Excel import, and the synchronisation with    *)
(* the company's SQL server, whose preview and application each fetch the   *)
(* source over the network before they read the directory.  The inventory  *)
(* is seeded from it: assets are made for the machines the directory names, *)
(* from a snapshot that was reviewed before.                               *)
(* Texts arrive trimmed and in their normal form.                          *)
(***************************************************************************)
EXTENDS Naturals, Sequences, FiniteSets, Functions, SequencesExt

CONSTANTS
  Codes,       \* staff codes
  Machines,    \* machine names
  Directories, \* what the directory may hold at first
  Sources,     \* tables of the SQL server: sequences of code, name, email, azure
  Workbooks,   \* Excel files to import
  Forms,       \* what the employee form may hold
  AssetOf,     \* a machine name -> the asset code it stands for
  Stem,        \* a machine name without the prefix "ASW"
  Accounts,    \* administrators
  Jobs,        \* synchronisation requests under way
  None,
  MaxPreviews,          \* 4 in the code
  MaxMade, MaxEdits, MaxSnapshots  \* bounds

Opt(S) == S \cup {None}
Text == Opt(STRING)
Machine == Opt(Machines \cup {""})
Groups == {"employee_list", "onboarding", "offboarding", "internal_movement"}

\* The query takes one row of each staff code.
ASSUME SourcesOK ==
  /\ Sources \subseteq Seq([code : Codes, name : Text, email : Text, azure : Text])
  /\ \A rows \in Sources : \A i, k \in DOMAIN rows : rows[i].code = rows[k].code => i = k
  /\ None \notin Codes \cup Machines /\ MaxPreviews \in Nat

ASSUME StemsOK == Machines \subseteq DOMAIN Stem

ASSUME FormsOK ==
  Forms \subseteq [name : Text, email : Text, pc1 : Machine, pc2 : Machine, ends : Text]

ASSUME WorkbooksOK == \A book \in Workbooks :
  /\ book \in [sheets : Seq([group : Groups,
                             rows : Seq([code : Opt(Codes), name : Text, email : Text,
                                         pc1 : Machine, pc2 : Machine])]),
               columns : SUBSET STRING, forced : Opt(Groups), asked : Nat]
  /\ book.asked <= Len(book.sheets)

VARIABLES
  staff,     \* employees, by staff code
  lent,      \* the laptop an employee holds, and everybody who ever held one
  source,    \* the table on the SQL server
  previews,  \* previews that can be applied, oldest first, and how many were made
  jobs,      \* what each request has fetched
  assets,    \* codes of the assets
  kinds,     \* how the category of an asset's prefix tracks: None without a category
  snapshots, \* reviewed seeds
  edits      \* edits so far

directoryVars == <<staff, lent, source, previews, jobs, assets, kinds, snapshots, edits>>

Idle == [pc |-> "idle", source |-> <<>>, id |-> 0]

DirectoryInit ==
  /\ staff \in Directories /\ lent = [now |-> [c \in Codes |-> None], ever |-> {}]
  /\ source \in Sources /\ previews = [made |-> 0, kept |-> <<>>] /\ jobs = [j \in Jobs |-> Idle]
  /\ assets = {} /\ kinds = [a \in Range(AssetOf) |-> "serialized"]
  /\ snapshots = <<>> /\ edits = 0

Or(new, old) == IF new = None THEN old ELSE new

\* employees.employee_id is the key, employees.email is UNIQUE.
Taken(dir, c, email) ==
  email # None /\ \E d \in DOMAIN dir \ {c} : dir[d].email = email
Unique(dir) == \A c \in DOMAIN dir : ~Taken(dir, c, dir[c].email)
Put(dir, c, e) == [d \in DOMAIN dir \cup {c} |-> IF d = c THEN e ELSE dir[d]]

Employee == [name : Text, email : Text, azure : Text, pc1 : Machine \cup Codes, pc2 : Machine \cup Codes,
             group : Groups, floating : BOOLEAN, ends : Text,
             life : Text \cup {"offer_rejected", "resigned", "transferring", "pending", "rehired",
                              "active"}]

ASSUME DirectoriesOK == \A dir \in Directories :
  DOMAIN dir \subseteq Codes /\ dir \in [DOMAIN dir -> Employee] /\ Unique(dir)

Edited == edits < MaxEdits /\ edits' = edits + 1
KeepRest == UNCHANGED <<source, previews, jobs, assets, kinds, snapshots>>

-----------------------------------------------------------------------------
(* Forms and groups *)

\* What stays of an employee when a form or a row is written over him.
Old(dir, c) ==
  IF c \in DOMAIN dir THEN dir[c]
  ELSE [name |-> None, email |-> None, azure |-> None, pc1 |-> None, pc2 |-> None,
        group |-> "employee_list", floating |-> FALSE, life |-> None, ends |-> None]

\* upsert_employee_from_payload; create_employee overwrites an employee who is
\* there already. A form without a second machine leaves it as it is.
Written(dir, c, form, group) ==
  [Old(dir, c) EXCEPT !.name = form.name, !.email = form.email, !.ends = form.ends,
     !.pc1 = form.pc1, !.pc2 = Or(form.pc2, Old(dir, c).pc2), !.group = group]

CreateEmployee(c, form, group) ==
  /\ Edited /\ ~Taken(staff, c, form.email)
  /\ staff' = Put(staff, c, Written(staff, c, form, group))
  /\ KeepRest /\ UNCHANGED lent

\* update_employee_tx: the group stays unless another one is asked for.
UpdateEmployee(c, form, group) ==
  /\ Edited /\ c \in DOMAIN staff /\ ~Taken(staff, c, form.email)
  /\ staff' = Put(staff, c, Written(staff, c, form, Or(group, staff[c].group)))
  /\ KeepRest /\ UNCHANGED lent

To(e, group, life) == [e EXCEPT !.group = group, !.floating = FALSE, !.life = life]

\* move_employees_group, for one employee.
Moved(e, to) ==
  CASE to = "floating"          -> [e EXCEPT !.group = "employee_list", !.floating = TRUE]
    [] to = "clear_floating"    -> [e EXCEPT !.floating = FALSE]
    [] to = "reject_offer"      -> IF e.group = "onboarding" THEN [e EXCEPT !.life = "offer_rejected"]
                                   ELSE e
    [] to = "offboarding"       -> To(e, to, "resigned")
    [] to = "internal_movement" -> To(e, to, "transferring")
    [] to = "onboarding"        -> To(e, to, "pending")
    [] to = "employee_list"     -> IF e.group = "offboarding"
                                   THEN [To(e, to, "rehired") EXCEPT !.ends = None]
                                   ELSE To(e, to, "active")

MoveGroup(cs, to) ==
  /\ Edited /\ staff' = [c \in DOMAIN staff |-> IF c \in cs THEN Moved(staff[c], to) ELSE staff[c]]
  /\ KeepRest /\ UNCHANGED lent

\* delete_employee refuses whoever has a loan on record.
DeleteEmployee(c) ==
  /\ Edited /\ c \in DOMAIN staff /\ c \notin lent.ever
  /\ staff' = Restrict(staff, DOMAIN staff \ {c})
  /\ KeepRest /\ UNCHANGED lent

Lend(c, m) ==
  /\ Edited /\ c \in DOMAIN staff /\ lent.now[c] = None
  /\ lent' = [now |-> [lent.now EXCEPT ![c] = m], ever |-> lent.ever \cup {c}]
  /\ KeepRest /\ UNCHANGED staff

TakeBack(c) ==
  /\ lent.now[c] # None /\ lent' = [lent EXCEPT !.now[c] = None]
  /\ KeepRest /\ UNCHANGED <<staff, edits>>

-----------------------------------------------------------------------------
(* Excel import *)

\* map_employee_row: the stored machine, or the borrowed laptop; a machine that was
\* cleared ("") hides the laptop.
Shown(dir, c) == IF c \notin DOMAIN dir \/ dir[c].pc1 = "" THEN None
                 ELSE Or(dir[c].pc1, lent.now[c])

SameMachine(a, b) == a = b \/ ({a, b} \subseteq Machines /\ Stem[a] = Stem[b])

\* hydrate_dynamic_fields: the borrowed laptop where it is not the first machine.
Second(dir, c) == IF c \notin DOMAIN dir THEN None
                  ELSE IF dir[c].pc2 # None THEN dir[c].pc2
                  ELSE IF dir[c].pc1 = "" \/ SameMachine(lent.now[c], Shown(dir, c)) THEN None
                  ELSE lent.now[c]

\* normalize_computer_name_slots
Slots(a, b) ==
  IF a \in {None, ""} THEN <<IF b = "" THEN None ELSE b, None>>
  ELSE <<a, IF b \in {a, ""} THEN None ELSE b>>

\* The machines of an employee after a row: a second one goes to the free slot.
Merged(old1, old2, in) ==
  IF None \notin {old1, in[1]} /\ old1 # in[1] /\ old2 = None /\ in[2] = None
  THEN <<old1, in[1]>> ELSE <<Or(in[1], old1), Or(in[2], old2)>>

\* An unknown staff code of an employee found by email is taken for a machine.
WithDevice(slots, device) ==
  IF device = None \/ device \in ToSet(slots) THEN slots
  ELSE IF slots[1] # None /\ slots[2] = None THEN <<slots[1], device>>
  ELSE <<device, slots[2]>>

\* The sheets that are read: the one asked for, or all; a sheet that names no
\* employees has no rows.
UsedSheets(book) == IF book.asked = 0 THEN book.sheets ELSE <<book.sheets[book.asked]>>

\* Whom a row is about: by his code, else by his email.
ByEmail(dir, row) == {c \in DOMAIN dir : row.email # None /\ dir[c].email = row.email}
\* Mutant: the email is not looked at.
MatchByCode(dir, row) == {row.code} \cap DOMAIN dir

Match(dir, row) == IF row.code \in DOMAIN dir THEN {row.code} ELSE ByEmail(dir, row)

\* The cell of a column, if the column was selected.
Cell(book, row, f) == IF f \in book.columns THEN row[f] ELSE None

\* The group of a row: the one asked for, else the employee's, else that of the sheet.
GroupFor(book, sheet, dir, c) ==
  Or(book.forced, IF c \in DOMAIN dir THEN dir[c].group ELSE sheet.group)

\* One row of import_excel; a row that cannot be used or written is left out.
ImportRow(book, sheet, dir, row) ==
  LET who  == Match(dir, row)
      c    == IF who = {} THEN row.code ELSE CHOOSE d \in who : TRUE
      device == IF who = {} \/ c = row.code THEN None ELSE row.code
      name == Or(Cell(book, row, "name"), Old(dir, c).name)
      mail == Or(Cell(book, row, "email"), Old(dir, c).email)
      in   == Slots(Cell(book, row, "pc1"), Cell(book, row, "pc2"))
      pair == WithDevice(Merged(Shown(dir, c), Second(dir, c), in), device)
      pcs  == Slots(pair[1], pair[2])
      form == [name |-> name, email |-> mail, ends |-> Old(dir, c).ends,
               pc1 |-> pcs[1], pc2 |-> Or(pcs[2], Second(dir, c))]
  IN IF None \in {c, name} \/ Taken(dir, c, mail) THEN dir
     ELSE Put(dir, c, Written(dir, c, form, GroupFor(book, sheet, dir, c)))

\* The rows one after the other: what the directory is after each of them.
ImportSheet(book, sheet, dir) ==
  LET after[n \in 0..Len(sheet.rows)] ==
        IF n = 0 THEN dir ELSE ImportRow(book, sheet, after[n - 1], sheet.rows[n])
  IN after[Len(sheet.rows)]

ImportSheets(book, sheets, dir) ==
  LET after[n \in 0..Len(sheets)] ==
        IF n = 0 THEN dir ELSE ImportSheet(book, sheets[n], after[n - 1])
  IN after[Len(sheets)]

\* One transaction; refused when no sheet can be read.
ImportExcel(book) ==
  /\ Edited /\ \E sheet \in ToSet(UsedSheets(book)) : sheet.rows # <<>>
  /\ staff' = ImportSheets(book, UsedSheets(book), staff)
  /\ KeepRest /\ UNCHANGED lent

-----------------------------------------------------------------------------
(* Synchronisation *)

Synced(e) == [name |-> e.name, email |-> e.email, azure |-> e.azure]
Row(r) == [name |-> r.name, email |-> r.email, azure |-> r.azure]

\* read_employee_list_snapshot
Local(dir) == {<<c, Synced(dir[c])>> : c \in {d \in DOMAIN dir : dir[d].group = "employee_list"}}
Others(dir) == {c \in DOMAIN dir : dir[c].group # "employee_list"}

\* compare_employee_list
Conflicts(rows, dir) == {r \in ToSet(rows) : r.code \in Others(dir)}
Differs(rows, dir) == {r \in ToSet(rows) : <<r.code, Row(r)>> \notin Local(dir)}

SourceChanges(rows) ==
  /\ Edited /\ rows # source /\ source' = rows
  /\ UNCHANGED <<staff, lent, previews, jobs, assets, kinds, snapshots>>

\* The network part of preview_ and apply_employee_list_sync.
Fetch(j, pc, id) ==
  /\ jobs[j] = Idle
  /\ jobs' = [jobs EXCEPT ![j] = [pc |-> pc, source |-> source, id |-> id]]
  /\ UNCHANGED <<staff, lent, source, previews, assets, kinds, snapshots, edits>>

\* The oldest previews go.
Trimmed(all) == IF Len(all) > MaxPreviews THEN Tail(all) ELSE all

\* The rest of preview_employee_list_sync; ids increase.
StorePreview(j) ==
  /\ jobs[j].pc = "preview" /\ previews.made < MaxMade
  /\ LET id  == previews.made + 1
         all == Append(previews.kept, [id |-> id, source |-> jobs[j].source,
                                       local |-> Local(staff), others |-> Others(staff)])
     IN previews' = [made |-> id, kept |-> Trimmed(all)]
  /\ jobs' = [jobs EXCEPT ![j] = Idle]
  /\ UNCHANGED <<staff, lent, source, assets, kinds, snapshots, edits>>

\* upsert_sync_azure_ad. Mutant: an account that is gone stays.
AzureOverOld(old, r) == Or(r.azure, old.azure)
AzureOf(old, r) == r.azure

\* insert_ and update_employee_list_record; an email that is taken fails the transaction.
SyncRow(acc, r) ==
  IF ~acc.ok \/ Taken(acc.dir, r.code, r.email) THEN [ok |-> FALSE, dir |-> acc.dir]
  ELSE LET old == Old(acc.dir, r.code)
           new == [old EXCEPT !.name = r.name, !.email = r.email, !.azure = AzureOf(old, r)]
       IN [ok |-> TRUE, dir |-> Put(acc.dir, r.code, new)]

\* apply_employee_list_diff_tx: the rows that differ, one after the other.
SyncRows(rows, dir) ==
  LET after[n \in 0..Len(rows)] ==
        IF n = 0 THEN [ok |-> TRUE, dir |-> dir]
        ELSE IF rows[n] \in Differs(rows, dir) THEN SyncRow(after[n - 1], rows[n])
        ELSE after[n - 1]
  IN after[Len(rows)]

\* apply_employee_list_sync, once the source is here: the preview is copied and its
\* source compared; others may change, apply or drop it before the transaction.
Writing(p) == [pc |-> "write", source |-> p.source, id |-> p.id, shown |-> p]

TakePreview(j) ==
  /\ jobs[j].pc = "apply"
  /\ \E p \in ToSet(previews.kept) :
       /\ p.id = jobs[j].id /\ p.source = jobs[j].source
       /\ jobs' = [jobs EXCEPT ![j] = Writing(p)]
  /\ UNCHANGED <<staff, lent, source, previews, assets, kinds, snapshots, edits>>

\* Mutant: the directory is not compared again.
NeverChanged(p) == TRUE

NotChangedSince(p) == p.local = Local(staff) /\ p.others = Others(staff)

Without(kept, id) ==
  IF \E i \in DOMAIN kept : kept[i].id = id
  THEN RemoveAt(kept, CHOOSE i \in DOMAIN kept : kept[i].id = id) ELSE kept

\* The transaction, after which the preview is dropped; every other outcome changes
\* nothing.
ApplySync(j) ==
  /\ jobs[j].pc = "write"
  /\ LET rows == jobs[j].source
         acc == SyncRows(rows, staff)
     IN /\ NotChangedSince(jobs[j].shown)
        /\ Conflicts(rows, staff) = {} /\ Differs(rows, staff) # {}
        /\ acc.ok /\ staff' = acc.dir
  /\ previews' = [previews EXCEPT !.kept = Without(previews.kept, jobs[j].id)]
  /\ jobs' = [jobs EXCEPT ![j] = Idle]
  /\ UNCHANGED <<lent, source, assets, kinds, snapshots, edits>>

\* An expired preview, a refusal, or a safety snapshot that cannot be made.
GiveUp(j) ==
  /\ jobs[j] # Idle /\ jobs' = [jobs EXCEPT ![j] = Idle]
  /\ UNCHANGED <<staff, lent, source, previews, assets, kinds, snapshots, edits>>

\* A new approved SQL login drops the previews.
ChangeLogin ==
  /\ previews.kept # <<>> /\ previews' = [previews EXCEPT !.kept = <<>>]
  /\ UNCHANGED <<staff, lent, source, jobs, assets, kinds, snapshots, edits>>

-----------------------------------------------------------------------------
(* Assets from the directory *)

\* The machines stored for the employee list.
Named(dir) == {c \in DOMAIN dir : dir[c].group = "employee_list" /\ dir[c].pc1 \in DOMAIN AssetOf}

Shared(dir, c) == \E d \in Named(dir) \ {c} : AssetOf[dir[d].pc1] = AssetOf[dir[c].pc1]

\* build_candidate_rows: the rows that can be made.
ValidRows(dir) ==
  {<<c, AssetOf[dir[c].pc1]>> : c \in {d \in Named(dir) :
      /\ ~Shared(dir, d)
      /\ kinds[AssetOf[dir[d].pc1]] = "serialized"
      /\ AssetOf[dir[d].pc1] \notin assets}}

\* preview_employee_asset_seed stores the rows with the account.
PreviewSeed(a) ==
  /\ Edited /\ Len(snapshots) < MaxSnapshots
  /\ snapshots' = Append(snapshots, [by |-> a, rows |-> ValidRows(staff)])
  /\ UNCHANGED <<staff, lent, source, previews, jobs, assets, kinds>>

\* import_employee_asset_seed: what was reviewed, whatever the directory holds now;
\* a category may count by now, but it must be there.
ImportSeed(a, i) ==
  /\ snapshots[i].by = a
  /\ assets' = assets \cup {x \in {r[2] : r \in snapshots[i].rows} : kinds[x] # None}
  /\ UNCHANGED <<staff, lent, source, previews, jobs, kinds, snapshots, edits>>

ChangeKind(x, kind) ==
  /\ Edited /\ kinds[x] # kind /\ kinds' = [kinds EXCEPT ![x] = kind]
  /\ UNCHANGED <<staff, lent, source, previews, jobs, assets, snapshots>>

-----------------------------------------------------------------------------
Moves == Groups \cup {"floating", "clear_floating", "reject_offer"}

DirectoryNext ==
  \/ \E c \in Codes, form \in Forms :
       \/ \E g \in Groups : CreateEmployee(c, form, g)
       \/ \E g \in Groups \cup {None} : UpdateEmployee(c, form, g)
  \/ \E cs \in SUBSET DOMAIN staff \ {{}}, to \in Moves : MoveGroup(cs, to)
  \/ \E c \in Codes : DeleteEmployee(c) \/ TakeBack(c) \/ \E m \in Machines : Lend(c, m)
  \/ \E book \in Workbooks : ImportExcel(book)
  \/ \E rows \in Sources : SourceChanges(rows)
  \/ \E j \in Jobs : \/ Fetch(j, "preview", 0) \/ StorePreview(j)
                     \/ \E p \in ToSet(previews.kept) : Fetch(j, "apply", p.id)
                     \/ TakePreview(j) \/ ApplySync(j) \/ GiveUp(j)
  \/ ChangeLogin
  \/ \E a \in Accounts : PreviewSeed(a) \/ \E i \in DOMAIN snapshots : ImportSeed(a, i)
  \/ \E x \in Range(AssetOf), kind \in {"serialized", "quantity", None} : ChangeKind(x, kind)

DirectorySpec == DirectoryInit /\ [][DirectoryNext]_directoryVars

-----------------------------------------------------------------------------
(* Properties *)

RowsOf(book) == UNION {ToSet(sheet.rows) : sheet \in ToSet(UsedSheets(book))}
DirectoryTypeOK ==
  /\ DOMAIN staff \subseteq Codes
  /\ \A c \in DOMAIN staff : /\ staff[c].group \in Groups /\ staff[c].floating \in BOOLEAN
                             /\ {staff[c].pc1, staff[c].pc2} \subseteq Opt(Machines \cup Codes \cup {""})
                             /\ ~Taken(staff, c, staff[c].email)
  /\ Len(previews.kept) <= MaxPreviews
  /\ \A j \in Jobs : jobs[j] # Idle =>
       jobs[j].pc \in {"preview", "apply", "write"} /\ jobs[j].source \in Sources
  /\ assets \subseteq Range(AssetOf)

Applies(j) == jobs[j].pc = "write" /\ jobs'[j] = Idle /\ staff' # staff
Unsynced(e) == [e EXCEPT !.name = None, !.email = None, !.azure = None]

\* An applied synchronisation changes only what its preview showed: every employee it
\* touches was then as he is now and keeps the rest, a new one is as its preview said;
\* what forms, imports, moves or other synchronisations did in between is not overwritten.
SyncOverwritesNothingUnseen == [][\A j \in Jobs : Applies(j) =>
  LET p == jobs[j].shown IN \A c \in Codes :
    IF c \in DOMAIN staff
    THEN staff'[c] = staff[c] \/ ( /\ <<c, Synced(staff[c])>> \in p.local
                                  /\ Unsynced(staff'[c]) = Unsynced(staff[c]))
    ELSE c \in DOMAIN staff' => /\ c \notin p.others /\ \A l \in p.local : l[1] # c
                                /\ \E r \in ToSet(p.source) : r.code = c /\ Row(r) = Synced(staff'[c])
  ]_directoryVars

\* After it the employee list agrees with the source, so that the next preview has
\* nothing to apply: blank cells of the source are blank in the directory too.
SyncSettles == [][\A j \in Jobs : Applies(j) =>
  \A r \in ToSet(jobs[j].source) : r.code \in DOMAIN staff' /\ Synced(staff'[r.code]) = Row(r)
  ]_directoryVars

\* An import makes no second employee for a person whose email it knows, whatever
\* staff code or machine stands in the rows about the new one (which all name that
\* email), and moves nobody to another group unless it was told to.
ImportsFindThePerson == [][\A book \in Workbooks : ImportExcel(book) =>
  /\ \A r \in RowsOf(book), d \in DOMAIN staff :
       /\ r.code \in DOMAIN staff' \ DOMAIN staff /\ r.email # None
       /\ \A q \in RowsOf(book) : q.code = r.code => q.email = r.email
       => {staff[d].email, staff'[d].email} # {r.email}
  /\ book.forced = None => \A d \in DOMAIN staff : staff'[d].group = staff[d].group]_directoryVars

=============================================================================
