------------------------ MODULE StaffDirectoryProofs ------------------------
(***************************************************************************)
(* Theorems about StaffDirectory for any directories, workbooks, sources,  *)
(* machines and bounds.                                                    *)
(***************************************************************************)
EXTENDS StaffDirectory, SequenceTheorems, WellFoundedInduction, TLAPS

\* Directories in which no two employees share an email.
Dirs == {dir \in UNION {[D -> Employee] : D \in SUBSET Codes} : Unique(dir)}

Slot == Machine \cup Codes
Form == [name : Text, email : Text, pc1 : Slot, pc2 : Slot, ends : Text]
Line == [code : Opt(Codes), name : Text, email : Text, pc1 : Machine, pc2 : Machine]
Rec == [code : Codes, name : Text, email : Text, azure : Text]
Preview == [id : Nat, source : Sources,
            local : SUBSET (Codes \X [name : Text, email : Text, azure : Text]), others : SUBSET Codes]
Job == [pc : {"preview", "apply"}, source : Sources, id : Nat] \cup {Writing(p) : p \in Preview}
Snapshot == [by : Accounts, rows : SUBSET (Codes \X Range(AssetOf))]

PeopleInv == staff \in Dirs /\ lent \in [now : [Codes -> Opt(Machines)], ever : SUBSET Codes]
SyncInv   == /\ source \in Sources /\ jobs \in [Jobs -> {Idle} \cup Job]
             /\ previews \in [made : Nat, kept : Seq(Preview)] /\ Len(previews.kept) <= MaxPreviews
SeedInv   == assets \subseteq Range(AssetOf) /\ snapshots \in Seq(Snapshot)

TypeInv == PeopleInv /\ SyncInv /\ SeedInv

-----------------------------------------------------------------------------
(* Folds. *)

\* Numbers are reached from 0, one after the other.
LEMMA UpTo ==
  ASSUME NEW n \in Nat, NEW T, 0 \in T, \A i \in 1..n : i - 1 \in T => i \in T
  PROVE  0..n \subseteq T
<1> DEFINE B == {i \in 0..n : i \notin T}
           R == {ss \in Nat \X Nat : ss[1] < ss[2]}
<1>1. IsWellFoundedOn(R, Nat)
  BY NatLessThanWellFounded DEF OpToRel
<1> SUFFICES ASSUME B # {}
             PROVE  FALSE
  OBVIOUS
<1>2. B \subseteq Nat
  OBVIOUS
<1> HIDE DEF R
<1>3. PICK b \in B : \A y \in B : <<y, b>> \notin R
  <2> HIDE DEF B
  <2> QED
    BY <1>1, <1>2, WFMin
<1>4. b \in 1..n /\ b - 1 \in 0..n
  OBVIOUS
<1>5. b - 1 \in T
  <2>1. <<b - 1, b>> \in R
    BY <1>4 DEF R
  <2> QED
    BY <1>3, <1>4, <2>1
<1> QED
  BY <1>4, <1>5

Steps(n, D) == [(1..n) \X D -> D]
Sequel(n, D, d, step, f) ==
  f \in [0..n -> D] /\ f[0] = d /\ \A i \in 1..n : f[i] = step[<<i, f[i - 1]>>]

\* A sequence of results exists in which each comes from the one before it.
LEMMA Results ==
  ASSUME NEW n \in Nat, NEW D, NEW d \in D, NEW step \in Steps(n, D)
  PROVE  \E f : Sequel(n, D, d, step, f)
<1> USE DEF Steps, Sequel
<1> DEFINE Good(m, f) == f[0] = d /\ \A i \in 1..m : f[i] = step[<<i, f[i - 1]>>]
           T == {m \in 0..n : \E f \in [0..m -> D] : Good(m, f)}
<1>1. 0 \in T
  <2> DEFINE g == [i \in 0..0 |-> d]
  <2>1. g \in [0..0 -> D] /\ Good(0, g)
    OBVIOUS
  <2>2. 0 \in 0..n
    OBVIOUS
  <2> HIDE DEF g, Good
  <2> QED
    BY <2>1, <2>2
<1>2. ASSUME NEW m \in 1..n, m - 1 \in T
      PROVE  m \in T
  <2>1. PICK f \in [0..(m - 1) -> D] : Good(m - 1, f)
    BY <1>2
  <2> DEFINE g == [i \in 0..m |-> IF i = m THEN step[<<m, f[m - 1]>>] ELSE f[i]]
  <2>2. f[m - 1] \in D /\ step[<<m, f[m - 1]>>] \in D
    OBVIOUS
  <2>in. g \in [0..m -> D]
    <3> SUFFICES ASSUME NEW i \in 0..m
                 PROVE  (IF i = m THEN step[<<m, f[m - 1]>>] ELSE f[i]) \in D
      OBVIOUS
    <3>1. i # m => i \in 0..(m - 1)
      OBVIOUS
    <3> QED
      BY <2>1, <2>2, <3>1
  <2>3. g \in [0..m -> D] /\ g[0] = d /\ g[m] = step[<<m, g[m - 1]>>]
    <3>1. 0 \in 0..m /\ 0 # m /\ m \in 0..m /\ m - 1 \in 0..m /\ m - 1 # m
      OBVIOUS
    <3>2. g[0] = f[0] /\ g[m] = step[<<m, f[m - 1]>>] /\ g[m - 1] = f[m - 1]
      BY <3>1
    <3> QED
      BY <2>1, <2>in, <3>2
  <2>4. \A i \in 1..(m - 1) : g[i] = f[i] /\ g[i - 1] = f[i - 1]
    OBVIOUS
  <2> HIDE DEF g
  <2>5. \A i \in 1..m : g[i] = step[<<i, g[i - 1]>>]
    <3> SUFFICES ASSUME NEW i \in 1..m
                 PROVE  g[i] = step[<<i, g[i - 1]>>]
      OBVIOUS
    <3>1. CASE i = m
      BY <2>3, <3>1
    <3>2. CASE i \in 1..(m - 1)
      BY <2>1, <2>4, <3>2
    <3> QED
      BY <3>1, <3>2
  <2> QED
    BY <2>3, <2>5
<1> HIDE DEF T
<1>3. n \in T
  BY <1>1, <1>2, UpTo
<1> QED
  BY <1>3 DEF T

\* What holds of the first result and passes from one to the next holds of the last.
LEMMA Stays ==
  ASSUME NEW n \in Nat, NEW D, NEW f, f[0] \in D, \A i \in 1..n : f[i - 1] \in D => f[i] \in D
  PROVE  f[n] \in D
<1> DEFINE T == {i \in 0..n : f[i] \in D}
<1>1. 0 \in T
  OBVIOUS
<1>2. ASSUME NEW i \in 1..n, i - 1 \in T
      PROVE  i \in T
  <2>1. f[i - 1] \in D /\ i \in 0..n
    BY <1>2
  <2> QED
    BY <2>1
<1> HIDE DEF T
<1>3. 0..n \subseteq T
  BY <1>1, <1>2, UpTo
<1>4. n \in 0..n
  OBVIOUS
<1>5. n \in T
  BY <1>3, <1>4
<1> QED
  BY <1>5 DEF T

-----------------------------------------------------------------------------
(* Directories. *)

\* What a directory is.
LEMMA DirFacts ==
  ASSUME NEW dir \in Dirs
  PROVE  /\ DOMAIN dir \subseteq Codes /\ dir \in [DOMAIN dir -> Employee]
         /\ \A c, d \in DOMAIN dir : dir[c].email # None /\ dir[c].email = dir[d].email => c = d
         /\ \A c \in DOMAIN dir : dir[c] \in Employee
  BY DEF Dirs, Unique, Taken

\* An employee written to a directory.
LEMMA PutFacts ==
  ASSUME NEW dir \in Dirs, NEW c \in Codes, NEW e \in Employee, ~Taken(dir, c, e.email)
  PROVE  /\ Put(dir, c, e) \in Dirs /\ DOMAIN Put(dir, c, e) = DOMAIN dir \cup {c}
         /\ Put(dir, c, e)[c] = e /\ \A d \in DOMAIN dir : d # c => Put(dir, c, e)[d] = dir[d]
<1> DEFINE new == Put(dir, c, e)
<1>1. /\ DOMAIN new = DOMAIN dir \cup {c} /\ new[c] = e
      /\ \A d \in DOMAIN dir : d # c => new[d] = dir[d]
      /\ new = [d \in DOMAIN new |-> new[d]]
  BY DEF Put
<1> HIDE DEF new
<1>2. DOMAIN dir \subseteq Codes /\ \A d \in DOMAIN dir : dir[d] \in Employee
  BY DirFacts
<1>3. new \in [DOMAIN new -> Employee] /\ DOMAIN new \subseteq Codes
  BY <1>1, <1>2
<1>4. Unique(new)
  <2> SUFFICES ASSUME NEW x \in DOMAIN new, NEW y \in DOMAIN new, x # y,
                      new[x].email # None, new[y].email = new[x].email
               PROVE  FALSE
    BY DEF Unique, Taken
  <2>1. \A d \in DOMAIN dir \ {c} : e.email = None \/ dir[d].email # e.email
    BY DEF Taken
  <2>2. CASE x = c
    BY <1>1, <2>1, <2>2
  <2>3. CASE y = c
    BY <1>1, <2>1, <2>3
  <2>4. CASE x # c /\ y # c
    BY <1>1, <2>4, DirFacts
  <2> QED
    BY <2>2, <2>3, <2>4
<1> QED
  BY <1>1, <1>3, <1>4 DEF Dirs, new

\* What is written over.
LEMMA OldType ==
  ASSUME NEW dir \in Dirs, NEW c
  PROVE  Old(dir, c) \in Employee
  BY DirFacts DEF Old, Employee, Opt, Text, Machine, Groups

\* What a form writes.
LEMMA WrittenFacts ==
  ASSUME NEW dir \in Dirs, NEW c, NEW form \in Form, NEW group \in Groups
  PROVE  /\ Written(dir, c, form, group) \in Employee
         /\ Written(dir, c, form, group).email = form.email
         /\ Written(dir, c, form, group).group = group
<1>1. Old(dir, c) \in Employee
  BY OldType
<1>2. PICK p : p = Or(form.pc2, Old(dir, c).pc2) /\ p \in Slot
  BY <1>1 DEF Or, Form, Employee, Slot
<1>3. Written(dir, c, form, group) =
        [Old(dir, c) EXCEPT !.name = form.name, !.email = form.email, !.ends = form.ends,
           !.pc1 = form.pc1, !.pc2 = p, !.group = group]
  BY <1>2 DEF Written
<1> QED
  BY <1>1, <1>2, <1>3 DEF Form, Employee, Slot

\* The machines of an employee are machines, or codes taken for machines.
LEMMA SlotTypes ==
  ASSUME NEW a \in Slot, NEW b \in Slot
  PROVE  Slots(a, b) \in Slot \X Slot
  BY DEF Slots, Slot, Machine, Opt

\* So are those after a row's machines were put to them.
LEMMA MergedTypes ==
  ASSUME NEW a \in Slot, NEW b \in Slot, NEW in \in Slot \X Slot
  PROVE  Merged(a, b, in) \in Slot \X Slot
  BY DEF Merged, Or

\* So are those after a code that stands for a machine.
LEMMA DeviceTypes ==
  ASSUME NEW s \in Slot \X Slot, NEW d \in Opt(Codes)
  PROVE  WithDevice(s, d) \in Slot \X Slot
  BY DEF WithDevice, Slot, Machine, Opt

\* What the directory shows as an employee's machines is of that kind.
LEMMA ShownTypes ==
  ASSUME NEW dir \in Dirs, NEW c \in Codes, lent.now \in [Codes -> Opt(Machines)]
  PROVE  Shown(dir, c) \in Slot /\ Second(dir, c) \in Slot
<1>1. lent.now[c] \in Slot /\ None \in Slot
  BY DEF Slot, Machine, Opt
<1>2. c \in DOMAIN dir => dir[c].pc1 \in Slot /\ dir[c].pc2 \in Slot
  BY DirFacts DEF Employee, Slot
<1> QED
  BY <1>1, <1>2 DEF Shown, Second, Or

-----------------------------------------------------------------------------
(* The Excel import. *)

\* A row changes nothing, or writes the employee it is about, whose email no other
\* one has.
LEMMA RowEffect ==
  ASSUME PeopleInv, NEW book \in Workbooks, NEW sheet, sheet.group \in Groups,
         NEW dir \in Dirs, NEW row \in Line
  PROVE  \/ ImportRow(book, sheet, dir, row) = dir
         \/ \E c \in Codes, e \in Employee :
              /\ ImportRow(book, sheet, dir, row) = Put(dir, c, e) /\ ~Taken(dir, c, e.email)
              /\ c \in Match(dir, row) \/ (Match(dir, row) = {} /\ c = row.code)
              /\ e.email = Or(Cell(book, row, "email"), Old(dir, c).email)
              /\ e.group = GroupFor(book, sheet, dir, c)
<1> DEFINE who == Match(dir, row)
           c == IF who = {} THEN row.code ELSE CHOOSE d \in who : TRUE
           device == IF who = {} \/ c = row.code THEN None ELSE row.code
           name == Or(Cell(book, row, "name"), Old(dir, c).name)
           mail == Or(Cell(book, row, "email"), Old(dir, c).email)
           in == Slots(Cell(book, row, "pc1"), Cell(book, row, "pc2"))
           pair == WithDevice(Merged(Shown(dir, c), Second(dir, c), in), device)
           pcs == Slots(pair[1], pair[2])
           form == [name |-> name, email |-> mail, ends |-> Old(dir, c).ends,
                    pc1 |-> pcs[1], pc2 |-> Or(pcs[2], Second(dir, c))]
           group == GroupFor(book, sheet, dir, c)
<1>1. ImportRow(book, sheet, dir, row) =
        IF None \in {c, name} \/ Taken(dir, c, mail) THEN dir
        ELSE Put(dir, c, Written(dir, c, form, group))
  BY DEF ImportRow
<1> SUFFICES ASSUME c # None, ~Taken(dir, c, mail)
             PROVE  \E d \in Codes, e \in Employee :
                      /\ Put(dir, c, Written(dir, c, form, group)) = Put(dir, d, e)
                      /\ ~Taken(dir, d, e.email)
                      /\ d \in who \/ (who = {} /\ d = row.code)
                      /\ e.email = Or(Cell(book, row, "email"), Old(dir, d).email)
                      /\ e.group = GroupFor(book, sheet, dir, d)
  BY <1>1
<1>2. who \subseteq DOMAIN dir
  BY DEF Match, ByEmail
<1>3. c \in who \/ (who = {} /\ c = row.code)
  OBVIOUS
<1>4. c \in Codes
  BY <1>2, <1>3, DirFacts DEF Line, Opt
<1> HIDE DEF c, who
<1>5. Old(dir, c) \in Employee /\ Shown(dir, c) \in Slot /\ Second(dir, c) \in Slot
  BY <1>4, OldType, ShownTypes DEF PeopleInv
<1>6. name \in Text /\ mail \in Text /\ Old(dir, c).ends \in Text
  BY <1>5 DEF Or, Cell, Line, Employee, Text, Opt
<1>7. pcs \in Slot \X Slot
  <2>1. Cell(book, row, "pc1") \in Slot /\ Cell(book, row, "pc2") \in Slot
    BY DEF Cell, Line, Slot, Machine, Opt
  <2>2. in \in Slot \X Slot
    BY <2>1, SlotTypes
  <2> HIDE DEF in
  <2>3. Merged(Shown(dir, c), Second(dir, c), in) \in Slot \X Slot
    BY <1>5, <2>2, MergedTypes
  <2>4. device \in Opt(Codes)
    BY DEF Line, Opt
  <2> HIDE DEF device
  <2>5. pair \in Slot \X Slot
    BY <2>3, <2>4, DeviceTypes
  <2> HIDE DEF pair
  <2> QED
    BY <2>5, SlotTypes
<1> HIDE DEF pcs, mail, name
<1>8. form \in Form /\ form.email = mail
  <2>1. Or(pcs[2], Second(dir, c)) \in Slot /\ pcs[1] \in Slot
    BY <1>5, <1>7 DEF Or
  <2> QED
    BY <1>6, <2>1 DEF Form
<1> HIDE DEF form
<1>9. group \in Groups
  <2>1. book.forced \in Opt(Groups)
    BY WorkbooksOK
  <2>2. c \in DOMAIN dir => dir[c].group \in Groups
    BY DirFacts DEF Employee
  <2> QED
    BY <2>1, <2>2 DEF GroupFor, Or, Opt
<1> HIDE DEF group
<1>10. /\ Written(dir, c, form, group) \in Employee
       /\ Written(dir, c, form, group).email = mail /\ Written(dir, c, form, group).group = group
  BY <1>8, <1>9, WrittenFacts
<1> QED
  BY <1>3, <1>4, <1>10 DEF mail, group

\* What every row keeps, a sheet keeps.
LEMMA SheetKeeps ==
  ASSUME NEW book, NEW sheet, NEW L, sheet.rows \in Seq(L), NEW D, NEW dir \in D,
         \A d \in D : \A i \in DOMAIN sheet.rows : ImportRow(book, sheet, d, sheet.rows[i]) \in D
  PROVE  ImportSheet(book, sheet, dir) \in D
<1> DEFINE n == Len(sheet.rows)
           After(f) == f = [i \in 0..n |-> IF i = 0 THEN dir
                                           ELSE ImportRow(book, sheet, f[i - 1], sheet.rows[i])]
           after == CHOOSE f : After(f)
<1>1. n \in Nat /\ DOMAIN sheet.rows = 1..n
  OBVIOUS
<1> HIDE DEF n
<1>2. PICK step : step \in Steps(n, D) /\ step = [x \in (1..n) \X D |-> ImportRow(book, sheet, x[2], sheet.rows[x[1]])]
  BY <1>1 DEF Steps
<1>3. PICK f : Sequel(n, D, dir, step, f)
  BY <1>1, <1>2, Results
<1>4. \A i \in 1..n : f[i] = ImportRow(book, sheet, f[i - 1], sheet.rows[i])
  <2> SUFFICES ASSUME NEW i \in 1..n
               PROVE  f[i] = ImportRow(book, sheet, f[i - 1], sheet.rows[i])
    OBVIOUS
  <2>1. f[i - 1] \in D
    BY <1>1, <1>3 DEF Sequel
  <2> QED
    BY <1>2, <1>3, <2>1 DEF Sequel
<1>5. After(f)
  BY <1>1, <1>3, <1>4 DEF Sequel
<1>6. After(after)
  <2> HIDE DEF After
  <2> QED
    BY <1>5
<1>7. ImportSheet(book, sheet, dir) = after[n]
  BY DEF ImportSheet, n
<1> HIDE DEF after
<1>8. after[0] = dir /\ \A i \in 1..n : after[i] = ImportRow(book, sheet, after[i - 1], sheet.rows[i])
  BY <1>1, <1>6
<1>9. \A i \in 1..n : after[i - 1] \in D => after[i] \in D
  BY <1>1, <1>8
<1>10. after[n] \in D
  BY <1>1, <1>8, <1>9, Stays
<1> QED
  BY <1>7, <1>10

\* What every sheet keeps, an import keeps.
LEMMA SheetsKeep ==
  ASSUME NEW book, NEW S, NEW sheets \in Seq(S), NEW D, NEW dir \in D,
         \A d \in D : \A i \in DOMAIN sheets : ImportSheet(book, sheets[i], d) \in D
  PROVE  ImportSheets(book, sheets, dir) \in D
<1> DEFINE n == Len(sheets)
           After(f) == f = [i \in 0..n |-> IF i = 0 THEN dir ELSE ImportSheet(book, sheets[i], f[i - 1])]
           after == CHOOSE f : After(f)
<1>1. n \in Nat /\ DOMAIN sheets = 1..n
  OBVIOUS
<1> HIDE DEF n
<1>2. PICK step : step \in Steps(n, D) /\ step = [x \in (1..n) \X D |-> ImportSheet(book, sheets[x[1]], x[2])]
  BY <1>1 DEF Steps
<1>3. PICK f : Sequel(n, D, dir, step, f)
  BY <1>1, <1>2, Results
<1>4. \A i \in 1..n : f[i] = ImportSheet(book, sheets[i], f[i - 1])
  <2> SUFFICES ASSUME NEW i \in 1..n
               PROVE  f[i] = ImportSheet(book, sheets[i], f[i - 1])
    OBVIOUS
  <2>1. f[i - 1] \in D
    BY <1>1, <1>3 DEF Sequel
  <2> QED
    BY <1>2, <1>3, <2>1 DEF Sequel
<1>5. After(f)
  BY <1>1, <1>3, <1>4 DEF Sequel
<1>6. After(after)
  <2> HIDE DEF After
  <2> QED
    BY <1>5
<1>7. ImportSheets(book, sheets, dir) = after[n]
  BY DEF ImportSheets, n
<1> HIDE DEF after
<1>8. after[0] = dir /\ \A i \in 1..n : after[i] = ImportSheet(book, sheets[i], after[i - 1])
  BY <1>1, <1>6
<1>9. \A i \in 1..n : after[i - 1] \in D => after[i] \in D
  BY <1>1, <1>8
<1>10. after[n] \in D
  BY <1>1, <1>8, <1>9, Stays
<1> QED
  BY <1>7, <1>10

Sheet == [group : Groups, rows : Seq(Line)]

\* What every row keeps, an import keeps.
LEMMA ImportKeeps ==
  ASSUME NEW book \in Workbooks, NEW D, NEW dir \in D,
         \A d \in D, sheet \in Sheet, row \in Line :
           sheet \in ToSet(UsedSheets(book)) /\ row \in ToSet(sheet.rows)
           => ImportRow(book, sheet, d, row) \in D
  PROVE  ImportSheets(book, UsedSheets(book), dir) \in D
<1> DEFINE used == UsedSheets(book)
<1>1. used \in Seq(Sheet)
  <2>1. book.sheets \in Seq(Sheet) /\ book.asked \in Nat /\ book.asked <= Len(book.sheets)
    BY WorkbooksOK DEF Sheet, Line
  <2>2. book.asked # 0 => book.sheets[book.asked] \in Sheet
    BY <2>1
  <2> QED
    BY <2>1, <2>2 DEF UsedSheets
<1> HIDE DEF used
<1>2. ASSUME NEW d \in D, NEW i \in DOMAIN used
      PROVE  ImportSheet(book, used[i], d) \in D
  <2> DEFINE sheet == used[i]
  <2>1. sheet \in Sheet /\ sheet \in ToSet(used)
    BY <1>1 DEF ToSet
  <2> HIDE DEF sheet
  <2>4. sheet.rows \in Seq(Line)
    BY <2>1 DEF Sheet
  <2>2. ASSUME NEW x \in D, NEW k \in DOMAIN sheet.rows
        PROVE  ImportRow(book, sheet, x, sheet.rows[k]) \in D
    <3>1. sheet.rows[k] \in Line /\ sheet.rows[k] \in ToSet(sheet.rows)
      BY <2>4 DEF ToSet
    <3> QED
      BY <2>1, <3>1 DEF used
  <2>3. ImportSheet(book, sheet, d) \in D
    BY <2>4, <2>2, SheetKeeps
  <2> QED
    BY <2>3 DEF sheet
<1>3. ImportSheets(book, used, dir) \in D
  BY <1>1, <1>2, SheetsKeep
<1> QED
  BY <1>3 DEF used

\* An import leaves a directory.
LEMMA ImportTyped ==
  ASSUME PeopleInv, NEW book \in Workbooks
  PROVE  ImportSheets(book, UsedSheets(book), staff) \in Dirs
<1>1. ASSUME NEW dir \in Dirs, NEW sheet \in Sheet, NEW row \in Line
      PROVE  ImportRow(book, sheet, dir, row) \in Dirs
  <2>1. sheet.group \in Groups
    BY DEF Sheet
  <2>2. CASE ImportRow(book, sheet, dir, row) = dir
    BY <2>2
  <2>3. ASSUME NEW c \in Codes, NEW e \in Employee,
               ImportRow(book, sheet, dir, row) = Put(dir, c, e), ~Taken(dir, c, e.email)
        PROVE  ImportRow(book, sheet, dir, row) \in Dirs
    <3>1. Put(dir, c, e) \in Dirs
      BY <2>3, PutFacts, Zenon
    <3> QED
      BY <3>1, <2>3
  <2>4. \/ ImportRow(book, sheet, dir, row) = dir
        \/ \E c \in Codes, e \in Employee :
             ImportRow(book, sheet, dir, row) = Put(dir, c, e) /\ ~Taken(dir, c, e.email)
    BY <2>1, RowEffect
  <2>5. CASE \E c \in Codes, e \in Employee :
               ImportRow(book, sheet, dir, row) = Put(dir, c, e) /\ ~Taken(dir, c, e.email)
    BY <2>3, <2>5
  <2> QED
    BY <2>2, <2>4, <2>5
<1> QED
  BY <1>1, ImportKeeps DEF PeopleInv

\* An import that was told no group moves nobody.
LEMMA ImportKeepsGroups ==
  ASSUME PeopleInv, NEW book \in Workbooks, book.forced = None
  PROVE  \A d \in DOMAIN staff :
           ImportSheets(book, UsedSheets(book), staff)[d].group = staff[d].group
<1> DEFINE Kept(dir) == \A d \in DOMAIN staff : d \in DOMAIN dir /\ dir[d].group = staff[d].group
<1> DEFINE D == {dir \in Dirs : Kept(dir)}
<1>1. staff \in D
  BY DEF PeopleInv
<1>2. ASSUME NEW dir \in D, NEW sheet \in Sheet, NEW row \in Line
      PROVE  ImportRow(book, sheet, dir, row) \in D
  <2>1. sheet.group \in Groups
    BY DEF Sheet
  <2>2. CASE ImportRow(book, sheet, dir, row) = dir
    BY <2>2
  <2>3. ASSUME NEW c \in Codes, NEW e \in Employee, ~Taken(dir, c, e.email),
               ImportRow(book, sheet, dir, row) = Put(dir, c, e),
               e.group = GroupFor(book, sheet, dir, c)
        PROVE  ImportRow(book, sheet, dir, row) \in D
    <3>1. /\ Put(dir, c, e) \in Dirs /\ DOMAIN Put(dir, c, e) = DOMAIN dir \cup {c}
          /\ Put(dir, c, e)[c] = e /\ \A d \in DOMAIN dir : d # c => Put(dir, c, e)[d] = dir[d]
      BY <2>3, PutFacts
    <3>2. c \in DOMAIN dir => e.group = dir[c].group
      BY <2>3 DEF GroupFor, Or
    <3>3. Kept(Put(dir, c, e))
      BY <3>1, <3>2
    <3> QED
      BY <2>3, <3>1, <3>3
  <2> QED
    BY <2>1, <2>2, <2>3, RowEffect
<1> HIDE DEF D
<1>3. ImportSheets(book, UsedSheets(book), staff) \in D
  BY <1>1, <1>2, ImportKeeps
<1> QED
  BY <1>3 DEF D

\* Rows that all name one email for a new staff code make no second employee with it.
LEMMA ImportFinds ==
  ASSUME PeopleInv, NEW book \in Workbooks, NEW x \in Codes \ DOMAIN staff, NEW mail, mail # None,
         \A q \in RowsOf(book) : q.code = x => q.email = mail,
         NEW d \in DOMAIN staff, staff[d].email = mail,
         x \in DOMAIN ImportSheets(book, UsedSheets(book), staff)
  PROVE  ImportSheets(book, UsedSheets(book), staff)[d].email # mail
<1> DEFINE after == ImportSheets(book, UsedSheets(book), staff)
           New(dir) == x \in DOMAIN dir => dir[x].email = mail
           Old1(dir) == x \notin DOMAIN dir /\ d \in DOMAIN dir /\ dir[d].email = mail
           Keeps(dir) == d \in DOMAIN dir /\ IF "email" \in book.columns THEN New(dir) ELSE Old1(dir)
           D == {dir \in Dirs : Keeps(dir)}
<1>1. staff \in D
  BY DEF PeopleInv
<1>2. ASSUME NEW dir \in D, NEW sheet \in Sheet, NEW row \in Line, row \in RowsOf(book)
      PROVE  ImportRow(book, sheet, dir, row) \in D
  <2>1. sheet.group \in Groups
    BY DEF Sheet
  <2>2. CASE ImportRow(book, sheet, dir, row) = dir
    BY <2>2
  <2>3. ASSUME NEW c \in Codes, NEW e \in Employee, ~Taken(dir, c, e.email),
               ImportRow(book, sheet, dir, row) = Put(dir, c, e),
               c \in Match(dir, row) \/ (Match(dir, row) = {} /\ c = row.code),
               e.email = Or(Cell(book, row, "email"), Old(dir, c).email)
        PROVE  ImportRow(book, sheet, dir, row) \in D
    <3>dir. dir \in Dirs
      OBVIOUS
    <3>keeps. Keeps(dir)
      OBVIOUS
    <3>typed. c \in Codes /\ e \in Employee /\ ~Taken(dir, c, e.email)
      BY <2>3
    <3> HIDE DEF D, Keeps
    <3>1. /\ Put(dir, c, e) \in Dirs /\ DOMAIN Put(dir, c, e) = DOMAIN dir \cup {c}
          /\ Put(dir, c, e)[c] = e /\ \A k \in DOMAIN dir : k # c => Put(dir, c, e)[k] = dir[k]
      BY ONLY <3>dir, <3>typed, PutFacts
    <3> USE DEF Keeps
    <3>2. CASE "email" \in book.columns
      <4>1. SUFFICES ASSUME c = x
                     PROVE  e.email = mail
        BY <3>dir, <3>keeps, <3>1, <3>2, <2>3 DEF D
      <4>2. e.email = IF row.email = None THEN Old(dir, x).email ELSE row.email
        BY <2>3, <3>2, <4>1 DEF Cell, Or
      <4>3. CASE row.code = x
        BY <1>2, <4>2, <4>3
      <4>4. CASE row.code # x
        <5>1. x \in DOMAIN dir /\ row.email # None => row.email = dir[x].email
          BY <2>3, <4>1, <4>4 DEF Match, ByEmail
        <5>2. x \in DOMAIN dir
          BY <2>3, <4>1, <4>4 DEF Match, ByEmail
        <5> QED
          BY <3>keeps, <3>2, <4>2, <5>1, <5>2 DEF Old
      <4> QED
        BY <4>3, <4>4
    <3>3. CASE "email" \notin book.columns
      <4>1. e.email = Old(dir, c).email
        BY <2>3, <3>3 DEF Cell, Or
      <4>2. c # x
        BY <1>2, <2>3, <3>dir, <3>keeps, <3>3 DEF Match, ByEmail
      <4>3. c \in DOMAIN dir => e.email = dir[c].email
        BY <4>1 DEF Old
      <4> QED
        BY <2>3, <3>dir, <3>keeps, <3>1, <3>3, <4>2, <4>3 DEF D
    <3> QED
      BY <3>2, <3>3
  <2> QED
    BY <2>1, <2>2, <2>3, RowEffect
<1>3. \A sheet : sheet \in ToSet(UsedSheets(book)) => ToSet(sheet.rows) \subseteq RowsOf(book)
  BY DEF RowsOf
<1> HIDE DEF D
<1>4. after \in D
  BY <1>1, <1>2, <1>3, ImportKeeps
<1>5. after \in Dirs /\ Keeps(after) /\ x \in DOMAIN after
  BY <1>4 DEF D
<1> HIDE DEF after
<1>6. x # d
  OBVIOUS
<1> QED
  BY <1>5, <1>6, DirFacts DEF after
-----------------------------------------------------------------------------
(* The synchronisation. *)

Acc == [ok : BOOLEAN, dir : Dirs]

\* The employee c after the rows up to n that differ from dir were written.
AfterRows(rows, dir, n, c, new) ==
  /\ \A k \in 1..n : rows[k] \in Differs(rows, dir) /\ rows[k].code = c =>
       /\ c \in DOMAIN new /\ Synced(new[c]) = Row(rows[k])
       /\ Unsynced(new[c]) = Unsynced(Old(dir, c))
  /\ (\A k \in 1..n : rows[k] \in Differs(rows, dir) => rows[k].code # c) =>
       /\ c \in DOMAIN new <=> c \in DOMAIN dir
       /\ c \in DOMAIN dir => new[c] = dir[c]

\* A row fails, or writes its three columns to its employee and keeps the rest.
LEMMA SyncRowEffect ==
  ASSUME NEW acc \in Acc, NEW r \in Rec
  PROVE  /\ SyncRow(acc, r) \in Acc
         /\ SyncRow(acc, r).ok =>
              /\ acc.ok
              /\ \E e \in Employee :
                   /\ SyncRow(acc, r).dir = Put(acc.dir, r.code, e)
                   /\ Put(acc.dir, r.code, e) \in Dirs
                   /\ Synced(e) = Row(r) /\ Unsynced(e) = Unsynced(Old(acc.dir, r.code))
<1> DEFINE old == Old(acc.dir, r.code)
           new == [old EXCEPT !.name = r.name, !.email = r.email, !.azure = r.azure]
<1>1. acc.dir \in Dirs /\ acc.ok \in BOOLEAN
  BY DEF Acc
<1>2. old \in Employee
  BY <1>1, OldType
<1> HIDE DEF old
<1>3. new \in Employee /\ new.email = r.email /\ Synced(new) = Row(r)
  BY <1>2 DEF Employee, Rec, Synced, Row
<1>4. Unsynced(new) = Unsynced(old)
  BY <1>2 DEF Employee, Unsynced
<1>5. SyncRow(acc, r) = IF ~acc.ok \/ Taken(acc.dir, r.code, r.email)
                        THEN [ok |-> FALSE, dir |-> acc.dir]
                        ELSE [ok |-> TRUE, dir |-> Put(acc.dir, r.code, new)]
  BY DEF SyncRow, old, AzureOf
<1> HIDE DEF new
<1>6. CASE ~acc.ok \/ Taken(acc.dir, r.code, r.email)
  BY <1>1, <1>5, <1>6 DEF Acc
<1>7. CASE acc.ok /\ ~Taken(acc.dir, r.code, r.email)
  <2>1. r.code \in Codes
    BY DEF Rec
  <2>2. Put(acc.dir, r.code, new) \in Dirs
    BY <1>1, <1>3, <1>7, <2>1, PutFacts
  <2> QED
    BY <1>1, <1>3, <1>4, <1>5, <1>7, <2>2 DEF Acc, old
<1> QED
  BY <1>6, <1>7

\* A synchronisation that succeeds gives every employee of a row that differs what the
\* row says, and leaves the others alone.
LEMMA SyncEffect ==
  ASSUME NEW rows \in Sources, NEW dir \in Dirs
  PROVE  /\ SyncRows(rows, dir) \in Acc
         /\ SyncRows(rows, dir).ok =>
              \A c \in Codes : AfterRows(rows, dir, Len(rows), c, SyncRows(rows, dir).dir)
<1> DEFINE n == Len(rows)
           Next1(i, acc) == IF rows[i] \in Differs(rows, dir) THEN SyncRow(acc, rows[i]) ELSE acc
           start == [ok |-> TRUE, dir |-> dir]
           After(f) == f = [i \in 0..n |-> IF i = 0 THEN start ELSE Next1(i, f[i - 1])]
           after == CHOOSE f : After(f)
<1>1. /\ n \in Nat /\ DOMAIN rows = 1..n /\ \A i \in 1..n : rows[i] \in Rec
      /\ \A i, k \in 1..n : rows[i].code = rows[k].code => i = k
  <2>1. rows \in Seq(Rec) /\ \A i, k \in DOMAIN rows : rows[i].code = rows[k].code => i = k
    BY SourcesOK DEF Rec
  <2> QED
    BY <2>1
<1> HIDE DEF n
<1>2. start \in Acc
  BY DEF Acc
<1> HIDE DEF start
<1>3. \A i \in 1..n, acc \in Acc : Next1(i, acc) \in Acc
  BY <1>1, SyncRowEffect
<1>4. SyncRows(rows, dir) = after[n]
  BY DEF SyncRows, n, start
<1> HIDE DEF Next1
<1>5. PICK step : step \in Steps(n, Acc) /\ step = [x \in (1..n) \X Acc |-> Next1(x[1], x[2])]
  BY <1>3 DEF Steps
<1>6. PICK f : Sequel(n, Acc, start, step, f)
  BY <1>1, <1>2, <1>5, Results
<1>7. After(f)
  <2>1. ASSUME NEW i \in 1..n
        PROVE  f[i] = Next1(i, f[i - 1])
    <3>1. f[i - 1] \in Acc
      BY <1>1, <1>6 DEF Sequel
    <3> QED
      BY <1>5, <1>6, <3>1 DEF Sequel
  <2> QED
    BY <1>1, <1>6, <2>1 DEF Sequel
<1>8. After(after)
  <2> HIDE DEF After
  <2> QED
    BY <1>7
<1> HIDE DEF after
<1>9. after[0] = start /\ \A i \in 1..n : after[i] = Next1(i, after[i - 1])
  BY <1>1, <1>8
<1> DEFINE Good(i) == /\ after[i] \in Acc
                      /\ after[i].ok => \A c \in Codes : AfterRows(rows, dir, i, c, after[i].dir)
           T == {i \in 0..n : Good(i)}
<1>10. 0 \in T
  <2>1. Good(0)
    BY <1>2, <1>9 DEF start, AfterRows
  <2> QED
    BY <1>1, <2>1
<1>11. ASSUME NEW i \in 1..n, i - 1 \in T
       PROVE  i \in T
  <2> DEFINE acc == after[i - 1]
             r == rows[i]
  <2>1. /\ acc \in Acc /\ i \in 0..n
        /\ acc.ok => \A c \in Codes : AfterRows(rows, dir, i - 1, c, acc.dir)
    BY <1>1, <1>11
  <2>2. r \in Rec /\ after[i] = Next1(i, acc)
    BY <1>1, <1>9
  <2>3. SUFFICES Good(i)
    BY <2>1
  <2> HIDE DEF T, acc
  <2>4. CASE r \notin Differs(rows, dir)
    <3>1. after[i] = acc
      BY <2>2, <2>4 DEF Next1
    <3>2. \A c : AfterRows(rows, dir, i - 1, c, acc.dir) => AfterRows(rows, dir, i, c, acc.dir)
      <4>1. \A k \in 1..i : k = i \/ k \in 1..(i - 1)
        OBVIOUS
      <4>2. \A k \in 1..(i - 1) : k \in 1..i
        OBVIOUS
      <4> QED
        BY <2>4, <4>1, <4>2 DEF AfterRows
    <3> QED
      BY <2>1, <3>1, <3>2
  <2>5. CASE r \in Differs(rows, dir)
    <3>1. after[i] = SyncRow(acc, r)
      BY <2>2, <2>5 DEF Next1
    <3>2. after[i] \in Acc
      BY <2>1, <2>2, <3>1, SyncRowEffect
    <3>3. SUFFICES ASSUME after[i].ok, NEW c \in Codes
                   PROVE  AfterRows(rows, dir, i, c, after[i].dir)
      BY <3>2
    <3>4. acc.ok
      BY <2>1, <2>2, <3>1, <3>3, SyncRowEffect
    <3>5. PICK e \in Employee :
            /\ after[i].dir = Put(acc.dir, r.code, e)
            /\ Synced(e) = Row(r) /\ Unsynced(e) = Unsynced(Old(acc.dir, r.code))
      BY <2>1, <2>2, <3>1, <3>3, SyncRowEffect
    <3>6. AfterRows(rows, dir, i - 1, c, acc.dir)
      BY <2>1, <3>4
    <3> DEFINE new == after[i].dir
    <3>7. /\ DOMAIN new = DOMAIN acc.dir \cup {r.code} /\ new[r.code] = e
          /\ \A d \in DOMAIN acc.dir : d # r.code => new[d] = acc.dir[d]
      BY <3>5 DEF Put
    <3> HIDE DEF new
    <3>8. \A k \in 1..i : k = i \/ (k \in 1..(i - 1) /\ rows[k].code # r.code)
      BY <1>1
    <3>9. \A k \in 1..(i - 1) : k \in 1..i
      OBVIOUS
    <3>10. CASE c = r.code
      <4>1. /\ c \in DOMAIN acc.dir <=> c \in DOMAIN dir
            /\ c \in DOMAIN dir => acc.dir[c] = dir[c]
        BY <3>6, <3>8, <3>9, <3>10 DEF AfterRows
      <4>2. Old(acc.dir, c) = Old(dir, c)
        BY <4>1 DEF Old
      <4>3. c \in DOMAIN new /\ Synced(new[c]) = Row(r) /\ Unsynced(new[c]) = Unsynced(Old(dir, c))
        BY <3>5, <3>7, <3>10, <4>2
      <4>4. i \in 1..i
        OBVIOUS
      <4>5. AfterRows(rows, dir, i, c, new)
        BY <2>5, <3>8, <3>10, <4>3, <4>4 DEF AfterRows
      <4> QED
        BY <4>5 DEF new
    <3>11. CASE c # r.code
      <4>1. (c \in DOMAIN new <=> c \in DOMAIN acc.dir) /\ (c \in DOMAIN acc.dir => new[c] = acc.dir[c])
        BY <3>7, <3>11
      <4>2. \A k \in 1..i : rows[k].code = c => k \in 1..(i - 1)
        BY <3>8, <3>11
      <4>3. AfterRows(rows, dir, i, c, new)
        BY <3>6, <3>9, <4>1, <4>2 DEF AfterRows
      <4> QED
        BY <4>3 DEF new
    <3> QED
      BY <3>10, <3>11
  <2> QED
    BY <2>4, <2>5
<1> HIDE DEF T
<1>12. 0..n \subseteq T
  BY <1>1, <1>10, <1>11, UpTo
<1>13. n \in 0..n
  BY <1>1
<1>14. Good(n)
  BY <1>12, <1>13 DEF T
<1> QED
  BY <1>4, <1>14 DEF n
-----------------------------------------------------------------------------
(* Types. *)

\* Whoever is moved keeps his email.
LEMMA MovedType ==
  ASSUME NEW e \in Employee, NEW to \in Moves
  PROVE  Moved(e, to) \in Employee /\ Moved(e, to).email = e.email
<1>1. \A group \in Groups, life \in {"resigned", "transferring", "pending", "rehired", "active"} :
        To(e, group, life) \in Employee /\ To(e, group, life).email = e.email
  BY DEF To, Employee, Opt
<1>2. [To(e, "employee_list", "rehired") EXCEPT !.ends = None] \in Employee
  BY <1>1 DEF Employee, Text, Opt, Groups
<1>3. [To(e, "employee_list", "rehired") EXCEPT !.ends = None].email = e.email
  BY DEF To, Employee
<1>4. CASE to = "floating"
  BY <1>4 DEF Moved, Employee, Groups
<1>5. CASE to = "clear_floating"
  BY <1>5 DEF Moved, Employee
<1>6. CASE to = "reject_offer"
  BY <1>6 DEF Moved, Employee, Opt
<1>7. CASE to = "offboarding"
  BY <1>1, <1>7 DEF Moved, Groups
<1>8. CASE to = "internal_movement"
  BY <1>1, <1>8 DEF Moved, Groups
<1>9. CASE to = "onboarding"
  BY <1>1, <1>9 DEF Moved, Groups
<1>10. CASE to = "employee_list"
  BY <1>1, <1>2, <1>3, <1>10 DEF Moved, Groups
<1> QED
  BY <1>4, <1>5, <1>6, <1>7, <1>8, <1>9, <1>10 DEF Moves, Groups

\* A form holds texts and machines.
LEMMA FormTypes ==
  ASSUME NEW form \in Forms
  PROVE  form \in Form
  BY FormsOK DEF Form, Slot

\* Moving employees leaves a directory.
LEMMA MoveTyped ==
  ASSUME staff \in Dirs, NEW cs, NEW to \in Moves, MoveGroup(cs, to)
  PROVE  staff' \in Dirs
<1>1. \A c \in DOMAIN staff : /\ Moved(staff[c], to) \in Employee
                              /\ Moved(staff[c], to).email = staff[c].email
  BY DirFacts, MovedType
<1>2. DOMAIN staff' = DOMAIN staff /\ staff' = [c \in DOMAIN staff' |-> staff'[c]]
  BY DEF MoveGroup
<1>3. \A c \in DOMAIN staff : staff'[c] \in Employee /\ staff'[c].email = staff[c].email
  BY <1>1, DirFacts DEF MoveGroup
<1>4. Unique(staff')
  BY <1>2, <1>3, DirFacts DEF Unique, Taken
<1> QED
  BY <1>2, <1>3, <1>4, DirFacts DEF Dirs

\* Deleting an employee leaves a directory.
LEMMA DeleteTyped ==
  ASSUME staff \in Dirs, NEW c \in Codes, DeleteEmployee(c)
  PROVE  staff' \in Dirs
<1>1. /\ DOMAIN staff' = DOMAIN staff \ {c} /\ staff' = [d \in DOMAIN staff' |-> staff'[d]]
      /\ \A d \in DOMAIN staff' : staff'[d] = staff[d]
  BY DEF DeleteEmployee, Restrict
<1>2. Unique(staff')
  BY <1>1, DirFacts DEF Unique, Taken
<1> QED
  BY <1>1, <1>2, DirFacts DEF Dirs

\* Loans are of machines, to employees.
LoansOK == lent \in [now : [Codes -> Opt(Machines)], ever : SUBSET Codes]

\* A request that is about to write holds the preview whose source it has fetched.
LEMMA WrittenJob ==
  ASSUME SyncInv, NEW j \in Jobs, jobs[j].pc = "write"
  PROVE  /\ jobs[j].shown \in Preview /\ jobs[j].shown.source = jobs[j].source
         /\ jobs[j].source \in Sources
<1>1. jobs[j] \in {Idle} \cup Job
  BY DEF SyncInv
<1>2. PICK p \in Preview : jobs[j] = Writing(p)
  BY <1>1 DEF Idle, Job
<1> QED
  BY <1>2 DEF Writing, Preview

\* Dropping a preview leaves previews, and no more of them.
LEMMA WithoutType ==
  ASSUME NEW s \in Seq(Preview), NEW id
  PROVE  Without(s, id) \in Seq(Preview) /\ Len(Without(s, id)) <= Len(s)
<1>1. CASE ~\E i \in DOMAIN s : s[i].id = id
  BY <1>1 DEF Without
<1>2. CASE \E i \in DOMAIN s : s[i].id = id
  <2> DEFINE i == CHOOSE i \in DOMAIN s : s[i].id = id
  <2>1. i \in 1..Len(s) /\ Len(s) \in Nat
    BY <1>2
  <2>2. Without(s, id) = RemoveAt(s, i)
    BY <1>2 DEF Without
  <2> HIDE DEF i
  <2>3. SubSeq(s, 1, i - 1) \in Seq(Preview) /\ Len(SubSeq(s, 1, i - 1)) = i - 1
    BY <2>1
  <2>4. SubSeq(s, i + 1, Len(s)) \in Seq(Preview) /\ Len(SubSeq(s, i + 1, Len(s))) = Len(s) - i
    BY <2>1
  <2>5. RemoveAt(s, i) = SubSeq(s, 1, i - 1) \o SubSeq(s, i + 1, Len(s))
    BY DEF RemoveAt
  <2>6. RemoveAt(s, i) \in Seq(Preview) /\ Len(RemoveAt(s, i)) <= Len(s)
    <3> DEFINE a == SubSeq(s, 1, i - 1)
               z == SubSeq(s, i + 1, Len(s))
    <3>1. a \in Seq(Preview) /\ Len(a) = i - 1 /\ z \in Seq(Preview) /\ Len(z) = Len(s) - i
      BY <2>3, <2>4
    <3>2. RemoveAt(s, i) = a \o z
      BY <2>5
    <3> HIDE DEF a, z
    <3>3. RemoveAt(s, i) \in Seq(Preview) /\ Len(RemoveAt(s, i)) = Len(a) + Len(z)
      BY <3>1, <3>2, ConcatProperties
    <3> QED
      BY <2>1, <3>1, <3>3
  <2> QED
    BY <2>2, <2>6
<1> QED
  BY <1>1, <1>2

\* Every step leaves a directory, and loans of machines.
LEMMA PeopleStep ==
  ASSUME TypeInv, DirectoryNext
  PROVE  PeopleInv'
<1>1. staff \in Dirs /\ LoansOK
  BY DEF TypeInv, PeopleInv, LoansOK
<1>2. ASSUME NEW c \in Codes, NEW form \in Forms, NEW g \in Groups, CreateEmployee(c, form, g)
      PROVE  PeopleInv'
  <2>1. Written(staff, c, form, g) \in Employee /\ Written(staff, c, form, g).email = form.email
    BY <1>1, FormTypes, WrittenFacts
  <2>2. Put(staff, c, Written(staff, c, form, g)) \in Dirs
    BY <1>1, <1>2, <2>1, PutFacts DEF CreateEmployee
  <2> QED
    BY <1>1, <1>2, <2>2 DEF CreateEmployee, PeopleInv, LoansOK
<1>3. ASSUME NEW c \in Codes, NEW form \in Forms, NEW g \in Groups \cup {None},
             UpdateEmployee(c, form, g)
      PROVE  PeopleInv'
  <2>1. PICK group : group = Or(g, staff[c].group) /\ group \in Groups
    BY <1>1, <1>3, DirFacts DEF UpdateEmployee, Or, Employee
  <2>2. Written(staff, c, form, group) \in Employee /\ Written(staff, c, form, group).email = form.email
    BY <1>1, <2>1, FormTypes, WrittenFacts
  <2>3. Put(staff, c, Written(staff, c, form, group)) \in Dirs
    BY <1>1, <1>3, <2>2, PutFacts DEF UpdateEmployee
  <2> QED
    BY <1>1, <1>3, <2>1, <2>3 DEF UpdateEmployee, PeopleInv, LoansOK
<1>4. ASSUME NEW cs, NEW to \in Moves, MoveGroup(cs, to)
      PROVE  PeopleInv'
  BY <1>1, <1>4, MoveTyped DEF MoveGroup, PeopleInv, LoansOK
<1>5. ASSUME NEW c \in Codes, DeleteEmployee(c)
      PROVE  PeopleInv'
  BY <1>1, <1>5, DeleteTyped DEF DeleteEmployee, PeopleInv, LoansOK
<1>6. ASSUME NEW c \in Codes, TakeBack(c)
      PROVE  PeopleInv'
  BY <1>1, <1>6 DEF TakeBack, PeopleInv, LoansOK, Opt
<1>7. ASSUME NEW c \in Codes, NEW m \in Machines, Lend(c, m)
      PROVE  PeopleInv'
  BY <1>1, <1>7 DEF Lend, PeopleInv, LoansOK, Opt
<1>8. ASSUME NEW book \in Workbooks, ImportExcel(book)
      PROVE  PeopleInv'
  BY <1>1, <1>8, ImportTyped DEF ImportExcel, PeopleInv, LoansOK
<1>9. ASSUME NEW j \in Jobs, ApplySync(j)
      PROVE  PeopleInv'
  <2>1. staff' = SyncRows(jobs[j].source, staff).dir
    BY <1>9 DEF ApplySync
  <2>2. jobs[j].source \in Sources
    BY <1>9, WrittenJob DEF ApplySync, TypeInv
  <2>3. SyncRows(jobs[j].source, staff).dir \in Dirs
    BY <1>1, <2>2, SyncEffect DEF Acc
  <2> QED
    BY <1>1, <1>9, <2>1, <2>3 DEF ApplySync, PeopleInv, LoansOK
<1>10. CASE UNCHANGED <<staff, lent>>
  BY <1>1, <1>10 DEF PeopleInv, LoansOK
<1> QED
  BY <1>2, <1>3, <1>4, <1>5, <1>6, <1>7, <1>8, <1>9, <1>10
  DEF DirectoryNext, SourceChanges, Fetch, StorePreview, TakePreview, GiveUp, ChangeLogin,
      PreviewSeed, ImportSeed, ChangeKind
\* Jobs hold sources, and no more previews are kept than allowed.
LEMMA SyncStep ==
  ASSUME TypeInv, DirectoryNext
  PROVE  SyncInv'
<1>1. /\ source \in Sources /\ jobs \in [Jobs -> {Idle} \cup Job]
      /\ previews \in [made : Nat, kept : Seq(Preview)]
  BY DEF TypeInv, SyncInv
<1>2. MaxPreviews \in Nat /\ Len(previews.kept) <= MaxPreviews
  BY SourcesOK DEF TypeInv, SyncInv
<1>3. previews.kept \in Seq(Preview) /\ previews.made \in Nat
  BY <1>1
<1>4. ASSUME NEW j \in Jobs, NEW pc \in {"preview", "apply"}, NEW id \in Nat, Fetch(j, pc, id)
      PROVE  SyncInv'
  <2>1. [pc |-> pc, source |-> source, id |-> id] \in Job
    BY <1>1 DEF Job
  <2> QED
    BY <1>1, <1>2, <1>4, <2>1 DEF Fetch, SyncInv
<1>5. ASSUME NEW j \in Jobs, NEW p \in ToSet(previews.kept)
      PROVE  p.id \in Nat
  <2>1. p \in Preview
    BY <1>3 DEF ToSet
  <2> QED
    BY <2>1 DEF Preview
<1>6. ASSUME NEW j \in Jobs, StorePreview(j)
      PROVE  SyncInv'
  <2> DEFINE p == [id |-> previews.made + 1, source |-> jobs[j].source,
                   local |-> Local(staff), others |-> Others(staff)]
             all == Append(previews.kept, p)
  <2>1. jobs[j] \in [pc : {"preview", "apply"}, source : Sources, id : Nat]
    BY <1>1, <1>6 DEF StorePreview, Idle, Job, Writing
  <2>2. Local(staff) \subseteq Codes \X [name : Text, email : Text, azure : Text]
    <3>1. staff \in Dirs
      BY DEF TypeInv, PeopleInv
    <3>2. \A c \in DOMAIN staff : c \in Codes /\ staff[c] \in Employee
      BY <3>1, DirFacts
    <3>3. \A c \in DOMAIN staff : Synced(staff[c]) \in [name : Text, email : Text, azure : Text]
      BY <3>2 DEF Synced, Employee
    <3> QED
      BY <3>2, <3>3 DEF Local
  <2>3. Others(staff) \subseteq Codes
    <3>1. staff \in Dirs
      BY DEF TypeInv, PeopleInv
    <3> QED
      BY <3>1, DirFacts DEF Others
  <2>4. jobs[j].source \in Sources
    BY <2>1
  <2>5. p \in Preview
    BY <1>3, <2>2, <2>3, <2>4 DEF Preview
  <2> HIDE DEF p
  <2>6. all \in Seq(Preview) /\ Len(all) <= MaxPreviews + 1
    BY <1>2, <1>3, <2>5
  <2> HIDE DEF all
  <2>7. Trimmed(all) \in Seq(Preview) /\ Len(Trimmed(all)) <= MaxPreviews
    BY <1>2, <2>6 DEF Trimmed
  <2>8. previews' = [made |-> previews.made + 1, kept |-> Trimmed(all)]
    BY <1>6 DEF StorePreview, all, p
  <2>9. previews' \in [made : Nat, kept : Seq(Preview)] /\ Len(previews'.kept) <= MaxPreviews
    BY <1>3, <2>7, <2>8
  <2> QED
    BY <1>1, <1>6, <2>9 DEF StorePreview, SyncInv
<1>7. ASSUME NEW j \in Jobs, ApplySync(j)
      PROVE  SyncInv'
  <2> DEFINE kept == Without(previews.kept, jobs[j].id)
  <2>6. previews' = [made |-> previews.made, kept |-> kept]
    BY <1>1, <1>7 DEF ApplySync
  <2>5. kept \in Seq(Preview) /\ Len(kept) <= Len(previews.kept)
    BY <1>3, WithoutType
  <2>7. kept \in Seq(Preview) /\ Len(kept) <= MaxPreviews
    BY <1>2, <1>3, <2>5
  <2> HIDE DEF kept
  <2>8. previews' \in [made : Nat, kept : Seq(Preview)] /\ Len(previews'.kept) <= MaxPreviews
    BY <1>3, <2>6, <2>7
  <2> QED
    BY <1>1, <1>7, <2>8 DEF ApplySync, SyncInv
<1>8. ASSUME NEW j \in Jobs, GiveUp(j)
      PROVE  SyncInv'
  BY <1>1, <1>2, <1>8 DEF GiveUp, SyncInv
<1>9. CASE ChangeLogin
  <2>1. previews' = [made |-> previews.made, kept |-> <<>>]
    BY <1>1, <1>9 DEF ChangeLogin
  <2>2. previews' \in [made : Nat, kept : Seq(Preview)] /\ Len(previews'.kept) <= MaxPreviews
    BY <1>2, <1>3, <2>1
  <2> QED
    BY <1>1, <1>9, <2>2 DEF ChangeLogin, SyncInv
<1>10. ASSUME NEW rows \in Sources, SourceChanges(rows)
       PROVE  SyncInv'
  BY <1>1, <1>2, <1>10 DEF SourceChanges, SyncInv
<1>11. CASE UNCHANGED <<source, previews, jobs>>
  BY <1>1, <1>2, <1>11 DEF SyncInv
<1>12. ASSUME NEW j \in Jobs, TakePreview(j)
       PROVE  SyncInv'
  <2>1. PICK p \in ToSet(previews.kept) : jobs' = [jobs EXCEPT ![j] = Writing(p)]
    BY <1>12 DEF TakePreview
  <2>2. p \in Preview
    BY <1>3, <2>1 DEF ToSet
  <2>3. Writing(p) \in Job
    BY <2>2 DEF Job
  <2> QED
    BY <1>1, <1>2, <1>12, <2>1, <2>3 DEF TakePreview, SyncInv
<1> QED
  BY <1>4, <1>5, <1>6, <1>7, <1>8, <1>9, <1>10, <1>11, <1>12
  DEF DirectoryNext, KeepRest, CreateEmployee, UpdateEmployee, MoveGroup, DeleteEmployee, TakeBack,
      Lend, ImportExcel, PreviewSeed, ImportSeed, ChangeKind

\* Assets are made for the machines that snapshots name.
LEMMA SeedStep ==
  ASSUME TypeInv, DirectoryNext
  PROVE  SeedInv'
<1>1. staff \in Dirs /\ assets \subseteq Range(AssetOf) /\ snapshots \in Seq(Snapshot)
  BY DEF TypeInv, PeopleInv, SeedInv
<1>2. ASSUME NEW a \in Accounts, PreviewSeed(a)
      PROVE  SeedInv'
  <2>1. ValidRows(staff) \subseteq Codes \X Range(AssetOf)
    BY <1>1, DirFacts DEF ValidRows, Named, Range
  <2>2. [by |-> a, rows |-> ValidRows(staff)] \in Snapshot
    BY <2>1 DEF Snapshot
  <2> QED
    BY <1>1, <1>2, <2>2 DEF PreviewSeed, SeedInv
<1>3. ASSUME NEW a \in Accounts, NEW i \in DOMAIN snapshots, ImportSeed(a, i)
      PROVE  SeedInv'
  <2>1. snapshots[i] \in Snapshot
    BY <1>1
  <2>2. \A r \in snapshots[i].rows : r[2] \in Range(AssetOf)
    BY <2>1 DEF Snapshot
  <2> QED
    BY <1>1, <1>3, <2>2 DEF ImportSeed, SeedInv
<1>4. CASE UNCHANGED <<assets, snapshots>>
  BY <1>1, <1>4 DEF SeedInv
<1> QED
  BY <1>2, <1>3, <1>4
  DEF DirectoryNext, KeepRest, CreateEmployee, UpdateEmployee, MoveGroup, DeleteEmployee, TakeBack,
      Lend, ImportExcel, SourceChanges, Fetch, StorePreview, TakePreview, ApplySync, GiveUp,
      ChangeLogin, ChangeKind
\* The invariant holds of every initial state.
LEMMA TypeInit ==
  ASSUME DirectoryInit
  PROVE  TypeInv
<1>1. staff \in Dirs
  BY DirectoriesOK DEF DirectoryInit, Dirs
<1>2. PeopleInv
  BY <1>1 DEF DirectoryInit, PeopleInv, Opt
<1>3. SyncInv
  BY SourcesOK DEF DirectoryInit, SyncInv
<1>4. SeedInv
  BY DEF DirectoryInit, SeedInv
<1> QED
  BY <1>2, <1>3, <1>4 DEF TypeInv

\* Every step keeps the invariant, stuttering ones included.
LEMMA TypeStep ==
  ASSUME TypeInv, [DirectoryNext]_directoryVars
  PROVE  TypeInv'
<1>1. CASE DirectoryNext
  BY <1>1, PeopleStep, SyncStep, SeedStep DEF TypeInv
<1>2. CASE UNCHANGED directoryVars
  BY <1>2 DEF directoryVars, TypeInv, PeopleInv, SyncInv, SeedInv
<1> QED
  BY <1>1, <1>2

\* The directory is one in every reachable state.
LEMMA TypeAlways == DirectorySpec => []TypeInv
<1> QED
  BY TypeInit, TypeStep, PTL DEF DirectorySpec

\* No two employees share an email, all hold machines or codes taken for machines, no
\* more previews are kept than allowed, and assets come from machines of the directory.
THEOREM DirectoryTypes == DirectorySpec => []DirectoryTypeOK
<1>1. ASSUME TypeInv
      PROVE  DirectoryTypeOK
  <2>1. staff \in Dirs
    BY <1>1 DEF TypeInv, PeopleInv
  <2>2. DOMAIN staff \subseteq Codes
    BY <2>1, DirFacts
  <2>3. ASSUME NEW c \in DOMAIN staff
        PROVE  /\ staff[c].group \in Groups /\ staff[c].floating \in BOOLEAN
               /\ {staff[c].pc1, staff[c].pc2} \subseteq Opt(Machines \cup Codes \cup {""})
               /\ ~Taken(staff, c, staff[c].email)
    <3>1. staff[c] \in Employee
      BY <2>1, DirFacts
    <3>2. ~Taken(staff, c, staff[c].email)
      BY <2>1 DEF Dirs, Unique
    <3> QED
      BY <3>1, <3>2 DEF Employee, Machine, Opt
  <2>4. Len(previews.kept) <= MaxPreviews
    BY <1>1 DEF TypeInv, SyncInv
  <2>5. \A j \in Jobs : jobs[j] # Idle =>
          jobs[j].pc \in {"preview", "apply", "write"} /\ jobs[j].source \in Sources
    <3>1. \A j \in Jobs : jobs[j] # Idle => jobs[j] \in Job
      BY <1>1 DEF TypeInv, SyncInv
    <3>2. \A p \in Preview : Writing(p).pc = "write" /\ Writing(p).source \in Sources
      BY DEF Writing, Preview
    <3> QED
      BY <3>1, <3>2 DEF Job
  <2>6. assets \subseteq Range(AssetOf)
    BY <1>1 DEF TypeInv, SeedInv
  <2> QED
    BY <2>2, <2>3, <2>4, <2>5, <2>6 DEF DirectoryTypeOK
<1> QED
  BY <1>1, TypeAlways, PTL

-----------------------------------------------------------------------------
(* What an applied synchronisation writes. *)

\* Only the application of a preview changes employees and ends its request.
LEMMA WhoApplies ==
  ASSUME TypeInv, [DirectoryNext]_directoryVars, NEW j \in Jobs, Applies(j)
  PROVE  LET p == jobs[j].shown IN
         /\ NotChangedSince(p) /\ p.source = jobs[j].source /\ p.source \in Sources
         /\ Conflicts(p.source, staff) = {}
         /\ \A c \in Codes : AfterRows(p.source, staff, Len(p.source), c, staff')
<1>1. /\ jobs[j].pc = "write" /\ jobs'[j] = Idle /\ staff' # staff /\ jobs[j] # Idle
      /\ jobs \in [Jobs -> {Idle} \cup Job]
  BY DEF Applies, Idle, TypeInv, SyncInv
<1>2. ApplySync(j)
  <2>1. ASSUME NEW k \in Jobs, ApplySync(k)
        PROVE  ApplySync(j)
    BY <1>1, <2>1 DEF ApplySync
  <2>2. staff' # staff /\ jobs' # jobs
    BY <1>1
  <2> QED
    BY <2>1, <2>2
    DEF DirectoryNext, directoryVars, KeepRest, CreateEmployee, UpdateEmployee, MoveGroup,
        DeleteEmployee, TakeBack, Lend, ImportExcel, SourceChanges, Fetch, StorePreview,
        TakePreview, GiveUp, ChangeLogin, PreviewSeed, ImportSeed, ChangeKind
<1>3. /\ NotChangedSince(jobs[j].shown) /\ Conflicts(jobs[j].source, staff) = {}
      /\ SyncRows(jobs[j].source, staff).ok /\ staff' = SyncRows(jobs[j].source, staff).dir
  BY <1>2 DEF ApplySync
<1>4. jobs[j].source \in Sources /\ jobs[j].shown.source = jobs[j].source
  BY <1>1, WrittenJob DEF TypeInv
<1>5. staff \in Dirs
  BY DEF TypeInv, PeopleInv
<1>6. \A c \in Codes : AfterRows(jobs[j].source, staff, Len(jobs[j].source), c, staff')
  BY <1>3, <1>4, <1>5, SyncEffect
<1> QED
  BY <1>3, <1>4, <1>6

\* Rows of a source.
LEMMA SourceFacts ==
  ASSUME NEW rows \in Sources
  PROVE  /\ Len(rows) \in Nat /\ ToSet(rows) = {rows[i] : i \in 1..Len(rows)}
         /\ \A i \in 1..Len(rows) : rows[i].code \in Codes
         /\ \A i, k \in 1..Len(rows) : rows[i].code = rows[k].code => i = k
<1>1. rows \in Seq(Rec) /\ \A i, k \in DOMAIN rows : rows[i].code = rows[k].code => i = k
  BY SourcesOK DEF Rec
<1>2. DOMAIN rows = 1..Len(rows) /\ Len(rows) \in Nat /\ \A i \in 1..Len(rows) : rows[i] \in Rec
  BY <1>1
<1>3. \A i \in 1..Len(rows) : rows[i].code \in Codes
  BY <1>2 DEF Rec
<1>4. ToSet(rows) = {rows[i] : i \in 1..Len(rows)}
  BY <1>2 DEF ToSet
<1> QED
  BY <1>1, <1>2, <1>3, <1>4

\* An applied synchronisation changes only what its preview showed, and keeps the rest.
THEOREM SyncOverwritesOnlyTheSeen == DirectorySpec => SyncOverwritesNothingUnseen
<1> DEFINE Body == \A j \in Jobs : Applies(j) =>
             LET p == jobs[j].shown IN \A c \in Codes :
               IF c \in DOMAIN staff
               THEN staff'[c] = staff[c] \/ ( /\ <<c, Synced(staff[c])>> \in p.local
                                             /\ Unsynced(staff'[c]) = Unsynced(staff[c]))
               ELSE c \in DOMAIN staff' =>
                      /\ c \notin p.others /\ \A l \in p.local : l[1] # c
                      /\ \E r \in ToSet(p.source) : r.code = c /\ Row(r) = Synced(staff'[c])
<1>1. ASSUME TypeInv, [DirectoryNext]_directoryVars
      PROVE  Body
  <2>1. SUFFICES ASSUME NEW j \in Jobs, Applies(j)
                 PROVE  LET p == jobs[j].shown IN \A c \in Codes :
                   IF c \in DOMAIN staff
                   THEN staff'[c] = staff[c] \/ ( /\ <<c, Synced(staff[c])>> \in p.local
                                                 /\ Unsynced(staff'[c]) = Unsynced(staff[c]))
                   ELSE c \in DOMAIN staff' =>
                          /\ c \notin p.others /\ \A l \in p.local : l[1] # c
                          /\ \E r \in ToSet(p.source) : r.code = c /\ Row(r) = Synced(staff'[c])
    OBVIOUS
  <2> DEFINE p == jobs[j].shown
  <2>2. /\ NotChangedSince(p) /\ p.source \in Sources
        /\ Conflicts(p.source, staff) = {}
        /\ \A c \in Codes : AfterRows(p.source, staff, Len(p.source), c, staff')
    BY <1>1, <2>1, WhoApplies
  <2>3. p.local = Local(staff) /\ p.others = Others(staff)
    BY <2>2 DEF NotChangedSince
  <2> SUFFICES ASSUME NEW c \in Codes
               PROVE  IF c \in DOMAIN staff
                      THEN staff'[c] = staff[c] \/ ( /\ <<c, Synced(staff[c])>> \in Local(staff)
                                                    /\ Unsynced(staff'[c]) = Unsynced(staff[c]))
                      ELSE c \in DOMAIN staff' =>
                             /\ c \notin Others(staff) /\ \A l \in Local(staff) : l[1] # c
                             /\ \E r \in ToSet(p.source) : r.code = c /\ Row(r) = Synced(staff'[c])
    BY <2>2, <2>3
  <2> DEFINE rows == p.source
  <2>4. AfterRows(rows, staff, Len(rows), c, staff')
    BY <2>2
  <2> HIDE DEF rows
  <2>5. \A i \in 1..Len(rows) : rows[i] \in ToSet(rows)
    BY <2>2, SourceFacts DEF rows
  <2>6. CASE \A k \in 1..Len(rows) : rows[k] \in Differs(rows, staff) => rows[k].code # c
    BY <2>4, <2>6 DEF AfterRows
  <2>7. ASSUME NEW k \in 1..Len(rows), rows[k] \in Differs(rows, staff), rows[k].code = c
        PROVE  IF c \in DOMAIN staff
               THEN staff'[c] = staff[c] \/ ( /\ <<c, Synced(staff[c])>> \in Local(staff)
                                             /\ Unsynced(staff'[c]) = Unsynced(staff[c]))
               ELSE c \in DOMAIN staff' =>
                      /\ c \notin Others(staff) /\ \A l \in Local(staff) : l[1] # c
                      /\ \E r \in ToSet(rows) : r.code = c /\ Row(r) = Synced(staff'[c])
    <3>1. /\ c \in DOMAIN staff' /\ Synced(staff'[c]) = Row(rows[k])
          /\ Unsynced(staff'[c]) = Unsynced(Old(staff, c))
      BY <2>4, <2>7 DEF AfterRows
    <3>2. CASE c \in DOMAIN staff
      <4>1. c \notin Others(staff)
        BY <2>2, <2>5, <2>7 DEF Conflicts, rows
      <4>2. <<c, Synced(staff[c])>> \in Local(staff)
        BY <3>2, <4>1 DEF Local, Others
      <4> QED
        BY <3>1, <3>2, <4>2 DEF Old
    <3>3. CASE c \notin DOMAIN staff
      <4>1. c \notin Others(staff) /\ \A l \in Local(staff) : l[1] # c
        BY <3>3 DEF Local, Others
      <4> QED
        BY <2>5, <2>7, <3>1, <3>3, <4>1
    <3> QED
      BY <3>2, <3>3
  <2> QED
    BY <2>6, <2>7 DEF rows
<1>2. SyncOverwritesNothingUnseen <=> [][Body]_directoryVars
  BY DEF SyncOverwritesNothingUnseen
<1> HIDE DEF Body
<1> QED
  BY <1>1, <1>2, TypeAlways, PTL DEF DirectorySpec

\* After a synchronisation every row of the source stands in the directory.
THEOREM SyncSettlesTheList == DirectorySpec => SyncSettles
<1> DEFINE Body == \A j \in Jobs : Applies(j) =>
             \A r \in ToSet(jobs[j].source) : r.code \in DOMAIN staff' /\ Synced(staff'[r.code]) = Row(r)
<1>1. ASSUME TypeInv, [DirectoryNext]_directoryVars
      PROVE  Body
  <2>1. SUFFICES ASSUME NEW j \in Jobs, Applies(j), NEW r \in ToSet(jobs[j].source)
                 PROVE  r.code \in DOMAIN staff' /\ Synced(staff'[r.code]) = Row(r)
    OBVIOUS
  <2> DEFINE rows == jobs[j].source
  <2>2. /\ NotChangedSince(jobs[j].shown) /\ rows \in Sources
        /\ \A c \in Codes : AfterRows(rows, staff, Len(rows), c, staff')
    BY <1>1, <2>1, WhoApplies
  <2>3. rows = jobs[j].source /\ rows \in Sources
    BY <2>2
  <2> HIDE DEF rows
  <2>4. PICK i \in 1..Len(rows) : r = rows[i]
    BY <2>1, <2>3, SourceFacts
  <2>5. r.code \in Codes
    BY <2>3, <2>4, SourceFacts
  <2>6. AfterRows(rows, staff, Len(rows), r.code, staff')
    BY <2>2, <2>5 DEF rows
  <2>7. CASE r \in Differs(rows, staff)
    BY <2>4, <2>6, <2>7 DEF AfterRows
  <2>8. CASE r \notin Differs(rows, staff)
    <3>1. <<r.code, Row(r)>> \in Local(staff)
      BY <2>1, <2>3, <2>8 DEF Differs
    <3>2. r.code \in DOMAIN staff /\ Synced(staff[r.code]) = Row(r)
      BY <3>1 DEF Local
    <3>3. \A k \in 1..Len(rows) : rows[k] \in Differs(rows, staff) => rows[k].code # r.code
      BY <2>3, <2>4, <2>8, SourceFacts
    <3> QED
      BY <2>6, <3>2, <3>3 DEF AfterRows
  <2> QED
    BY <2>7, <2>8
<1>2. SyncSettles <=> [][Body]_directoryVars
  BY DEF SyncSettles
<1> HIDE DEF Body
<1> QED
  BY <1>1, <1>2, TypeAlways, PTL DEF DirectorySpec

\* An import makes no second employee for a person whose email it knows, and moves
\* nobody who is in the directory unless it was told a group.
THEOREM ImportsKeepPersonsApart == DirectorySpec => ImportsFindThePerson
<1> DEFINE Body == \A book \in Workbooks : ImportExcel(book) =>
             /\ \A r \in RowsOf(book), d \in DOMAIN staff :
                  /\ r.code \in DOMAIN staff' \ DOMAIN staff /\ r.email # None
                  /\ \A q \in RowsOf(book) : q.code = r.code => q.email = r.email
                  => {staff[d].email, staff'[d].email} # {r.email}
             /\ book.forced = None => \A d \in DOMAIN staff : staff'[d].group = staff[d].group
<1>1. ASSUME TypeInv
      PROVE  Body
  <2>1. PeopleInv
    BY <1>1 DEF TypeInv
  <2> SUFFICES ASSUME NEW book \in Workbooks, ImportExcel(book)
               PROVE  /\ \A r \in RowsOf(book), d \in DOMAIN staff :
                           /\ r.code \in DOMAIN staff' \ DOMAIN staff /\ r.email # None
                           /\ \A q \in RowsOf(book) : q.code = r.code => q.email = r.email
                           => {staff[d].email, staff'[d].email} # {r.email}
                      /\ book.forced = None => \A d \in DOMAIN staff : staff'[d].group = staff[d].group
    OBVIOUS
  <2>2. staff' = ImportSheets(book, UsedSheets(book), staff)
    BY DEF ImportExcel
  <2>3. book.forced = None => \A d \in DOMAIN staff : staff'[d].group = staff[d].group
    BY <2>1, <2>2, ImportKeepsGroups
  <2>4. ASSUME NEW r \in RowsOf(book), NEW d \in DOMAIN staff,
               r.code \in DOMAIN staff' \ DOMAIN staff, r.email # None,
               \A q \in RowsOf(book) : q.code = r.code => q.email = r.email,
               staff[d].email = r.email
        PROVE  staff'[d].email # r.email
    <3>1. staff' \in Dirs
      BY <2>1, <2>2, ImportTyped
    <3>2. r.code \in Codes \ DOMAIN staff
      BY <2>4, <3>1, DirFacts
    <3>3. r.code \in DOMAIN ImportSheets(book, UsedSheets(book), staff)
      BY <2>2, <2>4
    <3> QED
      BY <2>1, <2>2, <2>4, <3>2, <3>3, ImportFinds
  <2> QED
    BY <2>3, <2>4
<1>2. ImportsFindThePerson <=> [][Body]_directoryVars
  BY DEF ImportsFindThePerson
<1> HIDE DEF Body
<1> QED
  BY <1>1, <1>2, TypeAlways, PTL DEF DirectorySpec
=============================================================================
