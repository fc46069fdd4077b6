------------------------------ MODULE AssetSheet ------------------------------
(***************************************************************************)
(* How an asset workbook is read: which row is its header, which column    *)
(* gives which field, how a row becomes a staged asset, and how the file   *)
(* detector routes a workbook to the employee or the asset import.         *)
(*                                                                         *)
(* A sheet is a sequence of rows, a row a sequence of cells.  A header cell *)
(* is its normalised key (lower case, letters and digits); of the aliases  *)
(* that one field has only those that differ in what they do are kept.     *)
(***************************************************************************)
EXTENDS Naturals, FiniteSets, SequencesExt

CONSTANTS
  NameCode,    \* <<type, name>> -> the asset code the name spells out, or ""
  LegacyCode   \* <<type, name, computer>> -> the code of an old "Asset ID" sheet, or ""

None == ""
Numbers == {"1", "2"}
Modes == {"serialized", "quantity"}

\* In the order in which detect_field_mapping tries them.
FieldOrder == <<"assetCode", "assetType", "computerName", "usageLocation",
                "serialNumber", "quantity", "warehouse">>
Fields == ToSet(FieldOrder)
AllFields == Fields \cup {"displayName"}

Aliases == [
  assetCode |-> {"assetcode"}, assetType |-> {"category"},
  computerName |-> {"computername"}, usageLocation |-> {"usagelocation", "location"},
  serialNumber |-> {"serialnumber"}, quantity |-> {"quantity"},
  warehouse |-> {"warehouse", "location"}]
PrimaryNames == {"displayname"}
FallbackNames == {"name"}
OwnerKeys == {"staffid"}
EmployeeNames == {"fullname", "name"}

NoMapping == [f \in AllFields |-> None]
Blank(row) == \A i \in DOMAIN row : row[i] = None
The(S) == CHOOSE x \in S : TRUE
Given(a, b) == IF a # None THEN a ELSE b
\* Of a set of <<score, index>>, the index of the first of the best scores above 0.
Best(scored) == {p[2] : p \in {p \in scored : p[1] > 0 /\ \A q \in scored :
                   q[1] < p[1] \/ (q[1] = p[1] /\ p[2] <= q[2])}}

-----------------------------------------------------------------------------
(* Mapping of columns *)

Indices(headers, keys) == {i \in DOMAIN headers : headers[i] \in keys}
CellAt(row, i) == IF i \in DOMAIN row THEN row[i] ELSE None

FirstOf(headers, is) == IF is = {} THEN None ELSE headers[Min(is)]
FirstHeader(headers, keys) == FirstOf(headers, Indices(headers, keys))

\* A header goes to the first field that is still free and knows it.
AssignHeader(m, h) ==
  LET ps == {p \in DOMAIN FieldOrder : m[FieldOrder[p]] = None /\ h \in Aliases[FieldOrder[p]]}
  IN IF ps = {} THEN m ELSE [m EXCEPT ![FieldOrder[Min(ps)]] = h]

\* The name has a column of its own, or it is the computer's.
WithName(m, headers) ==
  [m EXCEPT !["displayName"] = Given(FirstHeader(headers, PrimaryNames),
                                     Given(FirstHeader(headers, FallbackNames), m["computerName"]))]
DetectMapping(headers) ==
  LET after[i \in 0..Len(headers)] ==
        IF i = 0 THEN NoMapping ELSE AssignHeader(after[i - 1], headers[i])
  IN WithName(after[Len(headers)], headers)

MergeMapping(auto, chosen) == [f \in AllFields |-> Given(chosen[f], auto[f])]

Required(mode) == {"assetType", "displayName"} \cup IF mode = "quantity" THEN {"quantity"} ELSE {}

MappingScore(m) ==
  10 * Cardinality({f \in Required("serialized") : m[f] # None})
  + Cardinality({f \in AllFields \ Required("serialized") : m[f] # None})

-----------------------------------------------------------------------------
(* Header rows and sheets *)

HeaderScore(row) == MappingScore(DetectMapping(row))
HeaderRows(sheet) ==
  Best({<<HeaderScore(sheet[i]), i>> : i \in {i \in DOMAIN sheet : i <= 30 /\ ~Blank(sheet[i])}})

\* The headers of a sheet; <<>> if it has no header row.
RowOf(sheet, is) == IF is = {} THEN <<>> ELSE sheet[The(is)]
Headers(sheet) == RowOf(sheet, HeaderRows(sheet))

\* The sheet asked for, or the first of those that map best, if it has a header row.
SelectSheet(book, requested) ==
  Best({<<HeaderScore(Headers(book[s])), s>> :
          s \in {s \in DOMAIN book : requested \in {0, s}}})

\* Headers of one key share a column: the index keeps the last of them.
LastOf(is) == IF is = {} THEN 0 ELSE Max(is)
Column(headers, key) == IF key = None THEN 0 ELSE LastOf(Indices(headers, {key}))

Value(headers, row, key) == CellAt(row, Column(headers, key))

\* find_value_by_header_alias takes the first column instead.
OwnerCell(row, is) == IF is = {} THEN None ELSE CellAt(row, Min(is))
OwnerValue(headers, row) == OwnerCell(row, Indices(headers, OwnerKeys))

-----------------------------------------------------------------------------
(* Rows *)

\* An old sheet: a column "Asset ID" that has a value in this row.
HasLegacyId(headers, row) ==
  \E i \in DOMAIN headers \cap DOMAIN row : headers[i] = "assetid" /\ row[i] # None

\* The code of the mapped column, else one that the other fields give away; a
\* bare number of an old sheet is not a code.
RowCode(code, fromId, byName, byLegacy, legacy) ==
  LET first == Given(code, IF legacy THEN byLegacy ELSE byName)
      found == IF fromId /\ first \in Numbers THEN byLegacy ELSE first
  IN IF found = None /\ ~legacy THEN byName ELSE found

\* build_row_seed_from_raw_values, and the normalisation of the insert.
StagedRow(headers, row, m) ==
  LET v(f) == Value(headers, row, m[f])
  IN [code |-> RowCode(v("assetCode"), m["assetCode"] = "assetid",
                       NameCode[<<v("assetType"), v("displayName")>>],
                       LegacyCode[<<v("assetType"), v("displayName"), v("computerName")>>],
                       HasLegacyId(headers, row)),
      type |-> v("assetType"), name |-> v("displayName"),
      serial |-> v("serialNumber"), qty |-> v("quantity"), owner |-> OwnerValue(headers, row)]

\* What an import makes of a workbook: the rows to stage, or none if a required
\* column is not there.
StagedRows(headers, data, m, mode) ==
  IF \E f \in Required(mode) : Column(headers, m[f]) = 0 THEN <<>>
  ELSE [i \in DOMAIN data |-> StagedRow(headers, data[i], m)]

RowsBelow(sheet, h) == SelectSeq(SubSeq(sheet, h + 1, Len(sheet)), LAMBDA row : ~Blank(row))

ParseSheet(sheet, h, mode, chosen) ==
  StagedRows(sheet[h], RowsBelow(sheet, h), MergeMapping(DetectMapping(sheet[h]), chosen), mode)

ParseSheets(sheets, mode, chosen) ==
  IF sheets = {} THEN <<>>
  ELSE ParseSheet(The(sheets), The(HeaderRows(The(sheets))), mode, chosen)

ParseBook(book, requested, mode, chosen) ==
  ParseSheets({book[s] : s \in SelectSheet(book, requested)}, mode, chosen)

-----------------------------------------------------------------------------
(* The file detector *)

\* The first row with a match key is the header; it counts with a name in it.
NamesPeople(sheet, is) == is # {} /\ Indices(sheet[Min(is)], EmployeeNames) # {}
EmployeeEvidence(sheet) ==
  NamesPeople(sheet, {i \in DOMAIN sheet : i <= 120 /\ Indices(sheet[i], OwnerKeys) # {}})

\* What the headers of a sheet say: m is the mapping detected for them.
Maps(m, fields) == \A f \in fields : m[f] # None
ExplicitName(headers) == Indices(headers, PrimaryNames \cup FallbackNames) # {}

SerializedEvidence(headers, m) == ExplicitName(headers) /\ Maps(m, {"assetCode", "assetType"})

\* Mutant: the category is not required.
QuantityLoosely(headers, m) ==
  ExplicitName(headers) /\ m["assetCode"] = None /\ Maps(m, {"quantity"})

QuantityEvidence(headers, m) ==
  ExplicitName(headers) /\ m["assetCode"] = None /\ Maps(m, {"assetType", "quantity"})

LegacyEvidence(headers, m) ==
  /\ Maps(m, {"assetType", "displayName"})
  /\ m["computerName"] # None \/ Indices(headers, {"assetid"}) # {}
  /\ ~SerializedEvidence(headers, m) /\ ~QuantityEvidence(headers, m)

Kinds(headers, m) ==
  {k \in {"serialized", "quantity", "legacy"} :
     CASE k = "serialized" -> SerializedEvidence(headers, m)
       [] k = "quantity"   -> QuantityEvidence(headers, m)
       [] k = "legacy"     -> LegacyEvidence(headers, m)}

\* Of each sheet, the kinds of import it has evidence for.
Detections(book) == [s \in DOMAIN book |->
  Kinds(Headers(book[s]), DetectMapping(Headers(book[s])))
    \cup IF EmployeeEvidence(book[s]) THEN {"employee"} ELSE {}]

\* detect_import_ranges: a route only where the whole workbook is of one kind, to the
\* first sheet that has the evidence.
RouteTo(kinds, found) ==
  IF Cardinality(kinds) = 1 /\ kinds \subseteq Modes
  THEN [kind |-> The(kinds), sheet |-> Min({s \in DOMAIN found : kinds \subseteq found[s]})]
  ELSE [kind |-> IF kinds = {} THEN "unknown"
                 ELSE IF kinds = {"employee"} THEN "employee" ELSE "ambiguous",
        sheet |-> 0]

Route(book) == RouteTo(UNION ToSet(Detections(book)), Detections(book))
=============================================================================
