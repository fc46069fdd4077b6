----------------------------- MODULE SchemaUpgrade -----------------------------
(***************************************************************************)
(* apply_migrations: what each step of the upgrade does to a database.      *)
(*                                                                          *)
(* A database is abstracted to the parts of the schema that releases differ *)
(* in, the Azure AD accounts of three employees (kept under an old and a    *)
(* new field key), the search index, and the writes it holds, split into    *)
(* the main file and the write-ahead log.  The steps are not one            *)
(* transaction: each takes effect by itself, and only the last one stamps   *)
(* the version.                                                             *)
(***************************************************************************)
EXTENDS Naturals, Sequences

SCHEMA_USER_VERSION == 1

Staff == 1..3

\* What releases before the version stamp had, and what the upgrade brings.
OldParts == {"tables", "assetComputerNames", "oldField", "cascade"}
NewTables == {"claims", "policies", "codes"}
NewColumns == {"employeeColumns", "teamColumns", "accountColumns", "assetColumns",
               "importColumns", "requestColumns", "signing", "manual"}
NewRules == {"nullable", "categories", "prefixes", "accounts", "super"}
Required == {"tables"} \cup NewTables \cup NewColumns \cup NewRules

\* The columns signature_status, imported_at and handover_date.
Signing == {"signing"}

Value == {"none", "blank", "a", "b"}
Account == [old : Value, new : Value]
NoAccounts == [e \in Staff |-> [old |-> "none", new |-> "none"]]
OldAccounts == <<[old |-> "a", new |-> "b"], [old |-> "a", new |-> "none"],
                 [old |-> "blank", new |-> "b"]>>

Missing == [file |-> FALSE, sealed |-> TRUE, origin |-> "fresh", version |-> 0, has |-> {},
            azure |-> NoAccounts, index |-> "none", triggers |-> FALSE, main |-> {}, wal |-> {}]
Blank   == [Missing EXCEPT !.file = TRUE]

\* Written by a release without the stamp: before borrowing by hand was possible,
\* and just before the stamp was introduced.
Old    == [Blank EXCEPT !.origin = "old", !.has = OldParts, !.azure = OldAccounts,
                        !.index = "stale", !.triggers = TRUE]
Recent == [Blank EXCEPT !.origin = "recent", !.has = Required, !.index = "full",
                        !.triggers = TRUE]

\* What is in the local folder, and in the shared one.
Sources == {<<Missing, Recent>>, <<Recent, Old>>, <<[Old EXCEPT !.sealed = FALSE], Missing>>}

\* CREATE TABLE IF NOT EXISTS: whole tables of the present schema, where missing.
BaseSchema(d) ==
  [d EXCEPT !.has = @ \cup (IF "tables" \in d.has THEN NewTables
                           ELSE Required \ {"categories", "prefixes", "accounts", "super"})]

With(d, parts) == [d EXCEPT !.has = @ \cup parts]

EmployeeColumns(d) == With(d, {"employeeColumns"})
TeamColumns(d)     == With(d, {"teamColumns"})
AccountColumns(d)  == With(d, {"accountColumns"})
CodesTable(d)      == With(d, {"codes"})
\* The computer names of assets are dropped.
AssetColumns(d)    == [With(d, {"assetColumns"}) EXCEPT !.has = @ \ {"assetComputerNames"}]
ImportColumns(d)   == With(d, {"importColumns"})
Categories(d)      == With(d, {"categories"})
Prefixes(d)        == With(d, {"prefixes"})
RequestColumns(d)  == With(d, {"requestColumns"} \cup Signing)

\* One transaction.  A table whose employee reference is still NOT NULL is rebuilt
\* from a list of columns that does not have the three of Signing.
PhaseC(d) ==
  LET added == With(d, {"manual"} \cup Signing)
  IN With(IF "nullable" \in d.has THEN added
          ELSE [added EXCEPT !.has = (@ \ Signing) \cup {"nullable"}], {"claims"})

RetainItems(d) == [d EXCEPT !.has = @ \ {"cascade"}]
Policies(d)    == With(d, {"policies"})

\* ensure_local_accounts_seed: the default account exists, with the role admin,
\* and is then made super admin.
SeedAccounts(d) == [With(d, {"accounts"}) EXCEPT !.has = @ \ {"super"}]
PromoteAdmin(d) == With(d, {"super"})

Filled(v) == v \notin {"none", "blank"}

\* normalize_legacy_dynamic_field_aliases, five statements.
NewField(d)    == IF "oldField" \in d.has THEN With(d, {"newField"}) ELSE d
MergeValues(d) == [d EXCEPT !.azure = [e \in Staff |->
  IF Filled(@[e].old) /\ @[e].new # "none" THEN [@[e] EXCEPT !.new = d.azure[e].old] ELSE @[e]]]
CopyValues(d)  == [d EXCEPT !.azure = [e \in Staff |->
  IF Filled(@[e].old) /\ @[e].new = "none" THEN [@[e] EXCEPT !.new = d.azure[e].old] ELSE @[e]]]
DropValues(d)  == [d EXCEPT !.azure = [e \in Staff |-> [@[e] EXCEPT !.old = "none"]]]
DropField(d)   == [d EXCEPT !.has = @ \ {"oldField"}]

\* The account an employee is known by: the old one wins over the new one.
Known(d, e) == IF Filled(d.azure[e].old) THEN d.azure[e].old ELSE d.azure[e].new

-----------------------------------------------------------------------------
(* The order of the steps. *)

\* ensure_search_index looks once at what there is.
IndexSteps(d) ==
  LET rebuild == d.index \in {"none", "stale"}
  IN (IF rebuild \/ ~d.triggers THEN <<"dropTriggers">> ELSE <<>>)
     \o (IF rebuild THEN <<"dropIndex", "createIndex", "fillIndex">> ELSE <<>>)
     \o (IF rebuild \/ ~d.triggers THEN <<"createTriggers">> ELSE <<>>)

\* Mutant: the old values go before they are copied.
AliasStepsDropFirst == <<"newField", "mergeValues", "dropValues", "copyValues", "dropField">>

AliasSteps == <<"newField", "mergeValues", "copyValues", "dropValues", "dropField">>

SchemaSteps ==
  <<"base", "employees", "teams", "accounts", "codes", "assets", "imports", "categories",
    "prefixes", "requests">>
  \o <<"relax", "phaseC", "enforce">> \o <<"relax", "retain", "enforce">>
  \o <<"policies", "seed", "promote">>

\* Mutant: the version is stamped once the schema is there.
UpgradeStepsStampEarly(d) ==
  IF d.version < SCHEMA_USER_VERSION
  THEN <<"base", "stamp">> \o Tail(SchemaSteps) \o AliasSteps \o <<"index", "codes">>
  ELSE <<"index", "codes">>

UpgradeSteps(d) ==
  IF d.version < SCHEMA_USER_VERSION
  THEN SchemaSteps \o AliasSteps \o <<"index", "stamp", "codes">>
  ELSE <<"index", "codes">>

\* What a step leaves.  "relax" and "enforce" change the connection only; "index"
\* only looks.
After(step, d) ==
  CASE step = "base"       -> BaseSchema(d)
    [] step = "employees"  -> EmployeeColumns(d)
    [] step = "teams"      -> TeamColumns(d)
    [] step = "accounts"   -> AccountColumns(d)
    [] step = "codes"      -> CodesTable(d)
    [] step = "assets"     -> AssetColumns(d)
    [] step = "imports"    -> ImportColumns(d)
    [] step = "categories" -> Categories(d)
    [] step = "prefixes"   -> Prefixes(d)
    [] step = "requests"   -> RequestColumns(d)
    [] step = "phaseC"     -> PhaseC(d)
    [] step = "retain"     -> RetainItems(d)
    [] step = "policies"   -> Policies(d)
    [] step = "seed"       -> SeedAccounts(d)
    [] step = "promote"    -> PromoteAdmin(d)
    [] step = "newField"   -> NewField(d)
    [] step = "mergeValues" -> MergeValues(d)
    [] step = "copyValues" -> CopyValues(d)
    [] step = "dropValues" -> DropValues(d)
    [] step = "dropField"  -> DropField(d)
    [] step = "dropTriggers"   -> [d EXCEPT !.triggers = FALSE]
    [] step = "dropIndex"      -> [d EXCEPT !.index = "none"]
    [] step = "createIndex"    -> [d EXCEPT !.index = "empty"]
    [] step = "fillIndex"      -> [d EXCEPT !.index = "full"]
    [] step = "createTriggers" -> [d EXCEPT !.triggers = TRUE]
    [] step = "stamp"      -> [d EXCEPT !.version = SCHEMA_USER_VERSION]
    [] OTHER -> d
=============================================================================
