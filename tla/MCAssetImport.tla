---------------------------- MODULE MCAssetImport ----------------------------
(* Instances of AssetImport for TLC: five workbooks. *)
EXTENDS AssetImport, TLC

\* Two laptops of one owner, below a title row, with the name column doubled.
Owned == << <<"title">>,
            <<"assetcode", "category", "displayname", "serialnumber", "staffid">>,
            <<"C1", "laptop", "n1", "S1", "K1">>,
            <<"C2", "laptop", "n1", "S1", "">> >>
\* Cables by number.
Counted == << <<"category", "name", "quantity">>, <<"cable", "n1", "1">> >>
\* A sheet of the old kind, whose number is not a code.
Old == << <<"assetid", "category", "computername">>, <<"1", "laptop", "ASWC2">> >>
\* People, not assets.
Staff == << <<"staffid", "fullname">>, <<"K1", "n1">> >>
\* No category column.
Bare == << <<"name", "quantity">>, <<"n1", "2">> >>

MCBooks == {<<Owned>>, <<Counted>>}
MCFiles == MCBooks \cup {<<Old>>, <<Staff, Counted>>, <<Bare>>, <<Bare, Counted>>}

MCChosen == {NoMapping, [NoMapping EXCEPT !["displayName"] = "serialnumber"]}

\* Every cell of the workbooks.
Cells == UNION {UNION {UNION {ToSet(row) : row \in ToSet(sheet)} : sheet \in ToSet(book)} : book \in MCFiles}
           \cup {""}
MCNameCode == [k \in Cells \X Cells |-> ""]
MCLegacyCode == [k \in Cells \X Cells \X Cells |-> IF k[2] = "ASWC2" THEN "C2" ELSE ""]
MCIdOf == [p \in People |-> IF p = "p1" THEN "K1" ELSE "K2"]
MCDigitsOf == [p \in People |-> "D1"]
MCAliasDigits == [k \in {"K1"} |-> "D1"]
MCCanonical == [c \in Codes |-> "C1"]
MCMetaFiles == {<<[tag |-> "C1", brand |-> "B1", serial |-> ""]>>,
                <<[tag |-> "C1", brand |-> "B1", serial |-> ""],
                  [tag |-> "C2", brand |-> "", serial |-> "S2"]>>}
=============================================================================
