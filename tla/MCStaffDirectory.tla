-------------------------- MODULE MCStaffDirectory --------------------------
(* Instances of StaffDirectory for TLC: two staff codes and three machines. *)
EXTENDS StaffDirectory, TLC

Person(name, email, pc1, group) ==
  [name |-> name, email |-> email, azure |-> None, pc1 |-> pc1, pc2 |-> None,
   group |-> group, floating |-> FALSE, life |-> None, ends |-> None]

\* Both in the employee list, or one of them.
MCDirectories ==
  { "E1" :> Person("n1", "m1", None, "employee_list") @@ "E2" :> Person("n2", None, "ASWPC1", "employee_list"),
    "E1" :> Person("n1", "m1", None, "employee_list") }

Rec(code, name, email, azure) == [code |-> code, name |-> name, email |-> email, azure |-> azure]
MCSources == { <<Rec("E1", "n1", "m1", "a1"), Rec("E2", "n2", "m2", None)>>,
               <<Rec("E1", "n1", "m2", None), Rec("E2", "n2", "m1", None)>>,
               <<Rec("E2", "n1", None, None)>> }

Line(code, name, email, pc1) ==
  [code |-> code, name |-> name, email |-> email, pc1 |-> pc1, pc2 |-> None]
Sheet(group, rows) == [group |-> group, rows |-> rows]
Book(rows, columns, forced) ==
  [sheets |-> <<Sheet("onboarding", rows)>>, columns |-> columns, forced |-> forced, asked |-> 0]
\* Two machines of one employee; an unknown code with a known email, and one whose first
\* row has no email; a forced group; two sheets, one of which holds no employees.
MCWorkbooks ==
  { Book(<<Line("E1", "n1", None, "PC1"), Line("E1", None, None, "PC2")>>, {"name", "pc1"}, None),
    Book(<<Line("E2", "n2", "m1", None)>>, {"name"}, None),
    Book(<<Line("E2", "n2", None, None), Line("E2", "n2", "m1", None)>>, {"name", "email"}, None),
    Book(<<Line(None, None, "m1", None), Line("E2", "n2", "m2", None)>>, {"name", "email"}, "offboarding"),
    [Book(<<>>, {"name"}, None) EXCEPT !.sheets = @ \o <<Sheet("employee_list", <<Line("E2", "n1", None, None)>>)>>],
    [Book(<<>>, {"name"}, None) EXCEPT !.asked = 1] }

Form(name, email, pc1, pc2) == [name |-> name, email |-> email, pc1 |-> pc1, pc2 |-> pc2, ends |-> "d1"]
MCForms == {Form("n2", "m1", "PC1", None), Form("n1", None, "", "")}

MCAssetOf == "PC1" :> "A1" @@ "ASWPC1" :> "A1" @@ "PC2" :> "A2"

\* A machine's name without its prefix.
MCStem == "PC1" :> "PC1" @@ "ASWPC1" :> "PC1" @@ "PC2" :> "PC2"

JobSymmetry == Permutations(Jobs)
=============================================================================
