---------------------------- MODULE MCLeafLevels ----------------------------
(* Small leaves for LeafLevels. *)
EXTENDS LeafLevels

S(kind, optional) == [kind |-> kind, optional |-> optional]
Make(path, rows, sizes, tidy) ==
    [steps |-> path, rows |-> rows, sizes |-> sizes, nullType |-> FALSE, tidy |-> tidy]
NullTyped(s) == [s EXCEPT !.nullType = TRUE]

\* One REQUIRED and one OPTIONAL column, with the right length and a wrong one.
Flat == {Make(<<S("leaf", o)>>, 2, <<n>>, FALSE) : o \in BOOLEAN, n \in 1 .. 3}
\* Structs: a null struct, a null leaf in a struct, a required one of each.
Structs ==
    {Make(<<S("struct", o), S("leaf", q)>>, 2, <<n, m>>, FALSE) :
       o \in BOOLEAN, q \in BOOLEAN, n \in {2, 3}, m \in {3}}
    \cup {Make(<<S("struct", o), S("leaf", q)>>, 2, <<2, 2>>, FALSE) :
            o \in BOOLEAN, q \in BOOLEAN}
    \cup {Make(<<S("struct", TRUE), S("struct", o), S("leaf", TRUE)>>, 2, <<2, 2, 2>>, FALSE) :
            o \in BOOLEAN}
\* Lists of any offsets: one list, a map, a struct over and under a list.
OneList ==
    {Make(<<S(kind, o), S("leaf", q)>>, 2, <<2, 2>>, FALSE) :
       kind \in {"list", "map"}, o \in BOOLEAN, q \in BOOLEAN}
    \cup {Make(<<S("list", TRUE), S("leaf", TRUE)>>, 2, <<1, 2>>, FALSE)}
\* Nested lists over well-formed arrays, rows of several elements of several.
Nested ==
    {Make(<<S("list", o), S("list", TRUE), S("leaf", q)>>, 2, <<2, 2, 2>>, TRUE) :
       o \in BOOLEAN, q \in BOOLEAN}
    \cup {Make(<<S("list", TRUE), S("struct", o), S("leaf", TRUE)>>, 2, <<2, 2, 2>>, TRUE) :
            o \in BOOLEAN}
    \cup {Make(<<S("struct", TRUE), S("map", TRUE), S("leaf", TRUE)>>, 2, <<2, 2, 2>>, TRUE),
          Make(<<S("list", FALSE), S("list", FALSE), S("leaf", FALSE)>>, 1, <<1, 3, 3>>, TRUE)}
NestedLoose ==
    {Make(<<S("list", TRUE), S("list", FALSE), S("leaf", FALSE)>>, 1, <<1, 1, 2>>, FALSE),
     Make(<<S("list", FALSE), S("struct", FALSE), S("leaf", TRUE)>>, 1, <<1, 1, 1>>, FALSE)}
NullLeaves ==
    {NullTyped(Make(<<S("leaf", TRUE)>>, 2, <<2>>, FALSE)),
     NullTyped(Make(<<S("list", TRUE), S("leaf", TRUE)>>, 2, <<2, 2>>, TRUE))}

\* Nothing to write: no rows, or only empty lists.
Empty ==
    {Make(<<S("leaf", TRUE)>>, 0, <<0>>, FALSE),
     Make(<<S("list", TRUE), S("leaf", TRUE)>>, 0, <<0, 2>>, FALSE),
     Make(<<S("list", TRUE), S("leaf", FALSE)>>, 2, <<2, 0>>, FALSE)}

AllShapes == Empty \cup Flat \cup Structs \cup OneList \cup Nested \cup NestedLoose \cup NullLeaves

\* Lists that may step back across a null one.
BackwardShapes == {Make(<<S("list", TRUE), S("leaf", TRUE)>>, 3, <<3, 2>>, FALSE)}

\* The batch starts at its second element: the column is one element longer.
Longer == {Make(<<S("list", TRUE), S("leaf", TRUE)>>, 2, <<3, 2>>, TRUE),
           Make(<<S("leaf", TRUE)>>, 2, <<3>>, TRUE)}
=============================================================================
