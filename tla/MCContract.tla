----------------------------- MODULE MCContract -----------------------------
(* Small instances of Contract for TLC.                                     *)
EXTENDS Contract

MCProducts == [owner : {"u1"}, name : {"Blue pen", "Desk lamp"}, price : {1, 2},
               category : {"office"}]
              \cup [owner : {"u2"}, name : {"Desk lamp"}, price : {2}, category : {"home"}]

\* Catalogues of up to three products.
MCCatalogues == UNION {[1 .. n -> MCProducts] : n \in 0 .. 3}

MCNbsp == "nbsp"
MCStrings == {"DESK", "e", "tea", MCNbsp}
MCFound == [s \in MCStrings |->
  CASE s = "DESK" -> {"Desk lamp"} [] s = "e" -> {"Blue pen", "Desk lamp"} [] OTHER -> {}]
MCSpaced == [s \in MCStrings \cup {Empty} |-> MCNbsp]

MCLimits == {-1, 0, 1, 2, 9}

MCTokenOwner == [t1 |-> "u1", t2 |-> Nothing]

Absent == [kind |-> "absent"]
Null == [kind |-> "null"]
Other == [kind |-> "other"]
Text(s) == [kind |-> "string", text |-> s, pad |-> "none", escaped |-> FALSE]

MCCategories == {Absent, Null, Other, Text("office"), [Text("home") EXCEPT !.escaped = TRUE]}
MCMaxima == {Absent, Null, Other} \cup Number
MCQs == {Absent, Null, Text("DESK"), Text("tea"), Text("")}
        \cup [kind : {"string"}, text : {"e"}, pad : {"none", "ascii", "wide"}, escaped : BOOLEAN]

MCClients ==
  Items \cup InternalLookup \cup Mine
  \cup [route : {"search"}, top : {"object", "list"}, spooled : {FALSE},
        category : MCCategories, max : MCMaxima]
  \cup [route : {"lookup"}, top : {"object", "list"}, spooled : {FALSE}, q : MCQs]
  \cup [route : {"search"}, top : {"object", "garbled"}, spooled : BOOLEAN,
        category : {Text("office")}, max : {Absent}]
  \cup [route : {"lookup"}, top : {"object", "garbled"}, spooled : BOOLEAN, q : {Text("e")}]
=============================================================================
