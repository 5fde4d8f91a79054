---------------------------- MODULE MCAppReconcile ----------------------------
(***************************************************************************)
(* Instances of AppReconcile for TLC.                                      *)
(***************************************************************************)
EXTENDS AppReconcileProps

CONSTANTS web, db, v1, v2

\* A web service that depends on its database and is given its address.
Stack(services, webVer, dbVer, dbPort) ==
    [services |-> services,
     deps |-> [s \in Service |-> IF s = web THEN <<db>> ELSE <<>>],
     ver  |-> [s \in Service |-> IF s = web THEN webVer ELSE dbVer],
     port |-> [s \in Service |-> IF s = web THEN 1 ELSE dbPort],
     env  |-> [s \in Service |-> IF s = web THEN db ELSE NoService]]

\* Both services want port 1; both are changed and the database wants another
\* port; the web service is dropped.
Edits == {Stack(<<web, db>>, v1, v1, 1), Stack(<<web, db>>, v2, v2, 2),
          Stack(<<db>>, v1, v1, 1)}

\* topo_sort against its definition, on every dependency graph of three
\* services, unknown dependencies included.
Three  == <<1, 2, 3>>
Lists  == {<<>>} \union {<<x>> : x \in 1 .. 4}
              \union {<<x, y>> : x \in 1 .. 4, y \in 1 .. 4}
Graphs == [1 .. 3 -> Lists]

ASSUME TopoSortIsSort == \A g \in Graphs : IsSortOf(TopoSort(Three, g), Three, g)

===============================================================================
