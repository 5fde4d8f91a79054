----------------------------- MODULE MCServeLock -----------------------------
(***************************************************************************)
(* Instances of ServeLock for TLC: three repositories with a file of the   *)
(* same name, two of them of the same size.                                *)
(***************************************************************************)
EXTENDS ServeLockProps

CONSTANTS r1, r2, r3, f1, f2

Entry(f, g, q, n) == [file |-> f, gguf |-> g, quant |-> q, size |-> n]

Listings == [r \in Repo |->
    IF r = r1 THEN <<Entry(f2, FALSE, "none", 3), Entry(f1, TRUE, "Q4", 2)>>
    ELSE <<Entry(f1, TRUE, "Q4", IF r = r2 THEN 1 ELSE 2)>>]

Lengths == [r \in Repo |-> [f \in {f1} |-> IF r = r2 THEN 1 ELSE 2]]
Same    == [r \in Repo |-> r]

\* A quantisation both have, one they have not, and a file by its path.
Operands == {[kind |-> "repo-quant", repo |-> r1, quant |-> "Q4", file |-> None],
             [kind |-> "repo-quant", repo |-> r2, quant |-> "Q8", file |-> None],
             [kind |-> "repo-file",  repo |-> r3, quant |-> "",   file |-> f1]}

\* The model of r1 may be there already.
Pulled == {FromListing([repo |-> r1], Listing[r1][2])}

\* A stem, a prefix of several stems, and a path.
Names == {[path |-> None, exact |-> <<"repo", r1, "Q4">>, prefix |-> {}],
          [path |-> None, exact |-> None, prefix |-> {<<"repo", r, "Q4">> : r \in Repo}],
          [path |-> f1,   exact |-> None, prefix |-> {}]}

===============================================================================
