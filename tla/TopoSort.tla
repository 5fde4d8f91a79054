------------------------------- MODULE TopoSort -------------------------------
(***************************************************************************)
(* topo_sort of `hostely app up`: the depth-first order over depends_on in *)
(* which the services of a compose file are started.                       *)
(*                                                                         *)
(* services is the sequence of service names in file order, deps[s] the    *)
(* sequence depends_on of s.  The map state of the code (new, visiting,    *)
(* done) is split in two: a service is done when it is in out, visiting    *)
(* when it is on the path of the recursion.                                *)
(***************************************************************************)
EXTENDS SequencesExt

\* The outcome of topo_sort: the services ordered so far, and whether neither
\* a cycle nor an unknown dependency was met.
SortResult(services) == [out : Seq(ToSet(services)), ok : BOOLEAN]

\* The loop over some names: each call goes on where the one before it left
\* off, an unknown name or a failed call ends it.
VisitAll(names, begin, visit, known, path) ==
    LET after[i \in 0 .. Len(names)] ==
            IF i = 0 THEN begin
            ELSE IF ~after[i - 1].ok THEN after[i - 1]
            ELSE IF names[i] \in known THEN visit[<<after[i - 1], names[i], path>>]
            ELSE [after[i - 1] EXCEPT !.ok = FALSE]
    IN  after[Len(names)]

TopoSort(services, deps) ==
    LET known == ToSet(services)
        visit[x \in SortResult(services) \X known \X SUBSET known] ==
            LET acc   == x[1]
                s     == x[2]
                below == VisitAll(deps[s], acc, visit, known, x[3] \union {s})
            IN  IF s \in ToSet(acc.out) THEN acc
                ELSE IF s \in x[3] THEN [acc EXCEPT !.ok = FALSE]
                ELSE IF below.ok THEN [below EXCEPT !.out = Append(@, s)]
                ELSE below
    IN  VisitAll(services, [out |-> <<>>, ok |-> TRUE], visit, known, {})

\* What the result has to be: the sort succeeds exactly when every dependency
\* is a service of the file and no set of services waits only on itself, and
\* then lists each service once, after the services it depends on.
IsSortOf(result, services, deps) ==
    LET known == ToSet(services)
        Sortable ==
            /\ \A s \in known : ToSet(deps[s]) \subseteq known
            /\ \A W \in (SUBSET known) \ {{}} :
                   \E s \in W : ToSet(deps[s]) \intersect W = {}
    IN  /\ result.ok <=> Sortable
        /\ result.ok =>
              /\ ToSet(result.out) = known /\ Len(result.out) = Cardinality(known)
              /\ \A i \in DOMAIN result.out :
                     \A d \in ToSet(deps[result.out[i]]) :
                         \E j \in 1 .. i - 1 : result.out[j] = d

===============================================================================
