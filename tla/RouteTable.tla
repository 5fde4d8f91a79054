------------------------------ MODULE RouteTable ------------------------------
(***************************************************************************)
(* What routes.json promises (src/exposure/expose.hpp: "the single source  *)
(* of truth for the proxy", "full-rebuild + atomic swap semantics"): the   *)
(* routes are one table, which a command changes for one host in one step, *)
(* or not at all.  The promise is given as long as no two commands change  *)
(* the file at the same time and every write is whole; what happens after  *)
(* that is left open.                                                      *)
(***************************************************************************)
CONSTANTS Host,     \* host names, as given to `hostely expose`
          Target,   \* what a route leads to: container, port and tls flag
          None      \* no route

VARIABLES table,    \* the route of every host, or None
          spoilt    \* two commands overlapped, or a write was cut short

Init == table \in [Host -> Target \union {None}] /\ spoilt = FALSE

Add(h, t) == /\ ~spoilt
             /\ table' = [table EXCEPT ![h] = t]
             /\ UNCHANGED spoilt

Remove(h) == /\ ~spoilt /\ table[h] # None
             /\ table' = [table EXCEPT ![h] = None]
             /\ UNCHANGED spoilt

Spoil == spoilt' = TRUE /\ table' = [h \in Host |-> None]

Next == \/ \E h \in Host : Remove(h) \/ \E t \in Target : Add(h, t)
        \/ Spoil

Spec == Init /\ [][Next]_<<table, spoilt>>

===============================================================================
