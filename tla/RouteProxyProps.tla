--------------------------- MODULE RouteProxyProps ---------------------------
(***************************************************************************)
(* What makes the route store and the proxy's table correct.               *)
(***************************************************************************)
EXTENDS RouteProxy

RoutesByName == [Name -> Target \union {None}]

\* The route of a host in the file.
RouteOf(h) == LET rows == routes_load
                  is   == {i \in DOMAIN rows : rows[i].host = h}
              IN  IF is = {} THEN None ELSE rows[CHOOSE i \in is : TRUE].target

\* routes.json implements the table of RouteTable: through failing calls and
\* kills between any two steps of a save, a reader sees it change for one host
\* at a time and never finds it torn; the promise ends when two commands overlap
\* on the shared temporary file or a write is cut short.
Routes == INSTANCE RouteTable WITH
              table <- [h \in Host |-> IF spoilt THEN None ELSE RouteOf(h)]
StoreIsTable == Routes!Spec

\* A command that reports success without a warning has put its route, or the
\* absence of it, in the file a reader sees, whatever calls fail and commands
\* are killed before it.  `--off' after a failed save ("warned") reports that it
\* removed a route that is still there; a buffered write cut short is reported as
\* a success too, and is `spoilt'.
AckedIsStored ==
    \A c \in Cmd : (InFlight(c) /\ cmd[c].pc = "acked" /\ ~spoilt) =>
        RouteOf(cmd[c].host) = cmd[c].target

\* proxy.cpp: "rebuilt wholesale (atomic swap), never mutated in place".  A name
\* that stays in the file is never answered with 404 because of a reload,
\* whatever commands, reloads and requests interleave.
KeptRouteNeverMissed ==
    \A r \in Req : (req[r] # Free /\ req[r].must) => req[r].answer # "404"

\* README: "auto-reloads the route table every 3s".  When the file stays as it
\* is and the proxy is not stopped, its table becomes that of the file.
ProxyFollowsFile ==
    \A t \in RoutesByName :
        <>[](up /\ ~stop /\ ByHost(routes_load) = t) => <>[](g_routes = t)

===============================================================================
