----------------------------- MODULE MCRouteProxy -----------------------------
(***************************************************************************)
(* Instances of RouteProxy for TLC: the same name in two spellings.        *)
(***************************************************************************)
EXTENDS RouteProxyProps

CONSTANTS app, App, t1, t2

Fold == [h \in Host |-> app]

\* A route is replaced, or added in another spelling.
Edits == {[host |-> app, target |-> t2], [host |-> App, target |-> t2]}

Tables0 == {<<[host |-> app, target |-> t1], [host |-> App, target |-> t2]>>}

===============================================================================
