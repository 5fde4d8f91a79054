------------------------------ MODULE RouteProxy ------------------------------
(***************************************************************************)
(* `hostely proxy serve` (src/proxy/proxy.cpp) on top of the route store:  *)
(* the reloader thread, the accept loop and the request threads.           *)
(* The request handlers serve_plain and serve_tls route alike; certificate *)
(* selection is in CertStore.                                              *)
(***************************************************************************)
EXTENDS RouteStore

CONSTANTS Lower,      \* std::tolower of a host name, as a function of Host
          Container,  \* the targets whose container starts and stops
          Req         \* request threads

ASSUME AnswerAssumption == None # "404"

VARIABLES up,         \* the proxy process runs
          stop,       \* g_stop
          reloader,   \* what the reloader thread does next
          loaded,     \* the table it has read and not yet swapped in
          g_routes,   \* the table requests are routed by
          nets,       \* g_container_nets: the containers it knows an address of
          running,    \* containers that run: the targets that can answer
          req         \* request threads

proxy == <<up, stop, reloader, loaded, g_routes, nets, running, req>>
vars  == <<json, tmp, cmd, spoilt, started, faults, up, stop, reloader, loaded,
           g_routes, nets, running, req>>

Name     == {Lower[h] : h \in Host}
NoRoutes == [n \in Name |-> None]

\* RouteTable::by_host: hosts are folded to lower case, and the last row of a
\* name wins.
ByHost(rows) ==
    [n \in Name |-> LET is == {i \in DOMAIN rows : Lower[rows[i].host] = n}
                    IN  IF is = {} THEN None
                        ELSE rows[CHOOSE i \in is : \A j \in is : j <= i].target]

\* refresh_container_nets: `container ls` lists the running containers, and the
\* `status' of each is an object (src/top/sample.cpp reads its fields).  The
\* comparison of that object with "running" throws, the catch swallows it, and
\* the table stays as it was.  Only an empty list gets through.
Refreshed == IF running = {} THEN {} ELSE nets

Free == [pc |-> "free"]

\* proxy_serve up to its loops: the table is read once, before anyone connects.
Start ==
    /\ ~up
    /\ up' = TRUE /\ stop' = FALSE /\ reloader' = "sleep" /\ loaded' = NoRoutes
    /\ g_routes' = ByHost(routes_load)
    /\ nets' = Refreshed
    /\ UNCHANGED <<running, req>> /\ UNCHANGED store

\* Mutant of ReloadRead: the table is emptied before it is built again.
ReloadClears ==
    /\ up /\ reloader = "sleep"
    /\ reloader' = "swap" /\ loaded' = ByHost(routes_load) /\ g_routes' = NoRoutes
    /\ UNCHANGED <<up, stop, nets, running, req>> /\ UNCHANGED store

\* rebuild_routes reads the file without the lock ...
ReloadRead ==
    /\ up /\ reloader = "sleep"
    /\ reloader' = "swap" /\ loaded' = ByHost(routes_load)
    /\ UNCHANGED <<up, stop, g_routes, nets, running, req>> /\ UNCHANGED store

\* Mutant of ReloadSwap: the reloader only runs once.
ReloadOnce ==
    /\ up /\ reloader = "swap"
    /\ reloader' = "done" /\ g_routes' = loaded /\ loaded' = NoRoutes
    /\ UNCHANGED <<up, stop, nets, running, req>> /\ UNCHANGED store

\* ... and swaps the whole table under it.
ReloadSwap ==
    /\ up /\ reloader = "swap"
    /\ reloader' = "refresh" /\ g_routes' = loaded /\ loaded' = NoRoutes
    /\ UNCHANGED <<up, stop, nets, running, req>> /\ UNCHANGED store

\* The loop looks at g_stop only after the refresh.
ReloadRefresh ==
    /\ up /\ reloader = "refresh"
    /\ nets' = Refreshed
    /\ reloader' = IF stop THEN "done" ELSE "sleep"
    /\ UNCHANGED <<up, stop, loaded, g_routes, running, req>> /\ UNCHANGED store

\* SIGINT or SIGTERM: no connection is accepted any more.
Signal ==
    /\ up /\ ~stop /\ stop' = TRUE
    /\ UNCHANGED <<up, reloader, loaded, g_routes, nets, running, req>>
    /\ UNCHANGED store

\* The reloader is joined; the detached request threads end with the process.
Exit ==
    /\ up /\ stop /\ reloader = "done"
    /\ up' = FALSE /\ stop' = FALSE /\ reloader' = "sleep" /\ g_routes' = NoRoutes
    /\ nets' = {} /\ req' = [r \in Req |-> Free]
    /\ UNCHANGED <<loaded, running>> /\ UNCHANGED store

\* Names the table must have for a request that arrives now: those it has and
\* every later table will have unless the file changes.
Standing == {n \in Name : /\ g_routes[n] # None /\ ByHost(routes_load)[n] # None
                          /\ (reloader = "swap" => loaded[n] # None)}

\* A connection is accepted and its request read.  `must' is
\* history: the name has had its route ever since the request arrived.
Arrive(r, n) ==
    /\ up /\ ~stop /\ req[r] = Free
    /\ req' = [req EXCEPT ![r] = [pc |-> "lookup", name |-> n, target |-> None,
                                  answer |-> None, must |-> n \in Standing]]
    /\ UNCHANGED <<up, stop, reloader, loaded, g_routes, nets, running>>
    /\ UNCHANGED store

\* lookup_route.
Lookup(r) ==
    /\ req[r].pc = "lookup"
    /\ LET t == g_routes[req[r].name] IN
       req' = [req EXCEPT ![r].target = t,
                          ![r].pc     = IF t = None THEN "answered" ELSE "target",
                          ![r].answer = IF t = None THEN "404" ELSE None]
    /\ UNCHANGED <<up, stop, reloader, loaded, g_routes, nets, running>>
    /\ UNCHANGED store

\* container_target takes the lock again; a container without an address is
\* "not running", the others answer through proxy_upstream.
Answers(t) == IF t \in nets THEN {"upstream", "405", "unreachable"} ELSE {"notrunning"}
Answer(r) ==
    /\ req[r].pc = "target"
    /\ \E a \in Answers(req[r].target) :
          req' = [req EXCEPT ![r].answer = a, ![r].pc = "answered"]
    /\ UNCHANGED <<up, stop, reloader, loaded, g_routes, nets, running>>
    /\ UNCHANGED store

Close(r) ==
    /\ req[r].pc = "answered" /\ req' = [req EXCEPT ![r] = Free]
    /\ UNCHANGED <<up, stop, reloader, loaded, g_routes, nets, running>>
    /\ UNCHANGED store

\* Containers start and stop outside of this program.
ContainerChange(t) ==
    /\ running' = IF t \in running THEN running \ {t} ELSE running \union {t}
    /\ UNCHANGED <<up, stop, reloader, loaded, g_routes, nets, req>> /\ UNCHANGED store

\* A step of a command; a request forgets that its name stood in the file.
Command ==
    /\ StoreNext
    /\ req' = [r \in Req |->
                 IF req[r] = Free THEN Free
                 ELSE [req[r] EXCEPT !.must = @ /\ ByHost(routes_load')[req[r].name] # None]]
    /\ UNCHANGED <<up, stop, reloader, loaded, g_routes, nets, running>>

Init ==
    /\ StoreInit
    /\ up = FALSE /\ stop = FALSE /\ reloader = "sleep" /\ loaded = NoRoutes
    /\ g_routes = NoRoutes /\ nets = {} /\ running = {}
    /\ req = [r \in Req |-> Free]

Reload == ReloadRead \/ ReloadSwap \/ ReloadRefresh

Next ==
    \/ Command
    \/ Start \/ Reload \/ Signal \/ Exit
    \/ \E r \in Req : \/ \E n \in Name : Arrive(r, n)
                      \/ Lookup(r) \/ Answer(r) \/ Close(r)
    \/ \E t \in Container : ContainerChange(t)

Spec == Init /\ [][Next]_vars

\* The reloader is a thread that only ever sleeps for a bounded time, and main
\* joins it; commands and connections come from outside.
FairSpec == Spec /\ WF_vars(Reload) /\ WF_vars(Exit)

===============================================================================
