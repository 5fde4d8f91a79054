-------------------------- MODULE TunnelControlProofs --------------------------
(***************************************************************************)
(* Proofs about the control plane of the tunnel: the registry is           *)
(* consistent, a public connection is served by the origin of its host     *)
(* name, and a 502 is never spurious.                                      *)
(***************************************************************************)
EXTENDS TunnelControlProps, TLAPS

\* The origin threads: a thread has a descriptor until it has closed it, and a
\* thread that ends its loop has lost its connection or been told to stop.
Pcs == {"free", "hello", "register", "accepted", "publish", "publishing", "loop",
        "close", "destroy"}
Thread == [pc : Pcs, fd : Fd \union {None}, of : Client \union {None}, dead : BOOLEAN]
ThreadOk(k) ==
    /\ conn[k].fd = None <=> conn[k].pc \in {"free", "destroy"}
    /\ conn[k].pc # "free" => conn[k].of \in Client
    /\ conn[k].pc \in {"close", "destroy"} => conn[k].dead \/ stop
Threads ==
    /\ stop \in BOOLEAN /\ opts \in Options
    /\ conn \in [Conn -> Thread]
    /\ \A k \in Conn : ThreadOk(k)
    /\ \A j, k \in Conn : conn[j].fd = conn[k].fd /\ conn[j].fd # None => j = k

\* The registry: an entry of g_origin_muxes may outlive its descriptor, never
\* its thread.
MuxOf(f, k) ==
    /\ conn[k].pc \in {"loop", "close", "destroy"}
    /\ conn[k].pc # "destroy" => conn[k].fd = f
Registry ==
    /\ g_hosts \in [Host -> Fd \union {None}]
    /\ g_origin_hosts \in [Fd -> SUBSET Host]
    /\ g_origin_muxes \in [Fd -> Conn \union {None}]
    /\ RegistryConsistent
    /\ \A f \in Fd : g_origin_muxes[f] # None => MuxOf(f, g_origin_muxes[f])

\* The public connections between their two lookups, and after.
Request ==
    {NoReq} \union [pc : {"502"}, sure : BOOLEAN]
    \union [pc : {"mux", "open"}, host : Host, fd : Fd \union {None},
            via : Conn \union {None}, sure : BOOLEAN, moved : BOOLEAN]
\* The descriptor still belongs to the thread that had registered the name.
Unmoved(r) ==
    LET f == req[r].fd
    IN  /\ \E k \in Conn : /\ Registered(k) \/ conn[k].pc = "close"
                           /\ conn[k].fd = f /\ HostOfThread(k) = req[r].host
        /\ g_origin_muxes[f] # None /\ MuxOk(g_origin_muxes[f])
              => conn[g_origin_muxes[f]].fd = f
\* The second lookup finds a live Mux.
Sure(r) ==
    LET f == req[r].fd
    IN  /\ f # None /\ g_origin_muxes[f] # None
        /\ conn[g_origin_muxes[f]].fd = f /\ ~conn[g_origin_muxes[f]].dead
        /\ conn[g_origin_muxes[f]].pc \in {"loop", "close"}
        /\ \A j \in Conn : conn[j].pc # "publishing"
RequestOk(r) ==
    /\ req[r].pc = "mux" /\ ~req[r].moved /\ req[r].fd # None => Unmoved(r)
    /\ req[r].pc = "mux" /\ req[r].sure => Sure(r)
    /\ req[r].pc = "open" => /\ req[r].via \in Conn /\ conn[req[r].via].pc \in HasMux
                             /\ ~req[r].moved => HostOfThread(req[r].via) = req[r].host
    /\ req[r].pc = "502" => ~req[r].sure
Requests ==
    /\ req \in [Req -> Request]
    /\ \A r \in Req : RequestOk(r)

ControlInv == Threads /\ Registry /\ Requests

-----------------------------------------------------------------------------

\* Init.
LEMMA ControlInit == Init => ControlInv
  <1> SUFFICES ASSUME Init PROVE ControlInv
    OBVIOUS
  <1> USE ControlAssumption DEF Init, NoThread, NoReq
  <1>1. Threads
    BY DEF Threads, ThreadOk, Thread, Pcs
  <1>2. Registry
    BY DEF Registry, RegistryConsistent, Registered
  <1>3. Requests
    BY DEF Requests, Request, RequestOk
  <1> QED
    BY <1>1, <1>2, <1>3 DEF ControlInv

\* A step of the clients, or none, which the relay does not see.
LEMMA ControlQuiet ==
    ControlInv /\ UNCHANGED <<stop, conn, registry, req, opts>> => ControlInv'
  <1> SUFFICES ASSUME ControlInv, UNCHANGED <<stop, conn, registry, req, opts>>
               PROVE  ControlInv'
    OBVIOUS
  <1> USE DEF registry
  <1>1. Threads'
    BY DEF ControlInv, Threads, ThreadOk
  <1>2. Registry'
    BY DEF ControlInv, Registry, RegistryConsistent, Registered, HostOfThread, HostOf, MuxOf
  <1>3. Requests'
    BY DEF ControlInv, Requests, RequestOk, Unmoved, Sure, MuxOk, Registered, HostOfThread, HostOf
  <1> QED
    BY <1>1, <1>2, <1>3 DEF ControlInv

\* A step of one origin thread that keeps its descriptor, its client and its
\* place among the registered ones.
LEMMA ControlMoves ==
    ASSUME ControlInv, NEW k \in Conn, NEW p \in Pcs, conn' = [conn EXCEPT ![k].pc = p],
           UNCHANGED <<stop, registry, opts>>,
           p \notin {"free", "destroy", "close"}, conn[k].pc \notin {"free", "destroy", "close"},
           conn[k].pc \in HasMux => p \in HasMux,
           conn[k].pc = "loop" => p = "loop",
           Registered(k) <=> p \in {"accepted", "publish", "publishing", "loop"}
    PROVE  Threads' /\ Registry'
  <1> USE DEF registry
  <1>1. /\ conn' \in [Conn -> Thread]
        /\ \A j \in Conn : /\ conn'[j].fd = conn[j].fd /\ conn'[j].of = conn[j].of
                           /\ conn'[j].dead = conn[j].dead
                           /\ j # k => conn'[j] = conn[j]
        /\ conn'[k].pc = p
    BY DEF ControlInv, Threads, Thread
  <1>2. Threads'
    BY <1>1 DEF ControlInv, Threads, ThreadOk
  <1>3. \A j \in Conn : (Registered(j)' <=> Registered(j)) /\ HostOfThread(j)' = HostOfThread(j)
    BY <1>1 DEF Registered, HostOfThread, HostOf
  <1>4. RegistryConsistent'
    BY <1>1, <1>3 DEF ControlInv, Registry, RegistryConsistent
  <1>5. \A f \in Fd : g_origin_muxes[f] # None => MuxOf(f, g_origin_muxes[f])'
    BY <1>1 DEF ControlInv, Registry, MuxOf
  <1> QED
    BY <1>2, <1>4, <1>5 DEF ControlInv, Registry

\* The maps stay as they are, and so do the registered threads.
LEMMA ConsistentKept ==
    ASSUME RegistryConsistent, UNCHANGED <<g_hosts, g_origin_hosts>>,
           \A j \in Conn : /\ Registered(j)' <=> Registered(j)
                           /\ Registered(j) => /\ HostOfThread(j)' = HostOfThread(j)
                                               /\ conn'[j].fd = conn[j].fd
    PROVE  RegistryConsistent'
  BY DEF RegistryConsistent

\* The registry stays as it is, with the Muxes in it.
LEMMA RegistryKept ==
    ASSUME Registry, UNCHANGED registry,
           \A j \in Conn : /\ Registered(j)' <=> Registered(j)
                           /\ Registered(j) => /\ HostOfThread(j)' = HostOfThread(j)
                                               /\ conn'[j].fd = conn[j].fd,
           \A j \in Conn : conn[j].pc \in {"loop", "close", "destroy"} => conn'[j] = conn[j]
    PROVE  Registry'
  <1> USE DEF registry
  <1>1. RegistryConsistent'
    BY ConsistentKept DEF Registry
  <1>2. \A g \in Fd : g_origin_muxes[g] # None => MuxOf(g, g_origin_muxes[g])'
    BY DEF Registry, MuxOf
  <1> QED
    BY <1>1, <1>2 DEF Registry

\* What the requests have looked up stays what it is while a thread says hello,
\* registers, is refused, answers, or leaves its loop.
Unnoticed(j) ==
    \/ conn'[j] = conn[j]
    \/ /\ conn[j].pc \in {"free", "hello", "register"}
       /\ conn'[j].pc \in {"free", "hello", "register", "accepted"}
    \/ /\ \/ conn[j].pc = "accepted" /\ conn'[j].pc = "publish"
          \/ conn[j].pc = "loop" /\ conn'[j].pc = "close"
       /\ conn'[j].fd = conn[j].fd /\ conn'[j].of = conn[j].of /\ conn'[j].dead = conn[j].dead

\* Such a step keeps the invariant of a request.
LEMMA RequestKept ==
    ASSUME ControlInv, NEW r \in Req, req' = req,
           UNCHANGED <<opts, g_origin_muxes>>, \A j \in Conn : Unnoticed(j)
    PROVE  RequestOk(r)'
  <1>1. RequestOk(r) /\ req[r] \in Request
    BY DEF ControlInv, Requests
  <1>2. \A j \in Conn : conn[j].pc \notin {"free", "hello", "register"} =>
           /\ HostOfThread(j)' = HostOfThread(j)
           /\ conn'[j].fd = conn[j].fd /\ conn'[j].dead = conn[j].dead
           /\ conn[j].pc # "publishing" => conn'[j].pc # "publishing"
           /\ conn[j].pc \in HasMux => conn'[j].pc \in HasMux
           /\ conn[j].pc \in {"loop", "close"} => conn'[j].pc \in {"loop", "close"}
           /\ Registered(j) \/ conn[j].pc = "close" => Registered(j)' \/ conn'[j].pc = "close"
    BY DEF Unnoticed, HostOfThread, HostOf, HasMux, Registered
  <1>3. \A f \in Fd : g_origin_muxes[f] # None =>
           /\ g_origin_muxes[f] \in Conn
           /\ conn[g_origin_muxes[f]].pc \in {"loop", "close", "destroy"}
    BY DEF ControlInv, Registry, MuxOf
  <1>4. ASSUME req[r].pc = "mux", req[r].fd # None, Unmoved(r) PROVE Unmoved(r)'
    <2> DEFINE f == req[r].fd
    <2>1. f \in Fd
      BY <1>1, <1>4 DEF Request, NoReq
    <2>2. PICK k \in Conn : /\ Registered(k) \/ conn[k].pc = "close"
                            /\ conn[k].fd = f /\ HostOfThread(k) = req[r].host
      BY <1>4 DEF Unmoved
    <2>3. /\ Registered(k)' \/ conn'[k].pc = "close"
          /\ conn'[k].fd = f /\ HostOfThread(k)' = req[r].host
      BY <1>2, <2>2 DEF Registered
    <2>4. g_origin_muxes[f] # None /\ MuxOk(g_origin_muxes[f])'
             => conn'[g_origin_muxes[f]].fd = f
      BY <1>2, <1>3, <1>4, <2>1 DEF Unmoved, MuxOk, HasMux
    <2> QED
      BY <2>3, <2>4 DEF Unmoved
  <1>5. ASSUME req[r].pc = "mux", Sure(r) PROVE Sure(r)'
    <2>1. req[r].fd \in Fd
      BY <1>1, <1>5 DEF Request, NoReq, Sure
    <2>2. \A j \in Conn : conn'[j].pc # "publishing"
      BY <1>5 DEF Sure, Unnoticed
    <2> QED
      BY <1>2, <1>3, <1>5, <2>1, <2>2 DEF Sure
  <1>6. ASSUME req[r].pc = "open"
        PROVE  /\ conn'[req[r].via].pc \in HasMux
               /\ ~req[r].moved => HostOfThread(req[r].via)' = req[r].host
    BY <1>1, <1>2, <1>6 DEF RequestOk, HasMux
  <1> QED
    BY <1>1, <1>4, <1>5, <1>6 DEF RequestOk

\* The hello line of a new connection; the descriptor is one no thread has.
LEMMA ControlConnect ==
    ASSUME ControlInv, NEW c \in Client, Connect(c), UNCHANGED opts
    PROVE  ControlInv'
  <1> USE DEF registry
  <1>1. PICK k \in Conn, f \in Fd \ OpenFds :
           /\ conn[k].pc = "free"
           /\ conn' = [conn EXCEPT ![k] = [pc |-> "hello", fd |-> f, of |-> c, dead |-> FALSE]]
    BY DEF Connect, Spare
  <1>2. UNCHANGED <<stop, registry, req, opts>>
    BY DEF Connect
  <1>3. /\ conn' \in [Conn -> Thread]
        /\ conn'[k] = [pc |-> "hello", fd |-> f, of |-> c, dead |-> FALSE]
        /\ \A j \in Conn : j # k => conn'[j] = conn[j]
    BY <1>1 DEF ControlInv, Threads, Thread, Pcs
  <1>4. \A j \in Conn : conn[j].fd # f
    BY <1>1, ControlAssumption DEF OpenFds, ControlInv, Threads, ThreadOk
  <1>5. Threads'
    BY <1>1, <1>2, <1>3, <1>4, ControlAssumption DEF ControlInv, Threads, ThreadOk
  <1>6. Registry'
    BY <1>1, <1>2, <1>3, RegistryKept DEF Registered, HostOfThread, HostOf, ControlInv
  <1>7. \A r \in Req : RequestOk(r)'
    BY <1>1, <1>2, <1>3, RequestKept DEF Unnoticed
  <1> QED
    BY <1>2, <1>5, <1>6, <1>7 DEF ControlInv, Requests

\* A thread that has not registered ends.
LEMMA ControlEnds ==
    ASSUME ControlInv, NEW k \in Conn, conn[k].pc \in {"hello", "register"}, Ends(k),
           UNCHANGED <<stop, registry, req, opts>>
    PROVE  ControlInv'
  <1> USE DEF registry
  <1>1. /\ conn' \in [Conn -> Thread] /\ conn'[k] = NoThread
        /\ \A j \in Conn : j # k => conn'[j] = conn[j]
    BY DEF Ends, ControlInv, Threads, Thread, Pcs, NoThread
  <1>2. Threads'
    BY <1>1 DEF ControlInv, Threads, ThreadOk, NoThread
  <1>3. Registry'
    BY <1>1, RegistryKept DEF Registered, HostOfThread, HostOf, ControlInv, NoThread
  <1>4. \A r \in Req : RequestOk(r)'
    BY <1>1, RequestKept DEF Unnoticed, NoThread
  <1> QED
    BY <1>2, <1>3, <1>4 DEF ControlInv, Requests

\* The hello line is read.
LEMMA ControlHello ==
    ASSUME ControlInv, NEW k \in Conn, ReadHello(k), UNCHANGED opts
    PROVE  ControlInv'
  <1> USE DEF registry
  <1>1. CASE At(k, "register")
    <2>1. Threads' /\ Registry'
      BY <1>1, ControlMoves DEF ReadHello, At, Pcs, HasMux, Registered
    <2>2. \A r \in Req : RequestOk(r)'
      <3>1. \A j \in Conn : Unnoticed(j)
        BY <1>1 DEF ReadHello, At, Unnoticed, ControlInv, Threads, Thread
      <3> QED
        BY <3>1, RequestKept DEF ReadHello
    <2> QED
      BY <2>1, <2>2 DEF ReadHello, ControlInv, Requests
  <1>2. CASE Ends(k)
    BY <1>2, ControlEnds DEF ReadHello
  <1> QED
    BY <1>1, <1>2 DEF ReadHello, Refuse

\* A name that nobody has is registered.
LEMMA ControlRegister ==
    ASSUME ControlInv, NEW k \in Conn, Register(k), UNCHANGED opts
    PROVE  ControlInv'
  <1> DEFINE h == HostOfThread(k)
             f == conn[k].fd
  <1>1. /\ conn[k].pc = "register" /\ g_hosts[h] = None
        /\ g_hosts' = [g_hosts EXCEPT ![h] = f]
        /\ g_origin_hosts' = [g_origin_hosts EXCEPT ![f] = @ \union {h}]
        /\ conn' = [conn EXCEPT ![k].pc = "accepted"]
        /\ UNCHANGED <<stop, g_origin_muxes, req, opts>>
    BY DEF Register, register_host, At
  <1>2. h \in Host /\ f \in Fd
    BY <1>1, ControlAssumption DEF ControlInv, Threads, Thread, ThreadOk, HostOfThread, HostOf
  <1>3. /\ conn' \in [Conn -> Thread]
        /\ \A j \in Conn : /\ conn'[j].fd = conn[j].fd /\ conn'[j].of = conn[j].of
                           /\ conn'[j].dead = conn[j].dead
                           /\ j # k => conn'[j] = conn[j]
        /\ conn'[k].pc = "accepted"
    BY <1>1 DEF ControlInv, Threads, Thread, Pcs
  <1>4. Threads'
    BY <1>1, <1>3 DEF ControlInv, Threads, ThreadOk
  <1>5. \A j \in Conn : /\ Registered(j)' <=> Registered(j) \/ j = k
                        /\ HostOfThread(j)' = HostOfThread(j)
    BY <1>1, <1>3 DEF Registered, HostOfThread, HostOf
  <1>6. /\ g_hosts' \in [Host -> Fd \union {None}]
        /\ g_origin_hosts' \in [Fd -> SUBSET Host]
        /\ g_hosts'[h] = f /\ g_origin_hosts'[f] = g_origin_hosts[f] \union {h}
        /\ \A x \in Host : x # h => g_hosts'[x] = g_hosts[x]
        /\ \A x \in Fd : x # f => g_origin_hosts'[x] = g_origin_hosts[x]
    BY <1>1, <1>2 DEF ControlInv, Registry
  <1> HIDE DEF h, f
  <1>7. ASSUME NEW x \in Host, NEW g \in Fd PROVE (g_hosts[x] = g <=> x \in g_origin_hosts[g])'
    BY <1>1, <1>2, <1>6, ControlAssumption DEF ControlInv, Registry, RegistryConsistent
  <1>8. ASSUME NEW x \in Host, g_hosts'[x] # None
        PROVE  \E j \in Conn : Registered(j)' /\ conn'[j].fd = g_hosts'[x] /\ HostOfThread(j)' = x
    <2>1. CASE x = h
      BY <1>3, <1>5, <1>6, <2>1 DEF h, f
    <2>2. CASE x # h
      BY <1>3, <1>5, <1>6, <1>8, <2>2 DEF ControlInv, Registry, RegistryConsistent
    <2> QED
      BY <2>1, <2>2
  <1>9. ASSUME NEW j \in Conn, Registered(j)' PROVE g_hosts'[HostOfThread(j)'] = conn'[j].fd
    <2>1. CASE j = k
      BY <1>3, <1>5, <1>6, <2>1 DEF h, f
    <2>2. CASE j # k
      <3>1. Registered(j) /\ conn[j].fd = g_hosts[HostOfThread(j)] /\ conn[j].fd # None
        BY <1>5, <1>9, <2>2 DEF ControlInv, Registry, RegistryConsistent, Threads, ThreadOk, Registered
      <3>2. HostOfThread(j) \in Host
        BY <3>1, ControlAssumption DEF ControlInv, Threads, ThreadOk, HostOfThread, HostOf, Registered
      <3> QED
        BY <1>1, <1>3, <1>5, <1>6, <3>1, <3>2
    <2> QED
      BY <2>1, <2>2
  <1>10. RegistryConsistent'
    BY <1>7, <1>8, <1>9 DEF RegistryConsistent
  <1>11. \A g \in Fd : g_origin_muxes[g] # None => MuxOf(g, g_origin_muxes[g])'
    BY <1>1, <1>3 DEF ControlInv, Registry, MuxOf
  <1>12. Registry'
    BY <1>1, <1>6, <1>10, <1>11 DEF ControlInv, Registry
  <1>13. \A r \in Req : RequestOk(r)'
    <2>1. \A j \in Conn : Unnoticed(j)
      BY <1>1, <1>3 DEF Unnoticed
    <2> QED
      BY <1>1, <2>1, RequestKept
  <1> QED
    BY <1>1, <1>4, <1>12, <1>13 DEF ControlInv, Requests

\* The answer OK.
LEMMA ControlSendOk ==
    ASSUME ControlInv, NEW k \in Conn, SendOk(k), UNCHANGED opts
    PROVE  ControlInv'
  <1> USE DEF registry
  <1>1. Threads' /\ Registry'
    BY ControlMoves DEF SendOk, At, Pcs, HasMux, Registered
  <1>2. \A j \in Conn : Unnoticed(j)
    BY DEF SendOk, At, Unnoticed, ControlInv, Threads, Thread
  <1>3. \A r \in Req : RequestOk(r)'
    BY <1>2, RequestKept DEF SendOk
  <1> QED
    BY <1>1, <1>3 DEF SendOk, ControlInv, Requests

\* The requests of which something is taken back: their records stay requests.
LEMMA RequestsTyped ==
    ASSUME Requests, NEW T \in SUBSET Req, \A r \in T : req[r].pc = "mux",
           req' = [r \in Req |-> IF r \in T THEN [req[r] EXCEPT !.sure = FALSE] ELSE req[r]]
                  \/ req' = [r \in Req |-> IF r \in T
                                           THEN [req[r] EXCEPT !.sure = FALSE, !.moved = TRUE]
                                           ELSE req[r]]
    PROVE  /\ req' \in [Req -> Request]
           /\ \A r \in Req \ T : req'[r] = req[r]
           /\ \A r \in T : /\ req'[r].pc = "mux" /\ ~req'[r].sure
                           /\ req'[r].fd = req[r].fd /\ req'[r].host = req[r].host
                           /\ ~req'[r].moved => ~req[r].moved
  <1>1. \A r \in Req : req[r] \in Request
    BY DEF Requests
  <1>2. \A r \in T : req[r] \in [pc : {"mux", "open"}, host : Host, fd : Fd \union {None},
                                 via : Conn \union {None}, sure : BOOLEAN, moved : BOOLEAN]
    <2> SUFFICES ASSUME NEW r \in T
                 PROVE  req[r] \in [pc : {"mux", "open"}, host : Host, fd : Fd \union {None},
                                    via : Conn \union {None}, sure : BOOLEAN, moved : BOOLEAN]
      OBVIOUS
    <2>1. r \in Req /\ req[r].pc = "mux"
      OBVIOUS
    <2>2. req[r] \in Request
      BY <1>1, <2>1
    <2>3. req[r] # NoReq
      <3>1. NoReq.pc = "free"
        BY DEF NoReq
      <3> QED
        BY <2>1, <3>1
    <2>4. req[r] \notin [pc : {"502"}, sure : BOOLEAN]
      BY <2>1
    <2> QED
      BY <2>2, <2>3, <2>4, Zenon DEF Request
  <1>3. \A r \in T : [req[r] EXCEPT !.sure = FALSE] \in Request
    <2> SUFFICES ASSUME NEW r \in T PROVE [req[r] EXCEPT !.sure = FALSE] \in Request
      OBVIOUS
    <2>1. [req[r] EXCEPT !.sure = FALSE]
            \in [pc : {"mux", "open"}, host : Host, fd : Fd \union {None},
                via : Conn \union {None}, sure : BOOLEAN, moved : BOOLEAN]
      BY <1>2
    <2> QED
      BY <2>1, Zenon DEF Request
  <1>4. \A r \in T : [req[r] EXCEPT !.sure = FALSE, !.moved = TRUE] \in Request
    <2> SUFFICES ASSUME NEW r \in T
                 PROVE  [req[r] EXCEPT !.sure = FALSE, !.moved = TRUE] \in Request
      OBVIOUS
    <2>1. [req[r] EXCEPT !.sure = FALSE, !.moved = TRUE]
            \in [pc : {"mux", "open"}, host : Host, fd : Fd \union {None},
                via : Conn \union {None}, sure : BOOLEAN, moved : BOOLEAN]
      BY <1>2
    <2> QED
      BY <2>1, Zenon DEF Request
  <1>5. req' \in [Req -> Request]
    BY <1>1, <1>3, <1>4
  <1>6. \A r \in Req \ T : req'[r] = req[r]
    OBVIOUS
  <1>7. ASSUME NEW r \in T
        PROVE  /\ req'[r].pc = "mux" /\ ~req'[r].sure
               /\ req'[r].fd = req[r].fd /\ req'[r].host = req[r].host
               /\ ~req'[r].moved => ~req[r].moved
    <2>1. \/ req'[r] = [req[r] EXCEPT !.sure = FALSE]
          \/ req'[r] = [req[r] EXCEPT !.sure = FALSE, !.moved = TRUE]
      BY <1>7
    <2>2. req[r].pc = "mux"
      OBVIOUS
    <2> QED
      BY <1>2, <2>1, <2>2
  <1> QED
    BY <1>5, <1>6, <1>7

\* An insertion in g_origin_muxes begins: no lookup is sure of what it finds.
LEMMA ControlPublishBegin ==
    ASSUME ControlInv, NEW k \in Conn, PublishBegin(k), UNCHANGED opts
    PROVE  ControlInv'
  <1> USE DEF registry
  <1>1. Threads' /\ Registry'
    BY ControlMoves DEF PublishBegin, At, Pcs, HasMux, Registered
  <1> DEFINE T == {r \in Req : req[r].pc = "mux"}
  <1>2. /\ req' \in [Req -> Request]
        /\ \A r \in Req \ T : req'[r] = req[r]
        /\ \A r \in T : /\ req'[r].pc = "mux" /\ ~req'[r].sure
                        /\ req'[r].fd = req[r].fd /\ req'[r].host = req[r].host
                        /\ ~req'[r].moved => ~req[r].moved
    <2>1. req' = [r \in Req |-> IF r \in T THEN [req[r] EXCEPT !.sure = FALSE] ELSE req[r]]
      BY DEF PublishBegin
    <2> HIDE DEF T
    <2>2. T \in SUBSET Req /\ \A r \in T : req[r].pc = "mux"
      BY DEF T
    <2> QED
      BY <2>1, <2>2, RequestsTyped DEF ControlInv
  <1>3. /\ \A j \in Conn : /\ conn'[j].fd = conn[j].fd /\ conn'[j].of = conn[j].of
                           /\ conn'[j].dead = conn[j].dead
                           /\ j # k => conn'[j] = conn[j]
        /\ conn[k].pc = "publish" /\ conn'[k].pc = "publishing"
    BY DEF PublishBegin, At, ControlInv, Threads, Thread
  <1>4. \A j \in Conn : /\ Registered(j) \/ conn[j].pc = "close"
                             => Registered(j)' \/ conn'[j].pc = "close"
                        /\ HostOfThread(j)' = HostOfThread(j)
                        /\ conn[j].pc \in HasMux => conn'[j].pc \in HasMux
    BY <1>3 DEF Registered, HostOfThread, HostOf, HasMux
  <1>5. \A f \in Fd : g_origin_muxes[f] # None =>
           g_origin_muxes[f] \in Conn /\ conn'[g_origin_muxes[f]] = conn[g_origin_muxes[f]]
    BY <1>3 DEF ControlInv, Registry, MuxOf
  <1>6. ASSUME NEW r \in Req PROVE RequestOk(r)'
    <2>1. RequestOk(r) /\ req[r] \in Request
      BY DEF ControlInv, Requests
    <2>2. CASE r \in T
      <3>1. ASSUME ~req'[r].moved, req'[r].fd # None PROVE Unmoved(r)'
        <4>1. Unmoved(r) /\ req[r].fd \in Fd
          BY <1>2, <2>1, <2>2, <3>1 DEF RequestOk, Request, NoReq
        <4>2. \E j \in Conn : /\ Registered(j)' \/ conn'[j].pc = "close"
                              /\ conn'[j].fd = req'[r].fd /\ HostOfThread(j)' = req'[r].host
          BY <1>2, <1>3, <1>4, <2>2, <4>1 DEF Unmoved
        <4>3. UNCHANGED g_origin_muxes
          BY DEF PublishBegin
        <4>4. (g_origin_muxes[req[r].fd] # None /\ MuxOk(g_origin_muxes[req[r].fd])
                 => conn[g_origin_muxes[req[r].fd]].fd = req[r].fd)'
          BY <1>2, <1>5, <2>2, <4>1, <4>3 DEF Unmoved, MuxOk
        <4> QED
          BY <4>2, <4>4 DEF Unmoved
      <3> QED
        BY <1>2, <2>2, <3>1 DEF RequestOk
    <2>3. CASE r \notin T
      BY <1>2, <1>4, <2>1, <2>3 DEF RequestOk
    <2> QED
      BY <2>2, <2>3
  <1> QED
    BY <1>1, <1>2, <1>6 DEF ControlInv, Requests

\* It ends: the entry of the descriptor is the Mux of the thread that has it.
LEMMA ControlPublishEnd ==
    ASSUME ControlInv, NEW k \in Conn, PublishEnd(k), UNCHANGED opts
    PROVE  ControlInv'
  <1> DEFINE f == conn[k].fd
  <1>1. /\ conn[k].pc = "publishing" /\ conn' = [conn EXCEPT ![k].pc = "loop"]
        /\ g_origin_muxes' = [g_origin_muxes EXCEPT ![f] = k]
        /\ UNCHANGED <<stop, g_hosts, g_origin_hosts, req, opts>>
    BY DEF PublishEnd, At
  <1>2. /\ conn' \in [Conn -> Thread]
        /\ \A j \in Conn : /\ conn'[j].fd = conn[j].fd /\ conn'[j].of = conn[j].of
                           /\ conn'[j].dead = conn[j].dead
                           /\ j # k => conn'[j] = conn[j]
        /\ conn'[k].pc = "loop"
    BY <1>1 DEF ControlInv, Threads, Thread, Pcs
  <1>3. f \in Fd /\ k # None
    BY <1>1, ControlAssumption DEF ControlInv, Threads, Thread, ThreadOk
  <1>4. Threads'
    BY <1>1, <1>2 DEF ControlInv, Threads, ThreadOk
  <1>5. /\ g_origin_muxes' \in [Fd -> Conn \union {None}]
        /\ g_origin_muxes'[f] = k
        /\ \A g \in Fd : g # f => g_origin_muxes'[g] = g_origin_muxes[g]
    BY <1>1, <1>3 DEF ControlInv, Registry
  <1>6. \A j \in Conn : /\ Registered(j)' <=> Registered(j)
                        /\ HostOfThread(j)' = HostOfThread(j)
                        /\ conn[j].pc \in HasMux => conn'[j].pc \in HasMux
    BY <1>1, <1>2 DEF Registered, HostOfThread, HostOf, HasMux
  <1> HIDE DEF f
  <1>7. RegistryConsistent'
    BY <1>1, <1>2, <1>6 DEF ControlInv, Registry, RegistryConsistent
  <1>8. \A g \in Fd : g_origin_muxes'[g] # None => MuxOf(g, g_origin_muxes[g])'
    <2> SUFFICES ASSUME NEW g \in Fd, g_origin_muxes'[g] # None
                 PROVE  MuxOf(g, g_origin_muxes[g])'
      OBVIOUS
    <2>1. CASE g = f
      BY <1>2, <1>5, <2>1 DEF MuxOf, f
    <2>2. CASE g # f
      BY <1>1, <1>2, <1>5, <2>2 DEF MuxOf, ControlInv, Registry
    <2> QED
      BY <2>1, <2>2
  <1>9. Registry'
    BY <1>1, <1>5, <1>7, <1>8 DEF ControlInv, Registry
  <1>10. ASSUME NEW r \in Req PROVE RequestOk(r)'
    <2>1. RequestOk(r) /\ req[r] \in Request
      BY DEF ControlInv, Requests
    <2>2. ASSUME req[r].pc = "mux", req[r].fd # None, Unmoved(r) PROVE Unmoved(r)'
      <3>1. req[r].fd \in Fd
        BY <2>1, <2>2 DEF Request, NoReq
      <3>2. \E j \in Conn : /\ Registered(j)' \/ conn'[j].pc = "close"
                            /\ conn'[j].fd = req[r].fd /\ HostOfThread(j)' = req[r].host
        BY <1>1, <1>2, <1>6, <2>2 DEF Unmoved
      <3>3. CASE req[r].fd = f
        BY <1>1, <1>2, <1>5, <3>2, <3>3 DEF Unmoved, f
      <3>4. CASE req[r].fd # f
        <4>1. g_origin_muxes[req[r].fd] # None =>
                 /\ g_origin_muxes[req[r].fd] \in Conn \ {k}
          BY <1>1, <3>1 DEF ControlInv, Registry, MuxOf
        <4>2. g_origin_muxes'[req[r].fd] = g_origin_muxes[req[r].fd]
          BY <1>5, <3>1, <3>4
        <4> QED
          BY <1>1, <1>2, <2>2, <3>2, <4>1, <4>2 DEF Unmoved, MuxOk
      <3> QED
        BY <3>3, <3>4
    <2>3. ~(req[r].pc = "mux" /\ req[r].sure)
      BY <1>1, <2>1 DEF RequestOk, Sure
    <2> QED
      BY <1>1, <1>6, <2>1, <2>2, <2>3 DEF RequestOk
  <1> QED
    BY <1>1, <1>4, <1>9, <1>10 DEF ControlInv, Requests

\* The reader of a Mux sees the end of its connection.
LEMMA ControlMuxDies ==
    ASSUME ControlInv, NEW k \in Conn, MuxDies(k), UNCHANGED opts
    PROVE  ControlInv'
  <1> USE DEF registry
  <1> DEFINE f == conn[k].fd
             T == {r \in Req : req[r].pc = "mux" /\ req[r].fd = f}
  <1>1. /\ conn[k].pc \in {"publish", "publishing", "loop"}
        /\ conn' = [conn EXCEPT ![k].dead = TRUE]
        /\ req' = [r \in Req |-> IF r \in T THEN [req[r] EXCEPT !.sure = FALSE] ELSE req[r]]
        /\ UNCHANGED <<stop, registry, opts>>
    BY DEF MuxDies
  <1>2. /\ conn' \in [Conn -> Thread]
        /\ \A j \in Conn : /\ conn'[j].fd = conn[j].fd /\ conn'[j].of = conn[j].of
                           /\ conn'[j].pc = conn[j].pc
                           /\ j # k => conn'[j] = conn[j]
        /\ conn'[k].dead
    BY <1>1 DEF ControlInv, Threads, Thread
  <1>3. Threads'
    BY <1>1, <1>2 DEF ControlInv, Threads, ThreadOk
  <1>4. \A j \in Conn : (Registered(j)' <=> Registered(j)) /\ HostOfThread(j)' = HostOfThread(j)
    BY <1>1, <1>2 DEF Registered, HostOfThread, HostOf
  <1>5. RegistryConsistent'
    BY <1>1, <1>2, <1>4 DEF ControlInv, Registry, RegistryConsistent
  <1>6. \A g \in Fd : g_origin_muxes[g] # None => MuxOf(g, g_origin_muxes[g])'
    BY <1>1, <1>2 DEF ControlInv, Registry, MuxOf
  <1>7. Registry'
    BY <1>1, <1>5, <1>6 DEF ControlInv, Registry
  <1>8. /\ req' \in [Req -> Request]
        /\ \A r \in Req \ T : req'[r] = req[r]
        /\ \A r \in T : /\ req'[r].pc = "mux" /\ ~req'[r].sure
                        /\ req'[r].fd = req[r].fd /\ req'[r].host = req[r].host
                        /\ ~req'[r].moved => ~req[r].moved
    <2>1. T \in SUBSET Req /\ \A r \in T : req[r].pc = "mux"
      OBVIOUS
    <2> HIDE DEF T
    <2> QED
      BY <1>1, <2>1, RequestsTyped DEF ControlInv
  <1>9. ASSUME NEW r \in Req PROVE RequestOk(r)'
    <2>1. RequestOk(r) /\ req[r] \in Request
      BY DEF ControlInv, Requests
    <2>2. ASSUME req[r].pc = "mux", req[r].fd # None, Unmoved(r),
                 req'[r].fd = req[r].fd, req'[r].host = req[r].host
          PROVE  Unmoved(r)'
      <3>1. req[r].fd \in Fd
        BY <2>1, <2>2 DEF Request, NoReq
      <3>2. \E j \in Conn : /\ Registered(j)' \/ conn'[j].pc = "close"
                            /\ conn'[j].fd = req'[r].fd /\ HostOfThread(j)' = req'[r].host
        BY <1>2, <1>4, <2>2 DEF Unmoved
      <3>3. (g_origin_muxes[req[r].fd] # None /\ MuxOk(g_origin_muxes[req[r].fd])
                 => conn[g_origin_muxes[req[r].fd]].fd = req[r].fd)'
        BY <1>1, <1>2, <2>2, <3>1 DEF Unmoved, MuxOk, ControlInv, Registry
      <3> QED
        BY <3>2, <3>3 DEF Unmoved
    <2>3. CASE r \in T
      BY <1>8, <2>1, <2>2, <2>3 DEF RequestOk
    <2>4. CASE r \notin T
      <3>1. ASSUME req[r].pc = "mux", Sure(r) PROVE Sure(r)'
        <4>1. req[r].fd \in Fd
          BY <2>1, <3>1 DEF Request, NoReq, Sure
        <4>2. /\ g_origin_muxes[req[r].fd] \in Conn \ {k}
              /\ conn[g_origin_muxes[req[r].fd]].fd = req[r].fd
          BY <2>4, <3>1, <4>1 DEF Sure, ControlInv, Registry
        <4>3. conn'[g_origin_muxes[req[r].fd]] = conn[g_origin_muxes[req[r].fd]]
          BY <1>2, <4>2
        <4> QED
          BY <1>1, <1>2, <1>8, <2>4, <3>1, <4>3 DEF Sure
      <3>2. req'[r] = req[r]
        BY <1>8, <2>4
      <3>3. ASSUME req[r].pc = "open", NEW k1 \in Conn, k1 = req[r].via
            PROVE  /\ conn'[k1].pc \in HasMux
                   /\ ~req[r].moved => HostOfThread(k1)' = req[r].host
        BY <1>2, <1>4, <2>1, <3>3 DEF RequestOk
      <3> QED
        BY <2>1, <2>2, <3>1, <3>2, <3>3 DEF RequestOk
    <2> QED
      BY <2>3, <2>4
  <1> QED
    BY <1>3, <1>7, <1>8, <1>9 DEF ControlInv, Requests

\* A thread leaves its loop: its names are free, and only its names.
LEMMA ControlLoopEnds ==
    ASSUME ControlInv, NEW k \in Conn, LoopEnds(k), UNCHANGED opts
    PROVE  ControlInv'
  <1> DEFINE f == conn[k].fd
  <1>1. /\ conn[k].pc = "loop" /\ (conn[k].dead \/ stop)
        /\ conn' = [conn EXCEPT ![k].pc = "close"]
        /\ g_hosts' = [h \in Host |-> IF h \in g_origin_hosts[f] THEN None ELSE g_hosts[h]]
        /\ g_origin_hosts' = [g_origin_hosts EXCEPT ![f] = {}]
        /\ UNCHANGED <<stop, g_origin_muxes, req, opts>>
    BY DEF LoopEnds, At, Unregistered
  <1>2. /\ conn' \in [Conn -> Thread]
        /\ \A j \in Conn : /\ conn'[j].fd = conn[j].fd /\ conn'[j].of = conn[j].of
                           /\ conn'[j].dead = conn[j].dead
                           /\ j # k => conn'[j] = conn[j]
        /\ conn'[k].pc = "close"
    BY <1>1 DEF ControlInv, Threads, Thread, Pcs
  <1>3. f \in Fd
    BY <1>1 DEF ControlInv, Threads, Thread, ThreadOk
  <1>4. Threads'
    BY <1>1, <1>2 DEF ControlInv, Threads, ThreadOk
  <1>5. \A j \in Conn : /\ Registered(j)' <=> Registered(j) /\ j # k
                        /\ HostOfThread(j)' = HostOfThread(j)
    BY <1>1, <1>2 DEF Registered, HostOfThread, HostOf
  <1>6. /\ g_hosts' \in [Host -> Fd \union {None}]
        /\ g_origin_hosts' \in [Fd -> SUBSET Host]
        /\ \A x \in Host : g_hosts'[x] = IF g_hosts[x] = f THEN None ELSE g_hosts[x]
        /\ \A x \in Fd : g_origin_hosts'[x] = IF x = f THEN {} ELSE g_origin_hosts[x]
    BY <1>1, <1>3 DEF ControlInv, Registry, RegistryConsistent
  <1> HIDE DEF f
  <1>7. ASSUME NEW x \in Host, NEW g \in Fd PROVE (g_hosts[x] = g <=> x \in g_origin_hosts[g])'
    BY <1>3, <1>6, ControlAssumption DEF ControlInv, Registry, RegistryConsistent
  <1>8. ASSUME NEW x \in Host, g_hosts'[x] # None
        PROVE  \E j \in Conn : Registered(j)' /\ conn'[j].fd = g_hosts'[x] /\ HostOfThread(j)' = x
    <2>1. g_hosts[x] # None /\ g_hosts[x] # f /\ g_hosts'[x] = g_hosts[x]
      BY <1>6, <1>8
    <2>2. PICK j \in Conn : Registered(j) /\ conn[j].fd = g_hosts[x] /\ HostOfThread(j) = x
      BY <2>1 DEF ControlInv, Registry, RegistryConsistent
    <2> QED
      BY <1>2, <1>5, <2>1, <2>2 DEF f
  <1>9. ASSUME NEW j \in Conn, Registered(j)' PROVE g_hosts'[HostOfThread(j)'] = conn'[j].fd
    <2>1. Registered(j) /\ j # k /\ conn[j].fd = g_hosts[HostOfThread(j)] /\ conn[j].fd # None
      BY <1>5, <1>9 DEF ControlInv, Registry, RegistryConsistent, Threads, ThreadOk, Registered
    <2>2. HostOfThread(j) \in Host
      BY <2>1, ControlAssumption DEF ControlInv, Threads, ThreadOk, HostOfThread, HostOf, Registered
    <2>3. conn[j].fd # f
      BY <2>1 DEF ControlInv, Threads, f
    <2> QED
      BY <1>2, <1>5, <1>6, <2>1, <2>2, <2>3
  <1>10. RegistryConsistent'
    BY <1>7, <1>8, <1>9 DEF RegistryConsistent
  <1>11. \A g \in Fd : g_origin_muxes[g] # None => MuxOf(g, g_origin_muxes[g])'
    BY <1>1, <1>2 DEF ControlInv, Registry, MuxOf
  <1>12. Registry'
    BY <1>1, <1>6, <1>10, <1>11 DEF ControlInv, Registry
  <1>13. \A j \in Conn : Unnoticed(j)
    BY <1>1, <1>2 DEF Unnoticed
  <1>14. \A r \in Req : RequestOk(r)'
    BY <1>1, <1>13, RequestKept
  <1> QED
    BY <1>1, <1>4, <1>12, <1>14 DEF ControlInv, Requests

\* A thread closes its descriptor, which another may now get.
LEMMA ControlCloseFd ==
    ASSUME ControlInv, NEW k \in Conn, CloseFd(k), UNCHANGED opts
    PROVE  ControlInv'
  <1> USE DEF registry
  <1> DEFINE f == conn[k].fd
             T == {r \in Req : req[r].pc = "mux" /\ req[r].fd = f}
  <1>1. /\ conn[k].pc = "close"
        /\ conn' = [conn EXCEPT ![k].pc = "destroy", ![k].fd = None]
        /\ req' = [r \in Req |-> IF r \in T THEN [req[r] EXCEPT !.sure = FALSE, !.moved = TRUE]
                                 ELSE req[r]]
        /\ UNCHANGED <<stop, registry, opts>>
    BY DEF CloseFd, Dropped
  <1>2. /\ conn' \in [Conn -> Thread]
        /\ \A j \in Conn : /\ conn'[j].of = conn[j].of /\ conn'[j].dead = conn[j].dead
                           /\ j # k => conn'[j] = conn[j]
        /\ conn'[k].pc = "destroy" /\ conn'[k].fd = None
    BY <1>1 DEF ControlInv, Threads, Thread, Pcs
  <1>3. Threads'
    <2>1. stop \in BOOLEAN /\ opts \in Options /\ \A j \in Conn : ThreadOk(j)
      BY DEF ControlInv, Threads
    <2>2. \A j \in Conn \ {k} : ThreadOk(j)'
      BY <1>1, <1>2, <2>1 DEF ThreadOk
    <2>3. ThreadOk(k)'
      BY <1>1, <1>2, <2>1 DEF ThreadOk
    <2>4. \A i, j \in Conn : conn'[i].fd = conn'[j].fd /\ conn'[i].fd # None => i = j
      BY <1>2 DEF ControlInv, Threads
    <2> QED
      BY <1>1, <1>2, <2>1, <2>2, <2>3, <2>4 DEF Threads
  <1>4. \A j \in Conn : (Registered(j)' <=> Registered(j)) /\ HostOfThread(j)' = HostOfThread(j)
    BY <1>1, <1>2 DEF Registered, HostOfThread, HostOf
  <1>5. RegistryConsistent'
    <2>1. \A j \in Conn : Registered(j) => conn'[j].fd = conn[j].fd
      BY <1>1, <1>2 DEF Registered
    <2> QED
      BY <1>1, <1>4, <2>1, ConsistentKept DEF ControlInv, Registry
  <1>6. \A g \in Fd : g_origin_muxes[g] # None => MuxOf(g, g_origin_muxes[g])'
    BY <1>1, <1>2 DEF ControlInv, Registry, MuxOf
  <1>7. Registry'
    BY <1>1, <1>5, <1>6 DEF ControlInv, Registry
  <1>8. T \in SUBSET Req /\ \A r \in T : req[r].pc = "mux"
    OBVIOUS
  <1>9. /\ req' \in [Req -> Request]
        /\ \A r \in Req \ T : req'[r] = req[r]
        /\ \A r \in T : req'[r].pc = "mux" /\ ~req'[r].sure
    <2> HIDE DEF T
    <2> QED
      BY <1>1, <1>8, RequestsTyped DEF ControlInv
  <1>10. \A r \in T : req'[r].moved
    <2> SUFFICES ASSUME NEW r \in T PROVE req'[r].moved
      OBVIOUS
    <2>1. req'[r] = [req[r] EXCEPT !.sure = FALSE, !.moved = TRUE]
      BY <1>1
    <2>2. req[r] \in Request /\ req[r].pc = "mux"
      BY DEF ControlInv, Requests
    <2> HIDE DEF T
    <2> QED
      BY <2>1, <2>2 DEF Request, NoReq
  <1>11. ASSUME NEW r \in Req PROVE RequestOk(r)'
    <2>1. RequestOk(r) /\ req[r] \in Request
      BY DEF ControlInv, Requests
    <2>2. CASE r \in T
      BY <1>9, <1>10, <2>2 DEF RequestOk
    <2>3. CASE r \notin T
      <3>1. req'[r] = req[r]
        BY <1>9, <2>3
      <3>2. ASSUME req[r].pc = "mux", req[r].fd # None
            PROVE  /\ req[r].fd \in Fd /\ req[r].fd # f
                   /\ g_origin_muxes[req[r].fd] # None =>
                         /\ g_origin_muxes[req[r].fd] \in Conn \ {k}
                         /\ conn'[g_origin_muxes[req[r].fd]] = conn[g_origin_muxes[req[r].fd]]
        <4>1. req[r].fd \in Fd /\ req[r].fd # f
          BY <2>1, <2>3, <3>2 DEF Request, NoReq
        <4>2. g_origin_muxes[req[r].fd] # None => g_origin_muxes[req[r].fd] \in Conn \ {k}
          BY <1>1, <4>1 DEF ControlInv, Registry, MuxOf
        <4> QED
          BY <1>2, <4>1, <4>2
      <3>3. ASSUME req[r].pc = "mux", req[r].fd # None, Unmoved(r) PROVE Unmoved(r)'
        <4>1. PICK j \in Conn : /\ Registered(j) \/ conn[j].pc = "close"
                                /\ conn[j].fd = req[r].fd /\ HostOfThread(j) = req[r].host
          BY <3>3 DEF Unmoved
        <4>2. /\ Registered(j)' \/ conn'[j].pc = "close"
              /\ conn'[j].fd = req[r].fd /\ HostOfThread(j)' = req[r].host
          BY <1>2, <1>4, <3>2, <3>3, <4>1
        <4>3. g_origin_muxes'[req[r].fd] # None /\ MuxOk(g_origin_muxes[req[r].fd])
                => conn'[g_origin_muxes[req[r].fd]].fd = req[r].fd
          BY <1>1, <3>2, <3>3 DEF Unmoved
        <4> QED
          BY <1>1, <3>1, <3>2, <3>3, <4>2, <4>3 DEF Unmoved, MuxOk
      <3>4. ASSUME req[r].pc = "mux", Sure(r) PROVE Sure(r)'
        BY <1>1, <1>2, <3>1, <3>2, <3>4 DEF Sure
      <3>5. ASSUME req[r].pc = "open", NEW k1 \in Conn, k1 = req[r].via
            PROVE  /\ conn'[k1].pc \in HasMux
                   /\ ~req[r].moved => HostOfThread(k1)' = req[r].host
        BY <1>2, <1>4, <2>1, <3>5 DEF RequestOk, HasMux
      <3> QED
        BY <2>1, <3>1, <3>3, <3>4, <3>5 DEF RequestOk
    <2> QED
      BY <2>2, <2>3
  <1> QED
    BY <1>3, <1>7, <1>9, <1>11 DEF ControlInv, Requests

\* The relay ends.
LEMMA ControlDown == ControlInv /\ Down /\ UNCHANGED opts => ControlInv'
  <1> SUFFICES ASSUME ControlInv, Down, UNCHANGED opts PROVE ControlInv'
    OBVIOUS
  <1> USE ControlAssumption DEF Down, NoThread, NoReq
  <1>1. Threads'
    BY DEF ControlInv, Threads, ThreadOk, Thread, Pcs
  <1>2. Registry'
    BY DEF Registry, RegistryConsistent, Registered
  <1>3. Requests'
    BY DEF Requests, Request, RequestOk
  <1> QED
    BY <1>1, <1>2, <1>3 DEF ControlInv

\* It is told to.
LEMMA ControlSignal ==
    ControlInv /\ Signal /\ UNCHANGED opts => ControlInv'
  <1> SUFFICES ASSUME ControlInv, Signal, UNCHANGED opts PROVE ControlInv'
    OBVIOUS
  <1> USE DEF Signal, registry
  <1>1. Threads'
    BY DEF ControlInv, Threads, ThreadOk
  <1>2. Registry'
    BY DEF ControlInv, Registry, RegistryConsistent, Registered, HostOfThread, HostOf, MuxOf
  <1>3. Requests'
    BY DEF ControlInv, Requests, RequestOk, Unmoved, Sure, MuxOk, Registered, HostOfThread, HostOf
  <1> QED
    BY <1>1, <1>2, <1>3 DEF ControlInv

\* The first lookup of a request.
LEMMA ControlArrive ==
    ASSUME ControlInv, NEW r \in Req, NEW h \in Host, Arrive(r, h), UNCHANGED opts
    PROVE  ControlInv'
  <1> USE DEF registry
  <1> DEFINE n == Lower[h]
             f == g_hosts[n]
  <1>1. /\ ~stop
        /\ req' = [req EXCEPT ![r] = [pc |-> "mux", host |-> n, fd |-> f, via |-> None,
                                      sure |-> Ready(n), moved |-> FALSE]]
        /\ UNCHANGED <<stop, conn, registry, opts>>
    BY DEF Arrive
  <1>2. n \in Host /\ f \in Fd \union {None}
    BY ControlAssumption DEF ControlInv, Registry
  <1>3. Threads' /\ Registry'
    BY <1>1 DEF ControlInv, Threads, ThreadOk, Registry, RegistryConsistent, Registered,
                HostOfThread, HostOf, MuxOf
  <1>4. Ready(n) \in BOOLEAN
    BY DEF Ready
  <1> HIDE DEF n, f
  <1>5. [pc |-> "mux", host |-> n, fd |-> f, via |-> None, sure |-> Ready(n), moved |-> FALSE]
          \in Request
    BY <1>2, <1>4 DEF Request
  <1>6. /\ req' \in [Req -> Request]
        /\ req'[r] = [pc |-> "mux", host |-> n, fd |-> f, via |-> None, sure |-> Ready(n),
                      moved |-> FALSE]
        /\ \A q \in Req : q # r => req'[q] = req[q]
    BY <1>1, <1>5 DEF ControlInv, Requests
  <1>7. f # None => Unmoved(r)'
    <2> SUFFICES ASSUME f # None PROVE Unmoved(r)'
      OBVIOUS
    <2>1. req'[r].fd = f /\ req'[r].host = n
      BY <1>6
    <2>2. \E k \in Conn : Registered(k) /\ conn[k].fd = f /\ HostOfThread(k) = n
      BY <1>2 DEF ControlInv, Registry, RegistryConsistent, f
    <2>3. g_origin_muxes[f] # None /\ MuxOk(g_origin_muxes[f])
            => conn[g_origin_muxes[f]].fd = f
      BY <1>1, <1>2 DEF ControlInv, Registry, MuxOf, MuxOk, Threads, ThreadOk
    <2> QED
      BY <1>1, <2>1, <2>2, <2>3 DEF Unmoved, Registered, HostOfThread, HostOf, MuxOk
  <1>8. Ready(n) => Sure(r)'
    BY <1>1, <1>6 DEF Ready, Sure, f
  <1>9. RequestOk(r)'
    BY <1>6, <1>7, <1>8 DEF RequestOk
  <1>10. \A q \in Req : q # r => RequestOk(q)'
    BY <1>1, <1>6 DEF ControlInv, Requests, RequestOk, Unmoved, Sure, MuxOk, Registered,
                      HostOfThread, HostOf
  <1> QED
    BY <1>3, <1>6, <1>9, <1>10 DEF ControlInv, Requests

\* The second, and the stream or the 502.
LEMMA ControlServe ==
    ASSUME ControlInv, NEW r \in Req, ServePublic(r), UNCHANGED opts
    PROVE  ControlInv'
  <1> USE DEF registry
  <1> DEFINE f == req[r].fd
  <1>1. req[r].pc = "mux" /\ UNCHANGED <<stop, conn, registry, opts>>
    BY DEF ServePublic
  <1>2. PICK k \in Lookup(f) :
          IF MuxOk(k)
          THEN req' = [req EXCEPT ![r].pc = "open", ![r].via = k, ![r].fd = None, ![r].sure = FALSE]
          ELSE req' = [req EXCEPT ![r] = [pc |-> "502", sure |-> @.sure]]
    BY DEF ServePublic
  <1>3. Threads' /\ Registry'
    BY <1>1 DEF ControlInv, Threads, ThreadOk, Registry, RegistryConsistent, Registered,
                HostOfThread, HostOf, MuxOf
  <1>4. RequestOk(r) /\ req[r] \in Request
    BY DEF ControlInv, Requests
  <1>5. req[r] \in [pc : {"mux", "open"}, host : Host, fd : Fd \union {None},
                    via : Conn \union {None}, sure : BOOLEAN, moved : BOOLEAN]
    <2>1. req[r] # NoReq
      <3>1. NoReq.pc = "free"
        BY DEF NoReq
      <3> QED
        BY <1>1, <3>1
    <2>2. req[r] \notin [pc : {"502"}, sure : BOOLEAN]
      BY <1>1
    <2> QED
      BY <1>4, <2>1, <2>2, Zenon DEF Request
  <1>6. f \in Fd \union {None}
    BY <1>5
  <1> HIDE DEF f
  <1>7. \A q \in Req : req'[q] = req[q] => RequestOk(q)'
    BY <1>1 DEF ControlInv, Requests, RequestOk, Unmoved, Sure, MuxOk, Registered,
                HostOfThread, HostOf
  <1>8. CASE MuxOk(k)
    <2>1. /\ k \in Conn /\ f \in Fd
          /\ k = g_origin_muxes[f] \/ (conn[k].pc = "publishing" /\ conn[k].fd = f)
      BY <1>2, <1>6, <1>8 DEF Lookup, MuxOk, ControlInv, Registry
    <2>2. ~req[r].moved => HostOfThread(k) = req[r].host
      <3> SUFFICES ASSUME ~req[r].moved PROVE HostOfThread(k) = req[r].host
        OBVIOUS
      <3>1. Unmoved(r)
        BY <1>1, <1>4, <2>1, ControlAssumption DEF RequestOk, f
      <3>2. conn[k].fd = f
        BY <1>8, <2>1, <3>1 DEF Unmoved, f, MuxOk
      <3> QED
        BY <2>1, <3>1, <3>2, ControlAssumption DEF Unmoved, f, ControlInv, Threads
    <2>3. req' = [req EXCEPT ![r] = [req[r] EXCEPT !.pc = "open", !.via = k, !.fd = None,
                                                   !.sure = FALSE]]
      BY <1>2, <1>8
    <2>4. [req[r] EXCEPT !.pc = "open", !.via = k, !.fd = None, !.sure = FALSE] \in Request
      BY <1>5, <2>1 DEF Request
    <2>5. /\ req' \in [Req -> Request]
          /\ \A q \in Req : q # r => req'[q] = req[q]
          /\ req'[r].pc = "open" /\ req'[r].via = k /\ req'[r].host = req[r].host
          /\ req'[r].moved = req[r].moved
      BY <1>5, <2>3, <2>4 DEF ControlInv, Requests
    <2>6. conn[k].pc \in HasMux
      BY <1>8 DEF MuxOk
    <2>7. RequestOk(r)'
      BY <1>1, <2>1, <2>2, <2>5, <2>6 DEF RequestOk, HostOfThread, HostOf
    <2> QED
      BY <1>3, <1>7, <2>5, <2>7 DEF ControlInv, Requests
  <1>9. CASE ~MuxOk(k)
    <2>1. ~req[r].sure
      <3> SUFFICES ASSUME req[r].sure PROVE FALSE
        OBVIOUS
      <3>1. Sure(r)
        BY <1>1, <1>4 DEF RequestOk
      <3>2. k = g_origin_muxes[f]
        BY <1>2, <3>1 DEF Lookup, Sure, f
      <3> QED
        BY <1>9, <3>1, <3>2 DEF Sure, f, MuxOk, HasMux
    <2>2. /\ req' = [req EXCEPT ![r] = [pc |-> "502", sure |-> req[r].sure]]
      BY <1>2, <1>9
    <2>3. [pc |-> "502", sure |-> req[r].sure] \in Request
      BY <2>1, <1>5 DEF Request
    <2>4. /\ req' \in [Req -> Request]
          /\ \A q \in Req : q # r => req'[q] = req[q]
          /\ req'[r].pc = "502" /\ ~req'[r].sure
      BY <2>1, <2>2, <2>3 DEF ControlInv, Requests
    <2>5. RequestOk(r)'
      BY <2>4 DEF RequestOk
    <2> QED
      BY <1>3, <1>7, <2>4, <2>5 DEF ControlInv, Requests
  <1> QED
    BY <1>8, <1>9

-----------------------------------------------------------------------------

\* Every step, or none.
LEMMA ControlNext == ControlInv /\ [Next]_vars => ControlInv'
  <1> SUFFICES ASSUME ControlInv, [Next]_vars PROVE ControlInv'
    OBVIOUS
  <1>1. CASE UNCHANGED vars
    BY <1>1, ControlQuiet DEF vars, registry
  <1> SUFFICES ASSUME Step, UNCHANGED opts PROVE ControlInv'
    BY <1>1 DEF Next
  <1>2. ASSUME NEW c \in Client, ClientStep(c) \/ Interrupt(c) \/ Restart(c) \/ PowerLoss(c)
        PROVE  ControlInv'
    <2>1. CASE Connect(c)
      BY <2>1, ControlConnect
    <2>2. CASE \/ SendHello(c) \/ ReadReply(c) \/ SessionLost(c) \/ SessionStops(c)
               \/ LoopStops(c) \/ Interrupt(c) \/ Restart(c) \/ PowerLoss(c)
      <3>1. UNCHANGED <<stop, conn, registry, req>>
        BY <2>2 DEF SendHello, ReadReply, SessionLost, SessionStops, LoopStops, Interrupt,
                    Restart, PowerLoss, External
      <3> QED
        BY <3>1, ControlQuiet
    <2> QED
      BY <1>2, <2>1, <2>2 DEF ClientStep
  <1>3. ASSUME NEW k \in Conn, OriginThread(k) PROVE ControlInv'
    <2>1. CASE InUse(k)
      BY <2>1, ControlEnds DEF InUse, Refuse
    <2>2. CASE Destroy(k)
      BY <2>2, ControlDown DEF Destroy
    <2> QED
      BY <1>3, <2>1, <2>2, ControlHello, ControlRegister, ControlSendOk, ControlPublishBegin,
         ControlPublishEnd, ControlMuxDies, ControlLoopEnds, ControlCloseFd DEF OriginThread
  <1>4. CASE Signal
    BY <1>4, ControlSignal
  <1>5. CASE Exit
    BY <1>5, ControlDown DEF Exit
  <1>6. CASE Respawn
    BY <1>6, ControlQuiet DEF Respawn
  <1>7. ASSUME NEW r \in Req, ServePublic(r) \/ \E h \in Host : Arrive(r, h) PROVE ControlInv'
    BY <1>7, ControlServe, ControlArrive
  <1> QED
    BY <1>2, <1>3, <1>4, <1>5, <1>6, <1>7 DEF Step

\* The two maps of the registry and the origin threads agree, for any number of
\* clients, connections, descriptors and host names.
THEOREM RegistryIsConsistent == Spec => []RegistryConsistent
  <1>1. ControlInv => RegistryConsistent
    BY DEF ControlInv, Registry
  <1> QED
    BY <1>1, ControlInit, ControlNext, PTL DEF Spec

\* A public connection is opened to the client that registered its host name,
\* unless the descriptor it had looked up was closed in between.
THEOREM OwnOriginServes == Spec => []ServedByOwnOrigin
  <1>1. ControlInv => ServedByOwnOrigin
    BY DEF ControlInv, Requests, RequestOk, ServedByOwnOrigin
  <1> QED
    BY <1>1, ControlInit, ControlNext, PTL DEF Spec

\* A 502 is given only when the origin was not there all through both lookups.
THEOREM BadGatewayIsTrue == Spec => []NoSpurious502
  <1>1. ControlInv => NoSpurious502
    BY DEF ControlInv, Requests, RequestOk, NoSpurious502
  <1> QED
    BY <1>1, ControlInit, ControlNext, PTL DEF Spec
===============================================================================
