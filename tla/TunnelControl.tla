----------------------------- MODULE TunnelControl -----------------------------
(***************************************************************************)
(* The control plane of the tunnel: `hostely tunnel' clients that connect, *)
(* register a host name and reconnect (src/tunnel/client.cpp), and the     *)
(* relay's registry, which its origin threads write and its public         *)
(* connections read (src/tunnel/relay.cpp).  What the connection carries   *)
(* once it is registered is in TunnelMux.                                  *)
(***************************************************************************)
EXTENDS Naturals, FiniteSets

CONSTANTS
    None,
    Client,          \* the tunnel clients
    Options,         \* what they may be started with: for each client a record of
                     \* the hostname and of what origin_thread makes of its hello
                     \* line ("ok" or an error)
    Host, Lower,     \* std::tolower on host names
    Conn,            \* control connections
    Fd,              \* file descriptors for them
    Req,             \* public connections
    MaxEvents        \* interrupts, power cuts and restarts

ASSUME ControlAssumption ==
    /\ \A o \in Options, c \in Client : o[c].hostname \in Host
    /\ Lower \in [Host -> Host]
    /\ None \notin Fd /\ None \notin Conn

VARIABLES
    up, stop,        \* the relay runs; its g_stop
    conn,            \* origin threads, by connection
    wire,            \* the TCP connections
    g_hosts, g_origin_hosts, g_origin_muxes,
    client, opts,    \* the clients, and the TunnelOptions of each
    req,             \* public connections
    events

registry == <<g_hosts, g_origin_hosts, g_origin_muxes>>
vars == <<up, stop, conn, wire, g_hosts, g_origin_hosts, g_origin_muxes,
          client, opts, req, events>>

HostOf(c) == opts[c].hostname

NoThread == [pc |-> "free", fd |-> None, of |-> None, dead |-> FALSE]
NewWire  == [hello |-> FALSE, reply |-> "none", syn |-> FALSE,
             rclosed |-> FALSE, cclosed |-> FALSE, cut |-> FALSE]
NoReq    == [pc |-> "free"]
HasMux   == {"publish", "publishing", "loop", "close", "destroy"}
OpenFds  == {conn[k].fd : k \in {j \in Conn : conn[j].pc # "free"}}

Event == events < MaxEvents /\ events' = events + 1
External == Event /\ UNCHANGED <<up, stop, conn, registry, req>>

\* A connection whose thread is gone and that no client holds.
Spare(k) == /\ conn[k].pc = "free"
            /\ \A c \in Client : client[c].conn # k

-----------------------------------------------------------------------------
\* The client: tunnel_run.

Goto(c, pc) == client' = [client EXCEPT ![c].pc = pc]

Leave(c, pc) == client' = [client EXCEPT ![c].pc = pc, ![c].conn = None]

\* One end is closed; a connection both ends have closed is forgotten.
ClientCloses(w) == IF w.rclosed THEN NewWire ELSE [w EXCEPT !.cclosed = TRUE]
RelayCloses(w)  == IF w.cclosed \/ w.cut THEN NewWire ELSE [w EXCEPT !.rclosed = TRUE]
Hangs(c) == wire' = [wire EXCEPT ![client[c].conn] = ClientCloses(@)]

\* The pauses of 3, 5 and 10 seconds before an attempt are not modelled: an
\* attempt is made at any time, and one made while the relay is down is not
\* told from a pause.  tcp_connect, and the relay's accept, which starts an origin thread.
Connect(c) ==
    /\ client[c].pc = "connect" /\ ~client[c].stop /\ up /\ ~stop
    /\ \E k \in Conn, f \in Fd \ OpenFds :
         /\ Spare(k) /\ \A j \in Conn : Spare(j) => k <= j
         /\ \A g \in Fd \ OpenFds : f <= g          \* the lowest free descriptor
         /\ conn' = [conn EXCEPT ![k] = [pc |-> "hello", fd |-> f, of |-> c, dead |-> FALSE]]
         /\ wire' = [wire EXCEPT ![k] = NewWire]
         /\ client' = [client EXCEPT ![c].pc = "send", ![c].conn = k]
    /\ UNCHANGED <<up, stop, registry, req, events>>
\* send_all_plain: the hello line, unless the relay has hung up.
SendHello(c) ==
    /\ client[c].pc = "send"
    /\ IF wire[client[c].conn].rclosed
       THEN Hangs(c) /\ Leave(c, "connect")
       ELSE /\ wire' = [wire EXCEPT ![client[c].conn].hello = TRUE]
            /\ Goto(c, "reply")
    /\ UNCHANGED <<up, stop, conn, registry, req, events>>

\* Mutant of ReadReply: only an answer is waited for, not the end of the connection.
ReadAnswer(c) ==
    /\ client[c].pc = "reply"
    /\ LET w == wire[client[c].conn] IN
       \/ w.reply = "OK" /\ Goto(c, "session") /\ UNCHANGED wire
       \/ w.reply = "ERR" /\ Hangs(c) /\ Leave(c, "connect")
    /\ UNCHANGED <<up, stop, conn, registry, req, events>>

\* read_line_plain: OK begins a session; an error, or the end of the
\* connection, is waited out.
ReadReply(c) ==
    /\ client[c].pc = "reply"
    /\ LET w == wire[client[c].conn] IN
       \/ w.reply = "OK" /\ Goto(c, "session") /\ UNCHANGED wire
       \/ /\ w.reply = "ERR" \/ (w.reply = "none" /\ w.rclosed)
          /\ Hangs(c) /\ Leave(c, "connect")
    /\ UNCHANGED <<up, stop, conn, registry, req, events>>

\* The session is lost: ~Mux finds the Mux dead, does not join its reader, and
\* the destructor of the thread ends the process.
SessionLost(c) ==
    /\ client[c].pc = "session" /\ wire[client[c].conn].rclosed
    /\ Hangs(c) /\ Leave(c, "aborted")
    /\ UNCHANGED <<up, stop, conn, registry, req, events>>

\* An interrupted client leaves its loop when the next stream arrives; in all
\* other states before its next attempt.
SessionStops(c) ==
    /\ client[c].pc = "session" /\ client[c].stop /\ wire[client[c].conn].syn
    /\ Hangs(c) /\ Leave(c, "done")
    /\ UNCHANGED <<up, stop, conn, registry, req, events>>
LoopStops(c) ==
    /\ client[c].pc = "connect" /\ client[c].stop /\ Goto(c, "done")
    /\ UNCHANGED <<up, stop, conn, wire, registry, req, events>>

ClientStep(c) ==
    \/ Connect(c) \/ SendHello(c) \/ ReadReply(c)
    \/ SessionLost(c) \/ SessionStops(c) \/ LoopStops(c)

\* on_signal; a user, or launchd, starts the client again; its machine loses
\* power, and nobody tells the relay.
Interrupt(c) ==
    /\ client[c].pc \notin {"aborted", "done"} /\ ~client[c].stop
    /\ client' = [client EXCEPT ![c].stop = TRUE]
    /\ External /\ UNCHANGED wire
Restart(c) ==
    /\ client[c].pc \in {"aborted", "done"}
    /\ client' = [client EXCEPT ![c] = [pc |-> "connect", stop |-> FALSE, conn |-> None]]
    /\ External /\ UNCHANGED wire
PowerLoss(c) ==
    /\ client[c].pc = "session" /\ Leave(c, "aborted")
    /\ wire' = [wire EXCEPT ![client[c].conn].cut = TRUE]
    /\ External

-----------------------------------------------------------------------------
\* The relay: origin_thread.

At(k, pc)   == conn' = [conn EXCEPT ![k].pc = pc]
Ends(k)     == conn' = [conn EXCEPT ![k] = NoThread]
Reply(k, m) == wire' = [wire EXCEPT ![k].reply = m]
Refuse(k)   == Ends(k) /\ wire' = [wire EXCEPT ![k] = RelayCloses([@ EXCEPT !.reply = "ERR"])]

\* The hello line is read and checked (bad-hello, bad-token, bad-hostname).
ReadHello(k) ==
    /\ conn[k].pc = "hello"
    /\ \/ wire[k].hello /\ opts[conn[k].of].hello = "ok" /\ At(k, "register") /\ UNCHANGED wire
       \/ wire[k].hello /\ opts[conn[k].of].hello # "ok" /\ Refuse(k)
       \/ /\ wire[k].cclosed /\ ~wire[k].hello /\ Ends(k)
          /\ wire' = [wire EXCEPT ![k] = RelayCloses(@)]
    /\ UNCHANGED <<up, stop, registry, client, req, events>>

HostOfThread(k) == HostOf(conn[k].of)

\* A name has one origin; the name is kept as the client spells it.
register_host(h, f) ==
    /\ g_hosts[h] = None
    /\ g_hosts' = [g_hosts EXCEPT ![h] = f]
    /\ g_origin_hosts' = [g_origin_hosts EXCEPT ![f] = @ \union {h}]

Register(k) ==
    /\ conn[k].pc = "register"
    /\ register_host(HostOfThread(k), conn[k].fd)
    /\ At(k, "accepted")
    /\ UNCHANGED <<up, stop, wire, g_origin_muxes, client, req, events>>
InUse(k) ==
    /\ conn[k].pc = "register" /\ g_hosts[HostOfThread(k)] # None
    /\ Refuse(k)
    /\ UNCHANGED <<up, stop, registry, client, req, events>>

SendOk(k) ==
    /\ conn[k].pc = "accepted" /\ Reply(k, "OK") /\ At(k, "publish")
    /\ UNCHANGED <<up, stop, registry, client, req, events>>

\* The insertion in g_origin_muxes holds g_mu; lookups hold g_mux_mu, and may
\* run in its middle.
PublishBegin(k) ==
    /\ conn[k].pc = "publish" /\ At(k, "publishing")
    /\ req' = [r \in Req |-> IF req[r].pc = "mux"
                             THEN [req[r] EXCEPT !.sure = FALSE] ELSE req[r]]
    /\ UNCHANGED <<up, stop, wire, registry, client, events>>

\* Mutant of PublishEnd: one Mux pointer for all origins.
PublishForAll(k) ==
    /\ conn[k].pc = "publishing" /\ At(k, "loop")
    /\ g_origin_muxes' = [f \in Fd |-> k]
    /\ UNCHANGED <<up, stop, wire, g_hosts, g_origin_hosts, client, req, events>>

PublishEnd(k) ==
    /\ conn[k].pc = "publishing" /\ At(k, "loop")
    /\ g_origin_muxes' = [g_origin_muxes EXCEPT ![conn[k].fd] = k]
    /\ UNCHANGED <<up, stop, wire, g_hosts, g_origin_hosts, client, req, events>>

\* The reader of the Mux sees the end of the connection, if the network tells.
MuxDies(k) ==
    /\ conn[k].pc \in {"publish", "publishing", "loop"} /\ ~conn[k].dead
    /\ wire[k].cclosed /\ ~wire[k].cut
    /\ conn' = [conn EXCEPT ![k].dead = TRUE]
    /\ req' = [r \in Req |-> IF req[r].pc = "mux" /\ req[r].fd = conn[k].fd
                             THEN [req[r] EXCEPT !.sure = FALSE] ELSE req[r]]
    /\ UNCHANGED <<up, stop, wire, registry, client, events>>

\* unregister_fd, then close(fd), then ~Mux.
Unregistered(f) ==
    /\ g_hosts' = [h \in Host |-> IF h \in g_origin_hosts[f] THEN None ELSE g_hosts[h]]
    /\ g_origin_hosts' = [g_origin_hosts EXCEPT ![f] = {}]

\* The requests that have looked up this descriptor.
Dropped(f) == [r \in Req |-> IF req[r].pc = "mux" /\ req[r].fd = f
                             THEN [req[r] EXCEPT !.sure = FALSE, !.moved = TRUE] ELSE req[r]]

\* Mutant of LoopEnds: the descriptor is closed before the names are released.
CloseFirst(k) ==
    /\ conn[k].pc = "loop" /\ (conn[k].dead \/ stop)
    /\ conn' = [conn EXCEPT ![k].pc = "close", ![k].fd = None]
    /\ wire' = [wire EXCEPT ![k] = RelayCloses(@)] /\ req' = Dropped(conn[k].fd)
    /\ UNCHANGED <<up, stop, registry, client, events>>

LoopEnds(k) ==
    /\ conn[k].pc = "loop" /\ (conn[k].dead \/ stop)
    /\ Unregistered(conn[k].fd) /\ At(k, "close")
    /\ UNCHANGED <<up, stop, wire, g_origin_muxes, client, req, events>>
CloseFd(k) ==
    /\ conn[k].pc = "close"
    /\ conn' = [conn EXCEPT ![k].pc = "destroy", ![k].fd = None]
    /\ wire' = [wire EXCEPT ![k] = RelayCloses(@)] /\ req' = Dropped(conn[k].fd)
    /\ UNCHANGED <<up, stop, registry, client, events>>

\* The relay process is gone: every connection is closed.
Down ==
    /\ up' = FALSE /\ stop' = FALSE
    /\ conn' = [k \in Conn |-> NoThread]
    /\ wire' = [k \in Conn |-> IF conn[k].pc = "free" THEN wire[k]
                               ELSE IF conn[k].pc = "destroy" THEN wire[k]
                               ELSE RelayCloses(wire[k])]
    /\ g_hosts' = [h \in Host |-> None] /\ g_origin_hosts' = [f \in Fd |-> {}]
    /\ g_origin_muxes' = [f \in Fd |-> None]
    /\ req' = [r \in Req |-> NoReq]
    /\ UNCHANGED <<client, events>>

\* ~Mux of a lost connection ends the relay as it ends the client.
Destroy(k) == conn[k].pc = "destroy" /\ conn[k].dead /\ Down

OriginThread(k) ==
    \/ ReadHello(k) \/ Register(k) \/ InUse(k) \/ SendOk(k)
    \/ PublishBegin(k) \/ PublishEnd(k) \/ MuxDies(k)
    \/ LoopEnds(k) \/ CloseFd(k) \/ Destroy(k)

\* SIGINT or SIGTERM, the end of main's loop, and a new start by a supervisor.
Signal  == /\ up /\ ~stop /\ stop' = TRUE /\ Event
           /\ UNCHANGED <<up, conn, wire, registry, client, req>>
Exit    == stop /\ Down
Respawn == /\ ~up /\ up' = TRUE
           /\ UNCHANGED <<stop, conn, wire, registry, client, req, events>>

-----------------------------------------------------------------------------
\* The relay: public connections.

\* History: an origin with a live Mux has this name and is published, and nobody
\* is publishing.
Ready(h) == /\ g_hosts[h] # None
            /\ LET k == g_origin_muxes[g_hosts[h]]
               IN  k # None /\ conn[k].fd = g_hosts[h] /\ ~conn[k].dead /\ conn[k].pc = "loop"
            /\ \A j \in Conn : conn[j].pc # "publishing"

\* On a new connection, which takes the place of an answered one, main reads the
\* request, folds its Host header to lower case, and serve_public
\* asks find_origin.
Arrive(r, h) ==
    /\ req[r].pc # "mux" /\ up /\ ~stop
    /\ req' = [req EXCEPT ![r] =
                 [pc |-> "mux", host |-> Lower[h], fd |-> g_hosts[Lower[h]], via |-> None,
                  sure |-> Ready(Lower[h]), moved |-> FALSE]]
    /\ UNCHANGED <<up, stop, conn, wire, registry, client, events>>

\* Mutant of Lookup: the Mux of the first origin is taken.
LookupFirst(f) == IF f = None THEN {None} ELSE {g_origin_muxes[1]}

\* What a lookup finds for f: during an insertion it may miss the entry, or
\* already see the new one.
Lookup(f) ==
    LET ks == {k \in Conn : conn[k].pc = "publishing"}
    IN  IF f = None THEN {None}
        ELSE {g_origin_muxes[f]} \union (IF ks = {} THEN {} ELSE {None})
                                 \union {k \in ks : conn[k].fd = f}

\* mux->ok(); a pointer to a Mux that is destroyed is not followed into reuse,
\* since its destruction ends the relay.
MuxOk(k) == k # None /\ conn[k].pc \in HasMux /\ ~conn[k].dead

\* serve_public: a stream of the Mux, or 502.
ServePublic(r) ==
    /\ req[r].pc = "mux"
    /\ \E k \in Lookup(req[r].fd) :
         IF MuxOk(k)
         THEN /\ req' = [req EXCEPT ![r].pc = "open", ![r].via = k, ![r].fd = None,
                                    ![r].sure = FALSE]
              /\ wire' = [wire EXCEPT ![k].syn = TRUE]
         ELSE req' = [req EXCEPT ![r] = [pc |-> "502", sure |-> @.sure]] /\ UNCHANGED wire
    /\ UNCHANGED <<up, stop, conn, registry, client, events>>

-----------------------------------------------------------------------------

Init ==
    /\ up = TRUE /\ stop = FALSE
    /\ conn = [k \in Conn |-> NoThread] /\ wire = [k \in Conn |-> NewWire]
    /\ g_hosts = [h \in Host |-> None] /\ g_origin_hosts = [f \in Fd |-> {}]
    /\ g_origin_muxes = [f \in Fd |-> None]
    /\ client = [c \in Client |-> [pc |-> "connect", stop |-> FALSE, conn |-> None]]
    /\ opts \in Options
    /\ req = [r \in Req |-> NoReq] /\ events = 0

Step ==
    \/ \E c \in Client : ClientStep(c) \/ Interrupt(c) \/ Restart(c) \/ PowerLoss(c)
    \/ \E k \in Conn : OriginThread(k)
    \/ Signal \/ Exit \/ Respawn
    \/ \E r \in Req : ServePublic(r) \/ \E h \in Host : Arrive(r, h)

Next == Step /\ UNCHANGED opts

Spec == Init /\ [][Next]_vars

\* Threads and clients run, and a supervisor starts the relay again.
Fairness ==
    /\ \A c \in Client : WF_vars(ClientStep(c) /\ UNCHANGED opts)
    /\ \A k \in Conn : WF_vars(OriginThread(k) /\ UNCHANGED opts)
    /\ WF_vars((Exit \/ Respawn) /\ UNCHANGED opts)

FairSpec == Spec /\ Fairness

===============================================================================
