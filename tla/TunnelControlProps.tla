-------------------------- MODULE TunnelControlProps --------------------------
(***************************************************************************)
(* What makes the control plane of the tunnel correct.                     *)
(***************************************************************************)
EXTENDS TunnelControl

\* A thread between register_host and unregister_fd.
Registered(k) == conn[k].pc \in {"accepted", "publish", "publishing", "loop"}

\* The two maps of the registry and the threads agree: a name leads to the
\* descriptor of the one thread that registered it, however registrations,
\* refusals, losses and reused descriptors interleave.
RegistryConsistent ==
    /\ \A h \in Host, f \in Fd : g_hosts[h] = f <=> h \in g_origin_hosts[f]
    /\ \A h \in Host : g_hosts[h] # None =>
          \E k \in Conn : Registered(k) /\ conn[k].fd = g_hosts[h] /\ HostOfThread(k) = h
    /\ \A k \in Conn : Registered(k) => g_hosts[HostOfThread(k)] = conn[k].fd

\* A public connection is opened to the client that registered its host name,
\* unless the descriptor it had looked up was closed, and given to another
\* origin, before it looked up the Mux.
ServedByOwnOrigin ==
    \A r \in Req : req[r].pc = "open" /\ ~req[r].moved /\ conn[req[r].via].pc # "free"
        => HostOfThread(req[r].via) = req[r].host

\* A request gets a 502 only if its origin was not registered, published and
\* alive all through the two lookups, or another origin was being published.
NoSpurious502 ==
    \A r \in Req : req[r].pc = "502" => ~req[r].sure

\* A client that connects gets its session: refusals, lost answers and restarts of
\* the relay only delay it.  The exceptions: it is interrupted, it dies, another
\* client has the name, or the relay holds the name for a client it does not know
\* to be dead.
Holds(c)    == client[c].pc = "session"
GhostOf(c)  == \E k \in Conn : /\ conn[k].pc # "free" /\ wire[k].cut
                               /\ HostOfThread(k) = HostOf(c)
ClientGetsIn ==
    \A c \in Client : client[c].pc = "connect" /\ opts[c].hello = "ok" ~>
        \/ Holds(c) \/ client[c].stop \/ client[c].pc = "aborted" \/ GhostOf(c)
        \/ \E d \in Client \ {c} : Holds(d) /\ HostOf(d) = HostOf(c)

===============================================================================
