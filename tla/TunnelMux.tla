------------------------------- MODULE TunnelMux -------------------------------
(***************************************************************************)
(* The data path of `hostely tunnel`: one control connection between the   *)
(* relay and the origin, a Mux at each end of it, and for every public     *)
(* connection one multiplexed stream pumped by serve_public at the relay   *)
(* and by bridge_stream at the origin.                                     *)
(*                                                                         *)
(* Threads of each process: the mux reader (read_loop), one pump per       *)
(* stream, and the thread that owns the Mux (origin_thread, tunnel_run).   *)
(* A critical section is one step.  Bytes are units: the pump that takes   *)
(* the k-th unit from its socket sends the payload k, so payloads show     *)
(* loss, duplication and reordering.                                       *)
(***************************************************************************)
EXTENDS Integers, Sequences, FiniteSets

CONSTANTS
    Ids,            \* bound: the stream ids open_stream hands out, one per
                    \* public connection
    NoStream,       \* pending_accept_ when it is empty
    Loads           \* the loads to be checked: which connections arrive, bound:
                    \* how many units each socket peer sends, whether the TCP
                    \* connection between the muxes can be lost, and whether the
                    \* user may interrupt `hostely tunnel`

Relay  == "relay"
Origin == "origin"
Sides  == {Relay, Origin}
Peer(side) == IF side = Relay THEN Origin ELSE Relay

ASSUME TunnelAssumption ==
    /\ IsFiniteSet(Ids) /\ NoStream \notin Ids
    /\ \A l \in Loads : /\ l.ids \subseteq Ids
                         /\ l.units \in [Sides -> Nat] /\ l.units[Relay] > 0
                         /\ l.link \in BOOLEAN /\ l.stop \in BOOLEAN

VARIABLES
    up,         \* the TCP connection is established
    wire,       \* wire[side]: frames sent by side and not yet received
    dead,       \* Mux::dead_
    stuck,      \* a thread waits for ever for mu_, holding mu_ and send_mu_
    reader,     \* the reader thread runs
    streams,    \* keys of Mux::streams_
    pending,    \* the origin's pending_accept_
    closed,     \* MuxStream::closed_
    buf,        \* MuxStream::buffer_
    pump,       \* stage of the stream's pump thread
    produced,   \* units the socket's peer has sent
    taken,      \* units received from the socket
    eof,        \* the socket's peer has closed
    got,        \* units written to the socket
    main,       \* stage of the thread that owns the Mux
    stop,       \* the origin's g_stop
    load        \* the load of this behaviour; no step changes it

link  == <<up, wire>>
mux   == <<dead, stuck, reader, streams, pending>>
conn  == <<closed, buf>>
sock  == <<produced, taken, eof, got>>
vars  == <<link, mux, conn, pump, sock, main, stop>>

Frame(type, s, k) == [type |-> type, id |-> s, unit |-> k]

\* The process of this side runs.
Alive(side) == main[side] \notin {"aborted", "exited"}

Dst == 0    \* the payload of the first line of a stream, "<host>:<port>\n"

-----------------------------------------------------------------------------
(* Mux::send_frame *)

\* The frame is accepted by the kernel; on a lost connection it goes nowhere.
SendOK(side, f) ==
    /\ ~stuck[side]
    /\ wire' = IF up THEN [wire EXCEPT ![side] = Append(@, f)] ELSE wire
    /\ UNCHANGED <<dead, stuck>>

\* send() fails: the failing thread takes mu_ to set dead_.
SendFails(side) ==
    /\ ~stuck[side] /\ ~up
    /\ dead' = [dead EXCEPT ![side] = TRUE]
    /\ UNCHANGED <<wire, stuck>>

\* send() fails in a caller that holds mu_: it waits for itself, with mu_ and
\* send_mu_ locked.
SendFailsHoldingMu(side) ==
    /\ ~stuck[side] /\ ~up
    /\ stuck' = [stuck EXCEPT ![side] = TRUE]
    /\ UNCHANGED <<wire, dead>>

Send(side, f) == SendOK(side, f) \/ SendFails(side)
SendHoldingMu(side, f) == SendOK(side, f) \/ SendFailsHoldingMu(side)

\* Mutant of Fin: the answer to a FIN is sent without regard to closed_.
FinAlways(side, s) == Frame("fin", s, Dst)

\* Mutant of Fin: closing sends nothing.
FinNever(side, s) == Frame("none", NoStream, Dst)

NoFrame == Frame("none", NoStream, Dst)

\* What MuxStream::close sends: nothing when the stream was closed before.
Fin(side, s) == IF closed[side][s] THEN NoFrame ELSE Frame("fin", s, Dst)

-----------------------------------------------------------------------------
(* Mux::read_loop: one complete frame of the peer *)

\* Mutant of Pushed: the payload replaces what is buffered.
PushedOver(b, k) == <<k>>

\* streams_[s] = a new stream
Registered(side, s) == [streams EXCEPT ![side] = @ \union {s}]

\* push_data
Pushed(b, k) == Append(b, k)

ReaderRuns(side) == Alive(side) /\ reader[side] /\ ~stuck[side]

\* A frame that has arrived is handled even when dead_ was set meanwhile: the
\* flag is looked at before recv only.
NextFrame(side, type) ==
    /\ ReaderRuns(side)
    /\ wire[Peer(side)] # <<>>
    /\ Head(wire[Peer(side)]).type = type

Consumed(side) == [wire EXCEPT ![Peer(side)] = Tail(@)]

\* Data for a stream the mux does not know is dropped; a closed stream still
\* buffers.
ReadData(side) ==
    /\ NextFrame(side, "data")
    /\ LET f == Head(wire[Peer(side)])
       IN  buf' = IF f.id \in streams[side]
                  THEN [buf EXCEPT ![side][f.id] = Pushed(@, f.unit)]
                  ELSE buf
    /\ wire' = Consumed(side)
    /\ UNCHANGED <<up, mux, closed, pump, sock, main, stop>>

\* A new stream: the one slot for accept_stream is filled when it is free.
\* The ack, sent with mu_ held, has no effect at the relay.
ReadSyn(side) ==
    /\ NextFrame(side, "syn")
    /\ LET s == Head(wire[Peer(side)]).id
       IN  /\ streams' = Registered(side, s)
           /\ pending' = IF pending = NoStream THEN s ELSE pending
    /\ \/ /\ wire' = Consumed(side)
          /\ UNCHANGED stuck
       \/ /\ ~up
          /\ stuck' = [stuck EXCEPT ![side] = TRUE]
          /\ wire' = Consumed(side)
    /\ UNCHANGED <<up, dead, reader, conn, pump, sock, main, stop>>

\* The peer closed: the stream closes here too and answers, with mu_ held.
ReadFin(side) ==
    /\ NextFrame(side, "fin")
    /\ LET s   == Head(wire[Peer(side)]).id
           fin == Fin(side, s)
       IN  /\ closed' = IF s \in streams[side]
                        THEN [closed EXCEPT ![side][s] = TRUE]
                        ELSE closed
           /\ \/ /\ wire' = [Consumed(side) EXCEPT ![side] =
                               IF s \in streams[side] /\ fin # NoFrame /\ up
                               THEN Append(@, fin) ELSE @]
                 /\ UNCHANGED stuck
              \/ /\ s \in streams[side] /\ fin # NoFrame /\ ~up
                 /\ wire' = Consumed(side)
                 /\ stuck' = [stuck EXCEPT ![side] = TRUE]
    /\ UNCHANGED <<up, dead, reader, streams, pending, buf, pump, sock, main, stop>>

\* recv fails, or dead_ was set by another thread.
ReaderExits(side) ==
    /\ ReaderRuns(side)
    /\ dead[side] \/ ~up
    /\ dead' = [dead EXCEPT ![side] = TRUE]
    /\ reader' = [reader EXCEPT ![side] = FALSE]
    /\ UNCHANGED <<link, stuck, streams, pending, conn, pump, sock, main, stop>>

-----------------------------------------------------------------------------
(* The pumps *)

At(side, s, stage) == Alive(side) /\ pump[side][s] = stage
Goto(side, s, stage) == pump' = [pump EXCEPT ![side][s] = stage]

\* serve_public: the mux of the host is looked up and found alive.
LookupMux(s) ==
    /\ At(Relay, s, "none") /\ ~dead[Relay]
    /\ Goto(Relay, s, "open")
    /\ UNCHANGED <<link, mux, conn, sock, main, stop>>

\* open_stream registers the stream and sends the SYN under mu_.
OpenStream(s) ==
    /\ At(Relay, s, "open")
    /\ SendHoldingMu(Relay, Frame("syn", s, Dst))
    /\ streams' = Registered(Relay, s)
    /\ Goto(Relay, s, "dst")
    /\ UNCHANGED <<up, reader, pending, conn, sock, main, stop>>

\* serve_public: no live mux for the host, 502.
BadGateway(s) ==
    /\ At(Relay, s, "none") /\ dead[Relay]
    /\ Goto(Relay, s, "done")
    /\ UNCHANGED <<link, mux, conn, sock, main, stop>>

\* The first two writes of serve_public, the destination line and the request
\* head already read from the public socket; their results are ignored.
SendDst(s) ==
    /\ At(Relay, s, "dst")
    /\ IF closed[Relay][s]
       THEN UNCHANGED <<wire, dead, stuck>>
       ELSE Send(Relay, Frame("data", s, Dst))
    /\ Goto(Relay, s, "head")
    /\ UNCHANGED <<up, reader, streams, pending, conn, sock, main, stop>>

SendHead(s) ==
    /\ At(Relay, s, "head")
    /\ taken' = [taken EXCEPT ![Relay][s] = 1]
    /\ produced' = [produced EXCEPT ![Relay][s] = 1]
    /\ IF closed[Relay][s]
       THEN UNCHANGED <<wire, dead, stuck>>
       ELSE Send(Relay, Frame("data", s, 1))
    /\ Goto(Relay, s, "poll")
    /\ UNCHANGED <<up, reader, streams, pending, conn, eof, got, main, stop>>

\* bridge_stream reads the destination line; a closed empty stream ends it.
ReadDst(s) ==
    /\ At(Origin, s, "dst")
    /\ \/ /\ buf[Origin][s] # <<>>
          /\ buf' = [buf EXCEPT ![Origin][s] = Tail(@)]
       \/ /\ buf[Origin][s] = <<>> /\ closed[Origin][s]
          /\ UNCHANGED buf
    /\ Goto(Origin, s, "connect")
    /\ UNCHANGED <<link, mux, closed, sock, main, stop>>

Connect(s) ==
    /\ At(Origin, s, "connect")
    /\ Goto(Origin, s, "check")
    /\ UNCHANGED <<link, mux, conn, sock, main, stop>>

ConnectFails(s) ==
    /\ At(Origin, s, "connect")
    /\ Goto(Origin, s, "end")
    /\ UNCHANGED <<link, mux, conn, sock, main, stop>>

\* poll reports data: one unit is received and written to the stream.  On a
\* socket whose peer has closed, poll may report POLLHUP as well, and the pump
\* leaves after this unit.
PollIn(side, s, hup) ==
    /\ At(side, s, "poll")
    /\ taken[side][s] < produced[side][s]
    /\ hup => eof[side][s]
    /\ taken' = [taken EXCEPT ![side][s] = @ + 1]
    /\ Goto(side, s, IF closed[side][s] THEN "end"
                     ELSE IF hup THEN "sendhup" ELSE "send")
    /\ UNCHANGED <<link, mux, conn, produced, eof, got, main, stop>>

\* MuxStream::write found the stream open; the frame is sent now, when the
\* reader may have closed the stream in between.
SendUnit(side, s) ==
    /\ pump[side][s] \in {"send", "sendhup"} /\ Alive(side)
    /\ \/ /\ SendOK(side, Frame("data", s, taken[side][s]))
          /\ Goto(side, s, IF pump[side][s] = "send" THEN "drain" ELSE "end")
       \/ /\ SendFails(side)
          /\ Goto(side, s, "end")
    /\ UNCHANGED <<up, reader, streams, pending, conn, sock, main, stop>>

\* recv returns 0.
PollEof(side, s) ==
    /\ At(side, s, "poll")
    /\ eof[side][s] /\ taken[side][s] = produced[side][s]
    /\ Goto(side, s, "end")
    /\ UNCHANGED <<link, mux, conn, sock, main, stop>>

PollTimeout(side, s) ==
    /\ At(side, s, "poll")
    /\ ~eof[side][s] /\ taken[side][s] = produced[side][s]
    /\ Goto(side, s, "drain")
    /\ UNCHANGED <<link, mux, conn, sock, main, stop>>

\* Mutant of Unread: try_read leaves the last unit in the buffer.
UnreadLast(b) == <<b[Len(b)]>>

\* What try_read leaves in the buffer.
Unread(b) == <<>>

\* try_read returns what is buffered and it is sent to the socket.
Drain(side, s) ==
    /\ At(side, s, "drain") /\ buf[side][s] # <<>>
    /\ got' = [got EXCEPT ![side][s] = @ \o buf[side][s]]
    /\ buf' = [buf EXCEPT ![side][s] = Unread(@)]
    /\ UNCHANGED <<link, mux, closed, pump, produced, taken, eof, main, stop>>

\* The socket's peer is gone: what try_read returned is lost.
DrainFails(side, s) ==
    /\ At(side, s, "drain") /\ buf[side][s] # <<>> /\ eof[side][s]
    /\ buf' = [buf EXCEPT ![side][s] = Unread(@)]
    /\ Goto(side, s, "end")
    /\ UNCHANGED <<link, mux, closed, sock, main, stop>>

Drained(side, s) ==
    /\ At(side, s, "drain") /\ buf[side][s] = <<>>
    /\ Goto(side, s, "check")
    /\ UNCHANGED <<link, mux, conn, sock, main, stop>>

\* The loop condition: bridge_stream evaluates it before polling (and looks at
\* g_stop), serve_public after draining.
Check(side, s) ==
    /\ At(side, s, "check")
    /\ Goto(side, s, IF closed[side][s] \/ (side = Origin /\ stop)
                     THEN "end" ELSE "poll")
    /\ UNCHANGED <<link, mux, conn, sock, main, stop>>

\* The pump closes its socket and its stream.
PumpEnds(side, s) ==
    /\ At(side, s, "end")
    /\ closed' = [closed EXCEPT ![side][s] = TRUE]
    /\ LET fin == Fin(side, s)
       IN  IF fin = NoFrame THEN UNCHANGED <<wire, dead, stuck>>
                            ELSE Send(side, fin)
    /\ Goto(side, s, "done")
    /\ UNCHANGED <<up, reader, streams, pending, buf, sock, main, stop>>

-----------------------------------------------------------------------------
(* The threads that own the muxes *)

\* tunnel_run: accept_stream returns the pending stream; a detached thread
\* bridges it.  The loop goes on while the mux is alive and g_stop is unset.
AcceptStream ==
    /\ main[Origin] = "serve" /\ ~stuck[Origin]
    /\ ~dead[Origin] /\ pending # NoStream
    /\ pump' = [pump EXCEPT ![Origin][pending] = "dst"]
    /\ pending' = NoStream
    /\ main' = [main EXCEPT ![Origin] = IF stop THEN "leave" ELSE "serve"]
    /\ UNCHANGED <<link, dead, stuck, reader, streams, conn, sock, stop>>

\* tunnel_run: accept_stream returns nullptr.
AcceptNull ==
    /\ main[Origin] = "serve" /\ ~stuck[Origin] /\ dead[Origin]
    /\ main' = [main EXCEPT ![Origin] = "leave"]
    /\ UNCHANGED <<link, mux, conn, pump, sock, stop>>

\* ~Mux at the end of tunnel_run's block.  Mux::close returns at once when
\* dead_ is set; the reader thread is then destroyed unjoined, which ends the
\* process (std::terminate).  Otherwise the connection is shut down.
DestroyMux ==
    /\ main[Origin] = "leave" /\ ~stuck[Origin]
    /\ main' = [main EXCEPT ![Origin] = IF dead[Origin] THEN "aborted" ELSE "join"]
    /\ dead' = [dead EXCEPT ![Origin] = TRUE]
    /\ up' = FALSE
    /\ UNCHANGED <<wire, stuck, reader, streams, pending, conn, pump, sock, stop>>

\* Mux::close after join: it closes the streams with mu_ held, and closing an
\* open one sends on the connection just shut down.
CloseStreams ==
    /\ main[Origin] = "join" /\ ~stuck[Origin] /\ ~reader[Origin]
    /\ IF \A s \in streams[Origin] : closed[Origin][s]
       THEN /\ main' = [main EXCEPT ![Origin] = "exited"]
            /\ UNCHANGED stuck
       ELSE /\ main' = [main EXCEPT ![Origin] = "hung"]
            /\ stuck' = [stuck EXCEPT ![Origin] = TRUE]
    /\ UNCHANGED <<link, dead, reader, streams, pending, conn, pump, sock, stop>>

\* origin_thread at the relay: the mux is dead, the host is unregistered and
\* the socket closed; ~Mux then ends the process as above, or waits for mu_.
RelayLeaves ==
    /\ main[Relay] = "serve" /\ dead[Relay]
    /\ main' = [main EXCEPT ![Relay] = IF stuck[Relay] THEN "hung" ELSE "aborted"]
    /\ up' = FALSE
    /\ UNCHANGED <<wire, mux, conn, pump, sock, stop>>

-----------------------------------------------------------------------------
(* The environment *)

\* The public client, or the local application, sends a unit or closes.
Connected(side, s) == Alive(side) /\ pump[side][s] \notin
                          {"none", "open", "dst", "head", "connect", "done"}

PeerSends(side, s) ==
    /\ Connected(side, s) /\ ~eof[side][s]
    /\ produced[side][s] < load.units[side]
    /\ produced' = [produced EXCEPT ![side][s] = @ + 1]
    /\ UNCHANGED <<link, mux, conn, pump, taken, eof, got, main, stop>>

PeerCloses(side, s) ==
    /\ Connected(side, s) /\ ~eof[side][s]
    /\ eof' = [eof EXCEPT ![side][s] = TRUE]
    /\ UNCHANGED <<link, mux, conn, pump, produced, taken, got, main, stop>>

LinkLost ==
    /\ load.link /\ up
    /\ up' = FALSE
    /\ UNCHANGED <<wire, mux, conn, pump, sock, main, stop>>

\* SIGINT or SIGTERM to `hostely tunnel`.
Interrupt ==
    /\ load.stop /\ ~stop /\ main[Origin] = "serve"
    /\ stop' = TRUE
    /\ UNCHANGED <<link, mux, conn, pump, sock, main>>

-----------------------------------------------------------------------------
Init ==
    /\ up = TRUE /\ wire = [side \in Sides |-> <<>>]
    /\ dead = [side \in Sides |-> FALSE]
    /\ stuck = [side \in Sides |-> FALSE]
    /\ reader = [side \in Sides |-> TRUE]
    /\ streams = [side \in Sides |-> {}] /\ pending = NoStream
    /\ closed = [side \in Sides |-> [s \in Ids |-> FALSE]]
    /\ buf = [side \in Sides |-> [s \in Ids |-> <<>>]]
    /\ pump = [side \in Sides |-> [s \in Ids |-> "none"]]
    /\ produced = [side \in Sides |-> [s \in Ids |-> 0]]
    /\ taken = [side \in Sides |-> [s \in Ids |-> 0]]
    /\ eof = [side \in Sides |-> [s \in Ids |-> FALSE]]
    /\ got = [side \in Sides |-> [s \in Ids |-> <<>>]]
    /\ main = [side \in Sides |-> "serve"]
    /\ stop = FALSE
    /\ load \in Loads

Reader(side) == ReadData(side) \/ ReadSyn(side) \/ ReadFin(side) \/ ReaderExits(side)

Pump(side, s) ==
    \/ \E hup \in BOOLEAN : PollIn(side, s, hup)
    \/ SendUnit(side, s) \/ PollEof(side, s) \/ PollTimeout(side, s)
    \/ Drain(side, s) \/ DrainFails(side, s) \/ Drained(side, s)
    \/ Check(side, s) \/ PumpEnds(side, s)

ServePublic(s) == OpenStream(s) \/ SendDst(s) \/ SendHead(s) \/ Pump(Relay, s)
BridgeStream(s) == ReadDst(s) \/ Connect(s) \/ ConnectFails(s) \/ Pump(Origin, s)

TunnelRun == AcceptStream \/ AcceptNull \/ DestroyMux \/ CloseStreams

Environment ==
    \/ \E s \in load.ids : LookupMux(s) \/ BadGateway(s)
    \/ \E side \in Sides, s \in Ids : PeerSends(side, s) \/ PeerCloses(side, s)
    \/ LinkLost \/ Interrupt

Step ==
    \/ \E side \in Sides : Reader(side)
    \/ \E s \in Ids : ServePublic(s) \/ BridgeStream(s)
    \/ TunnelRun \/ RelayLeaves
    \/ Environment

Next == Step /\ UNCHANGED load

Spec == Init /\ [][Next]_<<vars, load>>

\* Every thread that can take a step takes one.  The environment (arrival of
\* public connections included) owes nothing.
Fairness ==
    /\ \A side \in Sides : WF_vars(Reader(side))
    /\ \A s \in Ids : WF_vars(ServePublic(s)) /\ WF_vars(BridgeStream(s))
    /\ WF_vars(TunnelRun) /\ WF_vars(RelayLeaves)

FairSpec == Spec /\ Fairness
================================================================================
