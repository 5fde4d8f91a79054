---------------------------- MODULE TunnelMuxProps ----------------------------
(***************************************************************************)
(* What makes the tunnel's data path correct.                              *)
(***************************************************************************)
EXTENDS TunnelMux

FramesOf(side, type, s) ==
    SelectSeq(wire[side], LAMBDA f : f.type = type /\ f.id = s)

\* The units of s that side has sent, in the order its peer will see them: those
\* written to the socket or buffered, then those on the wire.
Held(side, s)  == got[Peer(side)][s] \o buf[Peer(side)][s]
Wired(side, s) == {i \in DOMAIN wire[side] : wire[side][i].type = "data" /\ wire[side][i].id = s}

\* They are 1 .. n, each once and the earlier ahead of the later.
OnTheWay(side, s, n) ==
    LET held  == Held(side, s)
        wired == Wired(side, s)
    IN  /\ ({held[i] : i \in DOMAIN held} \union {wire[side][i].unit : i \in wired}) \ {Dst} = 1 .. n
        /\ \A i, j \in DOMAIN held : i < j => held[i] < held[j]
        /\ \A i, j \in wired : i < j => wire[side][i].unit < wire[side][j].unit
        /\ \A i \in DOMAIN held, j \in wired : held[i] < wire[side][j].unit

Counting(n) == [i \in 1 .. n |-> i]

\* A socket only ever receives the beginning of what was sent at the other
\* end: units of a stream are never reordered, repeated or skipped, whatever
\* the interleaving of readers, pumps, closes and the loss of the connection.
DeliveredInOrder ==
    \A side \in Sides, s \in Ids :
        /\ got[Peer(side)][s] = Counting(Len(got[Peer(side)][s]))
        /\ Len(got[Peer(side)][s]) <= taken[side][s]

\* While the stream is open at the sender and pumped at the receiver, every
\* unit taken from the socket is delivered, buffered, on the wire or in the
\* pump's hands: the mux itself loses nothing, even before accept_stream.
NothingLostWhileOpen ==
    \A side \in Sides, s \in Ids :
        (up /\ ~closed[side][s] /\ pump[Peer(side)][s] \notin {"end", "done"})
            => LET inHand == IF pump[side][s] \in {"send", "sendhup"} THEN 1 ELSE 0
               IN  pump[side][s] # "end" => OnTheWay(side, s, taken[side][s] - inHand)

\* The close handshake settles: a FIN in flight for a stream is answered at
\* most once, so FINs do not bounce between the two muxes.
FinsSettle ==
    \A s \in Ids :
        (\E side \in Sides : FramesOf(side, "fin", s) # <<>>)
            ~> (~up \/ \A side \in Sides : FramesOf(side, "fin", s) = <<>>)

\* A connection that ends at one end of the tunnel ends at the other: no pump
\* thread and no socket is left behind once the other side is done (a stream
\* that accept_stream never returned has no pump).
PumpsEndTogether ==
    \A side \in Sides, s \in Ids :
        (pump[side][s] = "done" /\ pump[Peer(side)][s] # "none")
            ~> (pump[Peer(side)][s] = "done" \/ ~up)

-----------------------------------------------------------------------------
(* A statement of the repository about this code *)

\* client.hpp on tunnel_run: "runs reconnect loop until SIGINT/SIGTERM".  A lost
\* connection to the relay ends the process in ~Mux instead: the reader has set
\* dead_, Mux::close returns before it joins the reader thread, and the
\* destructor of a joinable thread calls std::terminate.
RunsUntilSignalled == ~Alive(Origin) => stop

===============================================================================
