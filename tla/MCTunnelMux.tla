----------------------------- MODULE MCTunnelMux -----------------------------
(***************************************************************************)
(* Instances of TunnelMux for TLC.                                         *)
(***************************************************************************)
EXTENDS TunnelMuxProps, TLC

CONSTANT c1

Carry(request, answer) == [side \in Sides |-> IF side = Relay THEN request ELSE answer]
Load(ids, units, link_, stop_) == [ids |-> ids, units |-> units, link |-> link_, stop |-> stop_]

\* A request and an answer of one unit, with every fault.
Faulty == Load({c1}, Carry(1, 1), TRUE, TRUE)

\* Two units each way on a wire that holds.
Longer == Load({c1}, Carry(2, 2), FALSE, FALSE)

Mixed == {Faulty, Longer}
Short == {Faulty}

=============================================================================
