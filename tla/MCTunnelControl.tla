--------------------------- MODULE MCTunnelControl ---------------------------
(***************************************************************************)
(* Instances of TunnelControl for TLC: two clients with two names, with    *)
(* one name, or one of them with a wrong token.                            *)
(***************************************************************************)
EXTENDS TunnelControlProps

CONSTANTS c1, c2, h1, h2

Opt(h, v) == [hostname |-> h, hello |-> v]
Starts == {[c \in Client |-> IF c = c1 THEN Opt(h1, "ok") ELSE o] :
              o \in {Opt(h2, "ok"), Opt(h1, "ok"), Opt(h1, "bad-token")}}

\* All names are spelt in lower case.
AllLower == [h \in Host |-> h]

===============================================================================
