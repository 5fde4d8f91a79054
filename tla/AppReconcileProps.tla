-------------------------- MODULE AppReconcileProps --------------------------
(***************************************************************************)
(* What makes `hostely app` correct.                                       *)
(***************************************************************************)
EXTENDS AppReconcile

\* Every container is described by the state file, with the configuration and
\* the host port it really has, through any sequence of ups, stops, removals,
\* edits, port drifts and failures; except those of an up that did not reach
\* its save or whose save was cut short, of services since dropped from the
\* compose file, and those a forgotten app could not remove.
StateFileTrue ==
    stage # "write" =>
        \A s \in Existing \ (fresh \union lost) :
            \E r \in Record(s) : r.hash = Hash(cont[s].cfg) /\ r.port = cont[s].port

\* When app_up comes to its save, every service of the compose file has a
\* container with the configuration of the file and the present address of the
\* host; only a container whose record an earlier up left wrong may differ.
UpConverges ==
    stage \in {"save", "write"} =>
        \A s \in Services : Exists(s) /\ (cont[s].cfg = ConfigOf(s) \/ s \in lost)

\* Containers created by the same up never share a host port, although the
\* listeners of the first ones are not up yet when the later ones probe.
CreatedPortsDistinct ==
    \A s, t \in fresh : (cont[s].port = cont[t].port /\ cont[s].port # 0) => s = t

\* A service is created only when every service it depends on has a container.
DependenciesFirst ==
    \A s \in fresh : \A d \in ToSet(compose.deps[s]) : Exists(d)

===============================================================================
