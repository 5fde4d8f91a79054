----------------------------- MODULE AppReconcile -----------------------------
(***************************************************************************)
(* `hostely app`: up, stop and rm of one compose-defined app against the   *)
(* container runtime, the app's state file and the ports of the host.      *)
(*                                                                         *)
(* One command runs at a time; between any two of its calls to the runtime *)
(* containers exit, listeners come up and other programs take and release  *)
(* ports.  Every call may fail, and the command may be killed, at most     *)
(* MaxFaults times.  app_up reads the compose file and the LAN address     *)
(* once, at its beginning, so that both change only between commands here. *)
(*                                                                         *)
(* Data: a container is known by its service (its name is <app>-<service>);*)
(* a configuration is what config_fingerprint hashes, cut down to a        *)
(* version (image, volumes, command, dns, memory), the wanted host port    *)
(* (0: none) and the value of one address-valued environment variable.  A  *)
(* service publishes at most one port.  FNV-1a collisions are ignored.     *)
(***************************************************************************)
EXTENDS TopoSort

CONSTANTS Service,      \* service names
          NoService,    \* an environment value that names no service
          Version,      \* the rest of a service's configuration
          Address,      \* LAN addresses of the host
          MaxPort,      \* host ports are 1 .. MaxPort
          ForeignPort,  \* the ports other programs take now and then
          Composes,     \* the contents the compose file may have
          MaxFaults,    \* bound on failing calls and kills
          MayKill       \* whether a command may be killed

Compose == [services : Seq(Service), deps : [Service -> Seq(Service \union {NoService})],
            ver : [Service -> Version], port : [Service -> 0 .. MaxPort],
            env : [Service -> Service \union {NoService}]]

ASSUME ComposesAssumption == \A c \in Composes : c \in Compose
ASSUME BoundsAssumption == MaxPort \in Nat /\ MaxFaults \in Nat
                           /\ ForeignPort \subseteq 1 .. MaxPort /\ MayKill \in BOOLEAN

Config == [ver : Version, port : 0 .. MaxPort,
           env : Service \union {NoService} \union Address]

VARIABLES
    compose,    \* the compose file of the app's directory
    host,       \* lan_ip()
    cont,       \* the runtime's containers: state, configuration, host port,
                \*   and whether the forwarded port is a live listener yet
    foreign,    \* ports other programs listen on
    file,       \* AppState.services in the state file; <<>> also when load_state
                \*   returns false (no file, or one that does not parse)
    stage,      \* where the running command is
    todo,       \* services the loop of the command has still to visit
    state,      \* app_up: state.services built so far
    claimed,    \* app_up: claimed_ports
    needs_run,  \* app_up: the current service is (re)created
    port,       \* app_up: ro.ports of the current service
    fresh,      \* history: services created by the running app_up
    lost,       \* history: containers the state file is not expected to describe
    faults      \* failed calls and kills so far

world  == <<compose, host, foreign>>
locals == <<todo, state, claimed, needs_run, port>>
vars   == <<compose, host, cont, foreign, file, stage, todo, state, claimed,
            needs_run, port, fresh, lost, faults>>

Absent == [st |-> "none", cfg |-> <<>>, port |-> 0, listening |-> FALSE]
Container(st, cfg, p) == [st |-> st, cfg |-> cfg, port |-> p, listening |-> FALSE]
Stopped(c) == IF c.st = "none" THEN c ELSE [c EXCEPT !.st = "stopped", !.listening = FALSE]

Exists(s)   == cont[s].st # "none"
Existing    == {s \in Service : Exists(s)}
Record(s)   == {r \in ToSet(file) : r.service = s}
Services    == ToSet(compose.services)
Fault       == faults < MaxFaults /\ faults' = faults + 1

\* Mutant of Hash: the fingerprint leaves the environment out.
HashNoEnv(cfg) == [ver |-> cfg.ver, port |-> cfg.port]

\* config_fingerprint: injective on configurations.
Hash(cfg) == cfg

\* The configuration app_up gives s: an address-valued variable that names
\* another service of the file carries the host's address instead.
ConfigOf(s) ==
    [ver  |-> compose.ver[s],
     port |-> compose.port[s],
     env  |-> IF compose.env[s] \in Services \ {s} THEN host ELSE compose.env[s]]

-----------------------------------------------------------------------------
(* Ports *)

\* port_in_use: someone accepts connections on p.
PortInUse(p) == p \in foreign \/ \E s \in Existing : cont[s].listening /\ cont[s].port = p

\* Mutant of Taken: the claims of this run are not looked at.
TakenByListener(p) == PortInUse(p)

Taken(p) == PortInUse(p) \/ p \in claimed

\* The first port from the wanted one upwards that is not taken; 0 is passed on.
PickPort(wanted) ==
    IF wanted = 0 THEN 0
    ELSE CHOOSE p \in wanted .. MaxPort :
             ~Taken(p) /\ \A q \in wanted .. p - 1 : Taken(q)

\* MaxPort bounds the search.
PortLeft(wanted) == wanted = 0 \/ \E p \in wanted .. MaxPort : ~Taken(p)

\* Mutant of KeptPort: the port picked now is recorded for a kept service.
KeptPortPicked(s) == PickPort(compose.port[s])

\* A kept service keeps the port of its record.
KeptPort(s) == (CHOOSE r \in Record(s) : TRUE).port

-----------------------------------------------------------------------------
(* app up *)

\* The command returns: its locals are gone.
Return ==
    /\ stage' = "idle" /\ todo' = <<>> /\ state' = <<>>
    /\ claimed' = {} /\ needs_run' = TRUE /\ port' = 0

\* app_up returns without having saved its state.
ReturnUnsaved(alsoLost) ==
    /\ Return /\ fresh' = {} /\ lost' = lost \union fresh \union alsoLost

\* Mutant of Plan: services start in file order.
PlanInFileOrder == [out |-> compose.services, ok |-> TRUE]

Plan == TopoSort(compose.services, compose.deps)

\* Parse, sort, begin.  An error there returns before anything was changed.
UpStart ==
    /\ stage = "idle" /\ Plan.ok
    /\ todo' = Plan.out
    /\ stage' = IF Plan.out = <<>> THEN "save" ELSE "decide"
    /\ UNCHANGED <<world, cont, file, state, claimed, needs_run, port, fresh, lost, faults>>

Current == Head(todo)

\* The state file has s with the configuration it should have.
SameConfig(s) == \E r \in Record(s) : r.hash = Hash(ConfigOf(s))

Decided(keep) ==
    /\ needs_run' = ~keep /\ stage' = "ports"
    /\ UNCHANGED <<world, file, todo, state, claimed, port, fresh>>

\* Unchanged and running.  (When only list() fails the container is found by
\* `ls -a` and started again, which changes nothing.)
KeepRunning ==
    /\ stage = "decide" /\ SameConfig(Current) /\ cont[Current].st = "running"
    /\ Decided(TRUE) /\ UNCHANGED <<cont, lost, faults>>

\* Unchanged and stopped: start it; a failure is only a warning.
KeepStopped ==
    /\ stage = "decide" /\ SameConfig(Current) /\ cont[Current].st = "stopped"
    /\ Decided(TRUE) /\ UNCHANGED lost
    /\ \/ cont' = [cont EXCEPT ![Current].st = "running"] /\ UNCHANGED faults
       \/ Fault /\ UNCHANGED cont

\* stop, then `rm -f`; what either answers is ignored.
RemoveStale ==
    \/ /\ cont' = [cont EXCEPT ![Current] = Absent]
       /\ lost' = lost \ {Current}
    \/ /\ Exists(Current)
       /\ \/ UNCHANGED cont
          \/ cont' = [cont EXCEPT ![Current] = Stopped(@)]
       /\ UNCHANGED lost

\* New, changed or gone: remove what there is.
Recreate ==
    /\ stage = "decide" /\ ~(SameConfig(Current) /\ Exists(Current))
    /\ Decided(FALSE)
    /\ RemoveStale
    /\ IF cont'[Current].st = "none" THEN UNCHANGED faults ELSE Fault

\* The container is there, but neither `ls` nor `ls -a` says so.
QueryFails ==
    /\ stage = "decide" /\ SameConfig(Current) /\ Exists(Current)
    /\ Fault /\ Decided(FALSE) /\ RemoveStale

Entry(s, p) == [service |-> s, hash |-> Hash(ConfigOf(s)), port |-> p]

Advance ==
    /\ todo' = Tail(todo)
    /\ stage' = IF Tail(todo) = <<>> THEN "save" ELSE "decide"

\* The port loop runs for kept services too: it claims the port it would have
\* picked, and the recorded one is used.
KeepPorts ==
    /\ stage = "ports" /\ ~needs_run /\ PortLeft(compose.port[Current])
    /\ claimed' = claimed \union ({PickPort(compose.port[Current])} \ {0})
    /\ state' = Append(state, Entry(Current, KeptPort(Current)))
    /\ needs_run' = TRUE /\ port' = 0
    /\ Advance
    /\ UNCHANGED <<world, cont, file, fresh, lost, faults>>

ChoosePort ==
    /\ stage = "ports" /\ needs_run /\ PortLeft(compose.port[Current])
    /\ port' = PickPort(compose.port[Current])
    /\ claimed' = claimed \union ({port'} \ {0})
    /\ stage' = "run"
    /\ UNCHANGED <<world, cont, file, todo, state, needs_run, fresh, lost, faults>>

Run ==
    /\ stage = "run" /\ ~Exists(Current)
    /\ cont' = [cont EXCEPT ![Current] = Container("running", ConfigOf(Current), port)]
    /\ state' = Append(state, Entry(Current, port))
    /\ fresh' = fresh \union {Current}
    /\ port' = 0
    /\ Advance
    /\ UNCHANGED <<world, file, claimed, needs_run, lost, faults>>

\* `container run` fails: always when the name is still taken, and otherwise
\* with or without a created container left behind.  app_up gives up.
RunFails ==
    /\ stage = "run"
    /\ \/ Exists(Current) /\ UNCHANGED <<cont, faults>> /\ ReturnUnsaved({})
       \/ ~Exists(Current) /\ Fault /\ UNCHANGED cont /\ ReturnUnsaved({})
       \/ /\ ~Exists(Current) /\ Fault
          /\ cont' = [cont EXCEPT ![Current] = Container("stopped", ConfigOf(Current), port)]
          /\ ReturnUnsaved({Current})
    /\ UNCHANGED <<world, file>>

\* save_state opens the file for writing, which empties it.
SaveOpen ==
    /\ stage = "save"
    /\ file' = <<>> /\ stage' = "write"
    /\ UNCHANGED <<world, cont, locals, fresh, lost, faults>>

SaveFails ==
    /\ stage = "save" /\ Fault /\ ReturnUnsaved({})
    /\ UNCHANGED <<world, cont, file>>

\* The stream is not looked at again: app_up succeeds although the file may have
\* stayed empty, or been cut short so that it does not parse.
SaveWrite ==
    /\ stage = "write"
    /\ \/ /\ file' = state /\ UNCHANGED faults
          /\ lost' = (lost \ fresh) \union (Existing \ Services)
       \/ Fault /\ UNCHANGED file /\ lost' = Existing
    /\ Return /\ fresh' = {}
    /\ UNCHANGED <<world, cont>>

-----------------------------------------------------------------------------
(* app stop and app rm *)

Names(records) == [i \in DOMAIN records |-> records[i].service]

\* Without a readable state file both return an error.
StopStart ==
    /\ stage = "idle" /\ file # <<>>
    /\ todo' = Reverse(Names(file))
    /\ stage' \in {"stop", "rmstop"}
    /\ UNCHANGED <<world, cont, file, state, claimed, needs_run, port, fresh, lost, faults>>

AfterStop ==
    IF Tail(todo) # <<>> THEN todo' = Tail(todo) /\ stage' = stage
    ELSE IF stage = "rmstop" THEN todo' = Names(file) /\ stage' = "rm"
    ELSE todo' = <<>> /\ stage' = "idle"

\* Manager::stop of the next container; a failure is only a warning.
StopOne ==
    /\ stage \in {"stop", "rmstop"}
    /\ \/ cont' = [cont EXCEPT ![Current] = Stopped(@)] /\ UNCHANGED faults
       \/ Fault /\ UNCHANGED cont
    /\ AfterStop
    /\ UNCHANGED <<world, file, state, claimed, needs_run, port, fresh, lost>>

RmOne ==
    /\ stage = "rm" /\ todo # <<>>
    /\ \/ cont' = [cont EXCEPT ![Current] = Absent] /\ UNCHANGED faults
          /\ lost' = lost \ {Current}
       \/ Fault /\ UNCHANGED <<cont, lost>>
    /\ todo' = Tail(todo)
    /\ UNCHANGED <<world, file, stage, state, claimed, needs_run, port, fresh>>

\* The state file is deleted, whatever could not be removed.
Forget ==
    /\ stage = "rm" /\ todo = <<>>
    /\ file' = <<>> /\ lost' = Existing
    /\ Return
    /\ UNCHANGED <<world, cont, fresh, faults>>

\* The command is killed (Ctrl-C) between two of its steps.
Killed ==
    /\ MayKill /\ stage # "idle" /\ Fault
    /\ ReturnUnsaved(IF stage = "write" THEN Existing ELSE {})
    /\ UNCHANGED <<world, cont, file>>

-----------------------------------------------------------------------------
(* The runtime, other programs, the user *)

Listen ==
    \E s \in Service :
        /\ cont[s].st = "running" /\ cont[s].port # 0 /\ ~PortInUse(cont[s].port)
        /\ cont' = [cont EXCEPT ![s].listening = TRUE]
        /\ UNCHANGED <<world, file, stage, locals, fresh, lost, faults>>

ContainerExits ==
    \E s \in Service :
        /\ cont[s].st = "running" /\ cont' = [cont EXCEPT ![s] = Stopped(@)]
        /\ UNCHANGED <<world, file, stage, locals, fresh, lost, faults>>

ForeignPorts ==
    \E p \in ForeignPort :
        /\ \/ p \in foreign /\ foreign' = foreign \ {p}
           \/ ~PortInUse(p) /\ foreign' = foreign \union {p}
        /\ UNCHANGED <<compose, host, cont, file, stage, locals, fresh, lost, faults>>

\* The user edits the compose file, the host gets another address, or a
\* container is removed by hand.
Meanwhile ==
    /\ stage = "idle"
    /\ \/ \E c \in Composes \ {compose} : compose' = c /\ UNCHANGED <<host, cont, lost>>
       \/ \E a \in Address \ {host} : host' = a /\ UNCHANGED <<compose, cont, lost>>
       \/ \E s \in Existing : /\ cont' = [cont EXCEPT ![s] = Absent]
                              /\ lost' = lost \ {s} /\ UNCHANGED <<compose, host>>
    /\ UNCHANGED <<foreign, file, stage, locals, fresh, faults>>

Init ==
    /\ compose \in Composes /\ host \in Address
    /\ cont = [s \in Service |-> Absent] /\ foreign \in SUBSET ForeignPort
    /\ file = <<>> /\ stage = "idle" /\ todo = <<>> /\ state = <<>>
    /\ claimed = {} /\ needs_run = TRUE /\ port = 0
    /\ fresh = {} /\ lost = {} /\ faults = 0

Next ==
    \/ UpStart \/ KeepRunning \/ KeepStopped \/ Recreate \/ QueryFails
    \/ KeepPorts \/ ChoosePort \/ Run \/ RunFails
    \/ SaveOpen \/ SaveFails \/ SaveWrite
    \/ StopStart \/ StopOne \/ RmOne \/ Forget \/ Killed
    \/ Listen \/ ContainerExits \/ ForeignPorts \/ Meanwhile

Spec == Init /\ [][Next]_vars

===============================================================================
