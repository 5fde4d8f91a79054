------------------------------- MODULE ServeLock -------------------------------
(***************************************************************************)
(* `hostely serve' as a process among the models commands: it finds its    *)
(* model in the store, publishes serve.lock.json, listens, and is stopped  *)
(* by SIGINT or killed (src/inference/lockfile.cpp, Server::start and stop *)
(* in server.cpp, run_serve and run_status in main.cpp).                   *)
(***************************************************************************)
EXTENDS ModelStore

CONSTANT Port

VARIABLES
    lock,     \* serve.lock.json: its inode (known by its creator) and contents
    alone,    \* history: servers that never shared their time with another, were
              \* not signalled before they listened and could write the lock
    reused    \* history: pids the lock names that were given to a later command

\* What the file may hold: its creator, and nothing yet or the server.
Server   == [pid : Proc, file : File, port : Port]
LockFile == [ino : Proc, body : Server \union {None}]

ASSUME LockAssumption == None \notin Server /\ None \notin LockFile

serving == <<lock, alone, reused>>
store   == <<tmp, gguf, sidecar, strays, tainted, orphans>>
vars    == <<tmp, gguf, sidecar, proc, strays, started, faults, tainted, orphans,
             lock, alone, reused>>

ServePc == {"load", "lock", "write", "bind", "listen", "stopped", "ending"}
Serves(p)    == proc[p].pc \in ServePc
Listening(p) == proc[p].pc = "listen"
Alive(p)     == proc[p] # Idle      \* what kill(pid, 0) sees

\* A process id the lock names is handed out again.
Reuse(p) == reused' = IF OnDisk(lock) /\ lock.body # None /\ lock.body.pid = p
                      THEN reused \union {p} ELSE reused

\* run_serve: an existing path is taken as it is, other operands are resolved.
Serve(p, n, port) ==
    /\ proc[p] = Idle /\ Launch
    /\ LET m == resolve(n) IN
       IF m = None \/ m.file = None
       THEN UNCHANGED <<proc, serving>>
       ELSE /\ proc' = [proc EXCEPT ![p] = [pc |-> "load", file |-> m.file, port |-> port,
                                            fd |-> None]]
            /\ alone' = IF \E q \in Proc : Serves(q) THEN {} ELSE {p}
            /\ Reuse(p) /\ UNCHANGED <<lock>>
    /\ UNCHANGED <<store, faults>>

\* load_model and the fit check: both may refuse, a missing file always does.
Load(p) ==
    /\ proc[p].pc = "load" /\ OnDisk(gguf[proc[p].file])
    /\ Goto(p, "lock")
    /\ UNCHANGED <<store, started, faults, serving>>
LoadRefused(p) ==
    /\ proc[p].pc = "load" /\ End(p)
    /\ IF OnDisk(gguf[proc[p].file]) THEN Fault ELSE UNCHANGED faults
    /\ UNCHANGED <<store, started, serving>>

\* write_serve_lock: the open truncates the file that is there ...
LockOpen(p) ==
    /\ proc[p].pc = "lock"
    /\ lock' = [ino |-> IF OnDisk(lock) THEN lock.ino ELSE p, body |-> None]
    /\ proc' = [proc EXCEPT ![p].pc = "write", ![p].fd = lock'.ino]
    /\ UNCHANGED <<store, started, faults, alone, reused>>

\* ... and the write goes to that inode, even if it has lost its name.
LockWrite(p) ==
    /\ proc[p].pc = "write"
    /\ lock' = IF OnDisk(lock) /\ lock.ino = proc[p].fd
               THEN [lock EXCEPT !.body = [pid |-> p, file |-> proc[p].file, port |-> proc[p].port]]
               ELSE lock
    /\ reused' = reused \ {p}
    /\ Goto(p, "bind")
    /\ UNCHANGED <<store, started, faults, alone>>

\* A lock that cannot be written is only worth a warning.
LockFails(p) ==
    /\ proc[p].pc \in {"lock", "write"} /\ Fault
    /\ alone' = alone \ {p} /\ Goto(p, "bind")
    /\ UNCHANGED <<store, started, lock, reused>>

\* remove_serve_lock: whoever wrote it.
remove_serve_lock == lock' = None

PortTaken(p) == \E q \in Proc \ {p} : Listening(q) /\ proc[q].port = proc[p].port

\* Mutant of Bind: the lock is tidied up whether or not the bind worked.
BindAndTidy(p) ==
    /\ proc[p].pc = "bind" /\ Goto(p, "listen") /\ remove_serve_lock
    /\ UNCHANGED <<store, started, faults, alone, reused>>

\* With SO_REUSEPORT a port may be bound twice.
Bind(p) ==
    /\ proc[p].pc = "bind" /\ Goto(p, "listen")
    /\ UNCHANGED <<store, started, faults, serving>>

\* "server failed to bind".
BindFails(p) ==
    /\ proc[p].pc = "bind" /\ PortTaken(p) /\ End(p) /\ remove_serve_lock
    /\ UNCHANGED <<store, started, faults, alone, reused>>

\* SIGINT before the server listens: svr.stop() finds nothing to stop, the lock
\* is removed, and the start goes on.
EarlySigint(p) ==
    /\ proc[p].pc \in {"load", "lock", "write", "bind"}
    /\ alone' = alone \ {p} /\ remove_serve_lock
    /\ UNCHANGED <<store, proc, started, faults, reused>>

\* SIGINT while it listens: svr.stop() frees the port, then Server::stop removes
\* the lock, then Server::start removes it again.
Sigint(p) ==
    /\ Listening(p) /\ Goto(p, "stopped")
    /\ UNCHANGED <<store, started, faults, serving>>
StopRemoves(p) ==
    /\ proc[p].pc = "stopped" /\ Goto(p, "ending") /\ remove_serve_lock
    /\ UNCHANGED <<store, started, faults, alone, reused>>
StartReturns(p) ==
    /\ proc[p].pc = "ending" /\ End(p) /\ remove_serve_lock
    /\ UNCHANGED <<store, started, faults, alone, reused>>

\* SIGKILL, SIGTERM (which nobody handles) or a crash, of any command.  Its curl
\* was spawned as a process of its own and is not told.
Stray(j) == [id |-> faults', pc |-> j.pc, repo |-> j.repo, file |-> j.file,
             fd |-> j.fd, at |-> j.at]
Kill(p) ==
    /\ Alive(p) /\ Fault /\ End(p)
    /\ orphans' = IF proc[p].pc \in {"curl", "download", "rename"}
                  THEN orphans \union {proc[p].file} ELSE orphans
    /\ strays'  = IF proc[p].pc \in {"curl", "download"}
                  THEN strays \union {Stray(proc[p])} ELSE strays
    /\ UNCHANGED <<disk, tainted, started, serving>>

\* Mutant of pid_alive: no probe.
AnyPid(p) == TRUE

\* kill(pid, 0): some process has this id.
pid_alive(p) == Alive(p)

\* read_serve_lock as run_status reports it.
read_serve_lock ==
    IF ~OnDisk(lock) THEN [says |-> "nothing"]
    ELSE IF lock.body = None THEN [says |-> "corrupt"]
    ELSE IF pid_alive(lock.body.pid) THEN [says |-> "serving", by |-> lock.body]
    ELSE [says |-> "stale"]

-----------------------------------------------------------------------------

Init ==
    /\ StoreInit
    /\ lock = None /\ alone = {} /\ reused = {}

\* A models command: the lock is not touched.
StoreCommand(p) ==
    /\ StoreStep(p)
    /\ IF proc[p] = Idle /\ proc'[p] # Idle THEN Reuse(p) ELSE UNCHANGED reused
    /\ UNCHANGED <<lock, alone>>

ServeStep(p) ==
    \/ \E n \in Name, port \in Port : Serve(p, n, port)
    \/ Load(p) \/ LoadRefused(p) \/ LockOpen(p) \/ LockWrite(p) \/ LockFails(p)
    \/ Bind(p) \/ BindFails(p)
    \/ EarlySigint(p) \/ Sigint(p) \/ StopRemoves(p) \/ StartReturns(p)

Next ==
    \/ \E p \in Proc : StoreCommand(p) \/ ServeStep(p) \/ Kill(p)
    \/ StrayStep /\ UNCHANGED serving

Spec == Init /\ [][Next]_vars

===============================================================================
