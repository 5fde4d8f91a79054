----------------------------- MODULE RouterWatch -----------------------------
(***************************************************************************)
(* `hostely router watch` (router_watch in src/exposure/router.cpp): the   *)
(* public address of the router, which is external, is kept in an A record,*)
(* and every cycle is logged.  Other hostely processes share the log.      *)
(***************************************************************************)
EXTENDS DnsProvider, Logger

CONSTANTS Address,     \* public addresses
          NoAddress,   \* the empty string
          Watch,       \* the watching process, a member of Proc
          MaxMoves     \* how often the address changes

ASSUME WatchAssumption == Watch \in Proc

VARIABLES ip,          \* the public address of the router
          moves,       \* its changes so far
          last_ip,     \* the address the watcher acted on last
          seen,        \* the address it has just read, before set_a
          a,           \* the A records of the domain
          wrong        \* history: the last set_a did not leave just its address

vars == <<files, log, newest, shared, faults, ip, moves, last_ip, seen, a, wrong>>

Watching == log[Watch] # Closed
Others   == Proc \ {Watch}

\* The command starts, without memory of an earlier run.
Start ==
    /\ LogOpen(Watch)
    /\ last_ip' = NoAddress /\ seen' = NoAddress
    /\ UNCHANGED <<ip, moves, a, wrong, faults>>

\* Mutant of Query: only the first address counts.
QueryOnce ==
    /\ Watching /\ seen = NoAddress /\ last_ip = NoAddress
    /\ seen' = ip /\ emit(Watch)
    /\ UNCHANGED <<ip, moves, last_ip, a, wrong, faults>>

\* router_public_ip, when the address is another than the last one.
Query ==
    /\ Watching /\ seen = NoAddress /\ ip # last_ip
    /\ seen' = ip /\ emit(Watch)
    /\ UNCHANGED <<ip, moves, last_ip, a, wrong, faults>>

\* The router does not answer: a warning, and the next cycle.  (The line that the
\* command begins with is not told apart from it.)
QueryFails ==
    /\ Watching /\ seen = NoAddress /\ emit(Watch)
    /\ UNCHANGED <<ip, moves, last_ip, seen, a, wrong, faults>>

\* set_a with the address that was read; last_ip follows whether it worked or
\* not, so a failure is not tried again until the address changes.
Update ==
    /\ Watching /\ seen # NoAddress
    /\ \E fail \in {FALSE, MayFail} :
       \E o \in upsert(a, seen, fail) :
          a' = o.recs /\ Spend(fail) /\ wrong' = (o.recs # {seen})
    /\ last_ip' = seen /\ seen' = NoAddress /\ emit(Watch)
    /\ UNCHANGED <<ip, moves>>

\* The watcher is interrupted.
Stop ==
    /\ LogClose(Watch)
    /\ last_ip' = NoAddress /\ seen' = NoAddress
    /\ UNCHANGED <<ip, moves, a, wrong, faults>>

Move ==
    /\ moves < MaxMoves /\ moves' = moves + 1
    /\ ip' \in Address \ {ip}
    /\ UNCHANGED <<last_ip, seen, a, wrong, faults>> /\ UNCHANGED logVars

\* Another command opens the log, writes to it and ends.
Other(p) ==
    /\ LogOpen(p) \/ emit(p) \/ LogClose(p)
    /\ UNCHANGED <<ip, moves, last_ip, seen, a, wrong, faults>>

Init ==
    /\ LogInit /\ faults = 0
    /\ ip = (CHOOSE x \in Address : TRUE) /\ moves = 0 /\ last_ip = NoAddress /\ seen = NoAddress
    /\ a = {} /\ wrong = FALSE

Next == \/ Start \/ Query \/ QueryFails \/ Update \/ Stop \/ Move
        \/ \E p \in Others : Other(p)

Spec == Init /\ [][Next]_vars

\* The loop has no other wait than its sleep, and the router answers
\* some time.
FairSpec == Spec /\ WF_vars(Query) /\ WF_vars(Update)

===============================================================================
