------------------------------ MODULE RouteStore ------------------------------
(***************************************************************************)
(* The route store of src/exposure/expose.cpp and the commands that change *)
(* it (`hostely expose`, run_expose in src/cli/exposure_cli.cpp).          *)
(*                                                                         *)
(* A command reads routes.json, computes the new table, truncates and      *)
(* writes the one shared routes.json.tmp, and renames it.  Every step can  *)
(* be interleaved with the steps of another command; a file that is open   *)
(* follows its inode when the name moves, so `fd' says which name the      *)
(* inode of a command has now.                                             *)
(***************************************************************************)
EXTENDS Naturals, Sequences, FiniteSets, SequencesExt

CONSTANTS Host,       \* host names, as given on the command line
          Target,     \* container, port and tls flag of a route
          Edit,       \* the routes that commands add: a set of [host, target]
          Cmd,        \* processes that run `hostely expose`: 1 .. n
          Left,       \* the tables that earlier commands have left
          None,       \* no file, no route
          MaxCommands,\* how many commands are started
          MaxFaults   \* how many calls fail and commands are killed

VARIABLES json,       \* routes.json: None or its bytes
          tmp,        \* routes.json.tmp, the same
          cmd,        \* every command's progress
          spoilt,     \* history: commands overlapped, or a write was cut short
          started,    \* commands so far
          faults      \* failures so far

store == <<json, tmp, cmd, spoilt, started, faults>>

Row == [host : Host, target : Target]

\* Tables as commands leave them: one row for a host.
IsTable(rows) == \A i, j \in DOMAIN rows : rows[i].host = rows[j].host => i = j

ASSUME RouteAssumption ==
    /\ Edit \subseteq Row
    /\ \A rows \in Left : rows \in Seq(Row) /\ IsTable(rows)
    /\ None \notin Target

\* Bytes of a file: the rows last written at its start, and its length in
\* rows and braces.  A file just truncated has length 0; one that was written
\* over longer contents keeps their tail.
Truncated == [rows |-> <<>>, len |-> 0]
Written(old, rows) == [rows |-> rows,
                       len  |-> IF old.len > Len(rows) + 1 THEN old.len ELSE Len(rows) + 1]
Parses(bytes) == bytes.len = Len(bytes.rows) + 1

\* routes_load: a file that is missing or does not parse is an empty table.
routes_load == IF json = None \/ ~Parses(json) THEN <<>> ELSE json.rows

\* route_add replaces every row of the host, or appends one.
Added(rows, r) ==
    IF \E i \in DOMAIN rows : rows[i].host = r.host
    THEN [i \in DOMAIN rows |-> IF rows[i].host = r.host THEN r ELSE rows[i]]
    ELSE Append(rows, r)

\* route_remove copies the rows of the other hosts, in their order.
Removed(rows, h) ==
    LET kept[i \in 0 .. Len(rows)] ==
            IF i = 0 THEN <<>>
            ELSE IF rows[i].host = h THEN kept[i - 1] ELSE Append(kept[i - 1], rows[i])
    IN  kept[Len(rows)]

Idle == [pc |-> "idle"]
InFlight(c) == cmd[c] # Idle

\* A command starts (the processes are interchangeable: the first free one is
\* taken) and reads the file.  `off' is `expose <host> <container> --off'.
Load(c, rows, h, t, off) ==
    /\ ~InFlight(c) /\ \A d \in Cmd : d < c => InFlight(d)
    /\ started < MaxCommands
    /\ started' = started + 1
    /\ cmd' = [cmd EXCEPT ![c] = [pc |-> "open", rows |-> rows, fd |-> "none",
                                  host |-> h, target |-> t, off |-> off]]
    /\ spoilt' = (spoilt \/ \E d \in Cmd : InFlight(d))
    /\ UNCHANGED <<json, tmp, faults>>

route_add(c, r) == Load(c, Added(routes_load, r), r.host, r.target, FALSE)

\* A host without a route ends the command before the save.
route_remove(c, h, off) ==
    /\ \E i \in DOMAIN routes_load : routes_load[i].host = h
    /\ Load(c, Removed(routes_load, h), h, None, off)

\* Mutant of OpenTmp: the table is written to routes.json itself.
OpenInPlace(c) ==
    /\ InFlight(c) /\ cmd[c].pc = "open"
    /\ json' = Truncated /\ tmp' = Truncated
    /\ cmd' = [cmd EXCEPT ![c].pc = "write", ![c].fd = "tmp"]
    /\ UNCHANGED <<spoilt, faults, started>>

\* routes_save_atomic opens the temporary file with ios::trunc: whoever has the
\* same file open sees it emptied.
OpenTmp(c) ==
    /\ InFlight(c) /\ cmd[c].pc = "open"
    /\ tmp' = Truncated
    /\ cmd' = [cmd EXCEPT ![c].pc = "write", ![c].fd = "tmp"]
    /\ UNCHANGED <<json, spoilt, faults, started>>

\* The stream is flushed when it goes out of scope; by then another command may
\* have renamed the file it writes to.
WriteTmp(c) ==
    /\ InFlight(c) /\ cmd[c].pc = "write"
    /\ tmp'  = IF cmd[c].fd = "tmp"  THEN Written(tmp, cmd[c].rows)  ELSE tmp
    /\ json' = IF cmd[c].fd = "json" THEN Written(json, cmd[c].rows) ELSE json
    /\ cmd' = [cmd EXCEPT ![c].pc = "rename"]
    /\ UNCHANGED <<spoilt, faults, started>>

\* A write that fails (a full disk) is not noticed: the stream is not checked,
\* and what the file holds is renamed.
WriteFails(c) ==
    /\ InFlight(c) /\ cmd[c].pc = "write" /\ faults < MaxFaults
    /\ cmd' = [cmd EXCEPT ![c].pc = "rename"]
    /\ spoilt' = TRUE /\ faults' = faults + 1
    /\ UNCHANGED <<json, tmp, started>>

\* After a rename the inode that was the temporary file is routes.json, and the
\* one that was routes.json has no name.
Moved(c, d) ==
    IF ~InFlight(d) THEN cmd[d]
    ELSE LET fd == CASE cmd[d].fd = "tmp" -> "json" [] cmd[d].fd = "json" -> "none"
                     [] OTHER -> cmd[d].fd
         IN  IF d = c THEN [cmd[d] EXCEPT !.pc = "acked", !.fd = "none"]
                      ELSE [cmd[d] EXCEPT !.fd = fd]

\* The rename; the command then reports success.
Rename(c) ==
    /\ InFlight(c) /\ cmd[c].pc = "rename" /\ tmp # None
    /\ json' = tmp /\ tmp' = None
    /\ cmd' = [d \in Cmd |-> Moved(c, d)]
    /\ UNCHANGED <<spoilt, faults, started>>

\* What a command does when its save has failed: it exits with 1, except that
\* `--off' only warns ("no route for"), logs "removed route" and exits with 0.
AfterFailure(c) == IF cmd[c].off THEN [cmd[c] EXCEPT !.pc = "warned", !.fd = "none"] ELSE Idle

\* Another command has renamed the file first.
RenameGone(c) ==
    /\ InFlight(c) /\ cmd[c].pc = "rename" /\ tmp = None
    /\ cmd' = [cmd EXCEPT ![c] = AfterFailure(c)]
    /\ UNCHANGED <<json, tmp, spoilt, faults, started>>

\* Mutant of SaveFails: a failed rename is reported as a success.
FailureUnnoticed(c) ==
    /\ InFlight(c) /\ cmd[c].pc \in {"open", "rename"} /\ faults < MaxFaults
    /\ cmd' = [cmd EXCEPT ![c] = IF @.pc = "rename" THEN [@ EXCEPT !.pc = "acked", !.fd = "none"]
                                                   ELSE AfterFailure(c)]
    /\ faults' = faults + 1
    /\ UNCHANGED <<json, tmp, spoilt, started>>

\* The directory, the temporary file or the rename fails.
SaveFails(c) ==
    /\ InFlight(c) /\ cmd[c].pc \in {"open", "rename"} /\ faults < MaxFaults
    /\ cmd' = [cmd EXCEPT ![c] = AfterFailure(c)]
    /\ faults' = faults + 1
    /\ UNCHANGED <<json, tmp, spoilt, started>>

\* The command has run to its end and reports it.
Reports(c) == cmd[c].pc \in {"acked", "warned"}

\* The command is killed at any step.
Killed(c) ==
    /\ InFlight(c) /\ ~Reports(c) /\ faults < MaxFaults
    /\ cmd' = [cmd EXCEPT ![c] = Idle]
    /\ faults' = faults + 1
    /\ UNCHANGED <<json, tmp, spoilt, started>>

\* run_expose reports "route added" or "removed route" and exits with 0.
Return(c) ==
    /\ InFlight(c) /\ Reports(c)
    /\ cmd' = [cmd EXCEPT ![c] = Idle]
    /\ UNCHANGED <<json, tmp, spoilt, faults, started>>

StoreInit ==
    /\ json \in {None} \union {Written(Truncated, rows) : rows \in Left}
    /\ tmp = None
    /\ cmd = [c \in Cmd |-> Idle]
    /\ spoilt = FALSE /\ started = 0 /\ faults = 0

CommandStep(c) == \/ OpenTmp(c) \/ WriteTmp(c) \/ WriteFails(c)
                  \/ Rename(c) \/ RenameGone(c) \/ SaveFails(c) \/ Killed(c) \/ Return(c)

StoreNext == \E c \in Cmd : \/ \E r \in Edit : route_add(c, r)
                            \/ \E h \in Host, off \in BOOLEAN : route_remove(c, h, off)
                            \/ CommandStep(c)

===============================================================================
