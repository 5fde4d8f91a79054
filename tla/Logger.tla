-------------------------------- MODULE Logger --------------------------------
(***************************************************************************)
(* The rotating log file of src/log/logger.cpp, which every hostely        *)
(* process opens for itself.  Lines have the size 1 and carry numbers,     *)
(* counted modulo Lines; files[0] is hostely.log and files[i] is           *)
(* hostely.log.i.  A process that has a file open follows it when it is    *)
(* renamed, so `fd' is the place its file has now.                         *)
(***************************************************************************)
EXTENDS Integers, Sequences

CONSTANTS Proc,        \* processes that log
          MaxBytes,    \* max_bytes, in lines
          KeepFiles    \* keep_files

ASSUME LoggerAssumption == MaxBytes \in Nat \ {0, 1} /\ KeepFiles \in Nat \ {0}

VARIABLES files,       \* the lines of each file; <<>> also stands for no file
          log,         \* of each process: its file, mode, position and count
          newest,      \* the number of the last line written
          shared       \* history: two processes have had the log open at once

logVars == <<files, log, newest, shared>>

Lines  == (KeepFiles + 1) * MaxBytes + 1
Following(n) == (n + 1) % Lines
Closed == [fd |-> -1]
Gone   == KeepFiles + 1        \* the place of a file that has been removed
Opened == {p \in Proc : log[p] # Closed}

\* init: the present size counts toward the limit.
SizeOnOpen == Len(files[0])

\* init opens the file for appending.
LogOpen(p) ==
    /\ log[p] = Closed
    /\ log' = [log EXCEPT ![p] = [fd |-> 0, app |-> TRUE, off |-> 0,
                                  bytes |-> SizeOnOpen]]
    /\ shared' = (shared \/ Opened # {})
    /\ UNCHANGED <<files, newest>>

LogClose(p) ==
    /\ log[p] # Closed
    /\ log' = [log EXCEPT ![p] = Closed]
    /\ UNCHANGED <<files, newest, shared>>

\* Mutant of Rotated: the files are shifted from the first to the last.
RotatedUpward == [i \in 0 .. KeepFiles |-> IF i = 0 THEN <<>> ELSE files[0]]

\* rotate_if_needed: the oldest file is removed, each of the others takes the
\* place after its own, from the last to the first, and an empty one is opened.
Rotated == [i \in 0 .. KeepFiles |-> IF i = 0 THEN <<>> ELSE files[i - 1]]
RotatedLogs(p) ==
    [q \in Proc |->
        IF q = p THEN [fd |-> 0, app |-> FALSE, off |-> 0, bytes |-> 0]
        ELSE IF log[q] = Closed \/ log[q].fd = Gone THEN log[q]
        ELSE [log[q] EXCEPT !.fd = @ + 1]]

\* A line goes to the end of a file opened for appending; to the process's own
\* position in one that it opened by a rotation, over what others have written.
Written(file, l, line) ==
    IF l.app \/ l.off = Len(file) THEN Append(file, line)
    ELSE [file EXCEPT ![l.off + 1] = line]

\* emit, under sink_mutex: the line that does not fit rotates the files first
\* and is not counted in the new one.
emit(p) ==
    LET full  == log[p].bytes + 1 >= MaxBytes
        fs    == IF full THEN Rotated ELSE files
        ls    == IF full THEN RotatedLogs(p)
                 ELSE [log EXCEPT ![p].bytes = @ + 1]
        line  == Following(newest)
        f     == ls[p].fd
    IN  /\ log[p] # Closed
        /\ files' = IF f = Gone THEN fs
                    ELSE [fs EXCEPT ![f] = Written(fs[f], ls[p], line)]
        /\ log' = [ls EXCEPT ![p].off = IF ls[p].app THEN 0 ELSE @ + 1]
        /\ newest' = line
        /\ UNCHANGED shared

LogInit ==
    /\ files = [i \in 0 .. KeepFiles |-> <<>>]
    /\ log = [p \in Proc |-> Closed]
    /\ newest = 0 /\ shared = FALSE

LogNext == \E p \in Proc : LogOpen(p) \/ emit(p) \/ LogClose(p)

\* The log by itself, under any programs that use it.
LogSpec == LogInit /\ [][LogNext]_logVars

===============================================================================
