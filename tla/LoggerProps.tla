------------------------------ MODULE LoggerProps ------------------------------
(***************************************************************************)
(* What makes the log file correct, whichever program writes to it.        *)
(***************************************************************************)
EXTENDS Logger

Newest(file) == file[Len(file)]

\* As long as one process at a time has the log open, the files, from the oldest
\* to hostely.log, are the most recent lines, whole and in order, through any
\* number of rotations and restarts: a file that was rotated away is continued by
\* the first line of the next one, and hostely.log ends with the last line
\* written.  None is larger than the limit, and none is rotated before it has
\* reached it (the line that causes a rotation is not counted, and makes up for
\* the one the limit leaves out).
LogKeepsRecentLines ==
    ~shared =>
        /\ files[0] # <<>> => Newest(files[0]) = newest
        /\ \A i \in 0 .. KeepFiles :
              /\ \A j \in 1 .. Len(files[i]) - 1 : files[i][j + 1] = Following(files[i][j])
              /\ Len(files[i]) <= MaxBytes
        /\ \A i \in 1 .. KeepFiles : files[i] # <<>> =>
              /\ files[i - 1] # <<>> /\ files[i - 1][1] = Following(Newest(files[i]))
              /\ Len(files[i]) >= MaxBytes - 1

===============================================================================
