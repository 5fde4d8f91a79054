---------------------------- MODULE ServeLockProps ----------------------------
(***************************************************************************)
(* What makes the models directory and the serve lock correct.             *)
(***************************************************************************)
EXTENDS ServeLock

\* A gguf under its final name is a whole file of some repository, in the middle
\* of a download, after a failed one and after a kill at any step, whatever the
\* curl of a killed pull goes on to write: pull downloads to <name>.tmp and
\* renames.  It takes two pulls of one file name at once, a pull beside the curl
\* that a killed one left running, or a .tmp that such a curl mixed up or that is
\* of another repository, to break it.
InstalledIsWhole ==
    \A f \in File \ tainted :
        OnDisk(gguf[f]) => \E r \in Repo : f \in DOMAIN Length[r] /\ gguf[f] = Whole(r, f)

\* A download that reports success leaves the file of the repository it was asked
\* for, also when it resumed a partial file or replaced a file of that name from
\* another repository.  One that was skipped leaves a file of the right length:
\* pull compares nothing else.
OkMeansInstalled ==
    \A p \in Proc : proc[p].pc \in {"there", "ok"} /\ proc[p].file \notin tainted
                  /\ OnDisk(gguf[proc[p].file]) =>
        LET own == Whole(proc[p].repo, proc[p].file)
        IN  /\ proc[p].pc = "ok" => gguf[proc[p].file] = own
            /\ Len(gguf[proc[p].file]) = Len(own)

\* `hostely status' names a server only if that process is a server of that
\* model and port, however servers overlap, fail and are killed; unless the dead
\* server's pid went to another process.
StatusTruthful ==
    read_serve_lock.says = "serving" =>
        LET by == read_serve_lock.by
        IN  by.pid \in reused \/ (Serves(by.pid) /\ proc[by.pid].file = by.file
                                              /\ proc[by.pid].port = by.port)

\* A server that was never overlapped by another one and not interrupted while it
\* started is the one `hostely status' reports, also after a crash left a lock.
ServerIsVisible ==
    \A p \in alone : Listening(p) =>
        /\ read_serve_lock.says = "serving"
        /\ read_serve_lock.by = [pid |-> p, file |-> proc[p].file, port |-> proc[p].port]

===============================================================================
