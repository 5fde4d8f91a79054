------------------------------ MODULE ModelStore ------------------------------
(***************************************************************************)
(* The models directory: `hostely models pull' and `rm' (src/models and    *)
(* run_models in main.cpp).  A gguf file is a sequence of blocks, each     *)
(* known by its repository and its place.  Several commands may run at a    *)
(* time; each may be killed between two steps.  curl is a process of its   *)
(* own and outlives the command that spawned it.                           *)
(***************************************************************************)
EXTENDS Integers, Sequences, FiniteSets

CONSTANTS
    None,
    Proc,         \* process ids
    Repo, Listing,\* the files a repository lists: a sequence of records
                  \* [file, gguf, quant, size]; size 0 when it is not told
    Length,       \* Length[r][f]: the blocks of file f in repository r
    Recognised,   \* kRecognisedQuants
    Clean,        \* what valid_stem_char leaves of a repository's name
    Operand,      \* what users ask `pull' for: [kind, repo, quant, file]
    Name,         \* what users call a model: [path, exact, prefix]
    Before,       \* what may have been pulled before: some of Jobs
    MaxCommands, MaxFaults

VARIABLES
    tmp, gguf,    \* by file name: the blocks of <name>.tmp and of <name>
    sidecar,      \* by stem: the manifest
    proc,         \* the running commands
    strays,       \* the curls whose command was killed
    started,      \* how many were started
    faults,       \* failures of calls, and kills
    orphans,      \* history: file names whose .tmp a killed pull left
    tainted       \* history: file names of a pull that another pull or a stray
                  \* worked on too, or that continued a killed pull's .tmp which
                  \* is not the beginning of its own file

File  == UNION {{Listing[r][i].file : i \in DOMAIN Listing[r]} : r \in Repo}
Idle  == [pc |-> "idle"]
Part(r, n)  == [i \in 1 .. n |-> <<r, i>>]
Whole(r, f) == Part(r, Length[r][f])
OnDisk(c)   == c # None

\* The first of the largest, and the first of the smallest, of the files is.
Largest(sibs, is) ==
    CHOOSE i \in is : \A j \in is : \/ sibs[j].size < sibs[i].size
                                    \/ sibs[j].size = sibs[i].size /\ i <= j
Smallest(sibs, is) ==
    CHOOSE i \in is : \A j \in is : \/ sibs[j].size > sibs[i].size
                                    \/ sibs[j].size = sibs[i].size /\ i <= j

\* pick_sibling: the quantisation asked for, else the smallest recognised one,
\* else the largest gguf; 0 when the repository has none.
pick_sibling(sibs, quant) ==
    LET all   == {i \in DOMAIN sibs : sibs[i].gguf}
        exact == {i \in all : sibs[i].quant = quant}
        known == {i \in all : sibs[i].quant \in Recognised}
    IN  CASE all = {}   -> 0
          [] exact # {} -> Largest(sibs, exact)
          [] known # {} -> Smallest(sibs, known)
          [] OTHER      -> Largest(sibs, all)

\* A direct URL is named after its first two path segments, the user and the
\* repository, joined differently than make_stem joins them.
make_stem(repo, quant) == <<"repo", Clean[repo], quant>>
url_stem(repo, quant)  == <<"url", repo, quant>>

\* What the API resolution leaves for the download.
FromListing(o, e) ==
    [pc |-> "check", repo |-> o.repo, file |-> e.file, size |-> e.size, fd |-> "none", at |-> 0,
     stem |-> make_stem(o.repo, IF e.quant \in Recognised THEN e.quant ELSE "unknown")]
FromName(o) ==
    [pc |-> "check", repo |-> o.repo, file |-> o.file, size |-> 0, fd |-> "none", at |-> 0,
     stem |-> IF o.kind = "url" THEN url_stem(o.repo, o.quant)
              ELSE make_stem(o.repo, "")]

Jobs == {FromName(o) : o \in {x \in Operand : x.kind # "repo-quant"}} \union
        UNION {{FromListing([repo |-> r], Listing[r][i]) : i \in DOMAIN Listing[r]} : r \in Repo}
Stem == {j.stem : j \in Jobs}

PullPc == {"check", "skip", "skipping", "there",
           "curl", "download", "rename", "manifest", "writing", "ok"}
Pulls(p, f) == proc[p].pc \in PullPc /\ proc[p].file = f

\* Another pull of the same file name, or the curl of a dead one, is under way.
Contended(p, f) == \/ \E q \in Proc \ {p} : Pulls(q, f)
                   \/ \E s \in strays : s.file = f
Taint(p, f)     == IF Contended(p, f) THEN tainted \union {f} ELSE tainted

\* A listing tells the size of a file or 0; what is asked for, and what was
\* pulled before, are files of their repositories.
ASSUME ModelAssumption ==
    /\ None \notin File
    /\ \A r \in Repo :
          /\ Listing[r] \in Seq([file : File, gguf : BOOLEAN, quant : STRING, size : Nat])
          /\ \A f \in DOMAIN Length[r] : Length[r][f] \in Nat
          /\ \A i \in DOMAIN Listing[r] : LET e == Listing[r][i] IN
                e.gguf => e.file \in DOMAIN Length[r] /\ e.size \in {0, Length[r][e.file]}
    /\ \A o \in Operand : /\ o.repo \in Repo
                          /\ o.kind # "repo-quant" =>
                                o.file \in File /\ o.file \in DOMAIN Length[o.repo]
    /\ \A j \in Before : j \in Jobs /\ j.file \in DOMAIN Length[j.repo]
    /\ \A n \in Name : n.path \in File \union {None}

disk == <<tmp, gguf, sidecar>>
past == <<tainted, orphans>>
Goto(p, pc) == proc' = [proc EXCEPT ![p].pc = pc]
End(p)      == proc' = [proc EXCEPT ![p] = Idle]
Fault       == faults < MaxFaults /\ faults' = faults + 1
Launch      == started < MaxCommands /\ started' = started + 1

-----------------------------------------------------------------------------

\* `hostely models pull': resolve_operand.
Pull(p, o) ==
    /\ proc[p] = Idle /\ Launch
    /\ IF o.kind = "repo-quant"
       THEN /\ proc' = [proc EXCEPT ![p] = [pc |-> "api", repo |-> o.repo, quant |-> o.quant]]
            /\ UNCHANGED tainted
       ELSE /\ proc' = [proc EXCEPT ![p] = FromName(o)]
            /\ tainted' = Taint(p, o.file)
    /\ UNCHANGED <<disk, strays, faults, orphans>>

\* The model API answers; a repository without a gguf ends the command.
Listed(p) ==
    /\ proc[p].pc = "api"
    /\ LET sibs == Listing[proc[p].repo]
           i    == pick_sibling(sibs, proc[p].quant)
       IN  IF i = 0 THEN End(p) /\ UNCHANGED tainted
           ELSE /\ proc' = [proc EXCEPT ![p] = FromListing(proc[p], sibs[i])]
                /\ tainted' = Taint(p, sibs[i].file)
    /\ UNCHANGED <<disk, strays, started, faults, orphans>>

\* Mutant of Present: any file of that name will do.
PresentAtAll(j) == /\ OnDisk(gguf[j.file]) /\ OnDisk(sidecar[j.stem])
                   /\ j.size # 0

\* The file is there with the size the API told, and so is its sidecar.
Present(j) == /\ OnDisk(gguf[j.file]) /\ OnDisk(sidecar[j.stem])
              /\ j.size # 0 /\ Len(gguf[j.file]) = j.size

Check(p) ==
    /\ proc[p].pc = "check"
    /\ Goto(p, IF Present(proc[p]) THEN "skip" ELSE "curl")
    /\ UNCHANGED <<disk, strays, started, faults, past>>

\* The names of f change: what a curl has open is by now called otherwise.
Renamed == [tmp |-> "gguf", gguf |-> "gone", gone |-> "gone"]
TmpGone == [tmp |-> "gone", gguf |-> "gguf", gone |-> "gone"]
Removed == [tmp |-> "tmp",  gguf |-> "gone", gone |-> "gone"]
Follow(j, f, names) == IF j.pc = "download" /\ j.file = f THEN [j EXCEPT !.fd = names[@]] ELSE j
Follows(p, cmd, f, names) ==
    /\ proc'   = [q \in Proc |-> IF q = p THEN cmd ELSE Follow(proc[q], f, names)]
    /\ strays' = {Follow(s, f, names) : s \in strays}

\* curl -C - -o <name>.tmp: what is there is continued, whoever left it.
Left(j)      == IF OnDisk(tmp[j.file]) THEN tmp[j.file] ELSE << >>
Complete(j)  == Len(Left(j)) >= Length[j.repo][j.file]
Opened(j)    == [j EXCEPT !.pc = "download", !.fd = "tmp", !.at = Len(Left(j)) + 1]
OpensTmp(j)  == tmp' = [tmp EXCEPT ![j.file] = Left(j)]
CurlOpen(p) ==
    /\ proc[p].pc = "curl" /\ ~Complete(proc[p])
    /\ OpensTmp(proc[p])
    /\ proc' = [proc EXCEPT ![p] = Opened(@)]
    /\ LET j == proc[p] IN
       tainted' = IF j.file \in orphans /\ Left(j) # Part(j.repo, Len(Left(j)))
                  THEN tainted \union {j.file} ELSE tainted
    /\ UNCHANGED <<gguf, sidecar, strays, started, faults, orphans>>

\* Mutant of Appended: the blocks go straight to the installed file.
AppendedInPlace(j, c, which) ==
    IF which = "gguf" /\ j.fd = "tmp"
    THEN [c EXCEPT ![j.file] = IF OnDisk(@) THEN Append(@, <<j.repo, j.at>>)
                               ELSE <<<<j.repo, j.at>>>>]
    ELSE IF which = "tmp" /\ j.fd = "tmp"
    THEN [c EXCEPT ![j.file] = Append(@, <<j.repo, j.at>>)] ELSE c

\* The next block of the reply, at the end of the file that curl has open.
Appended(j, c, which) ==
    IF j.fd = which THEN [c EXCEPT ![j.file] = Append(@, <<j.repo, j.at>>)] ELSE c
Receives(j) ==
    /\ j.pc = "download" /\ j.at <= Length[j.repo][j.file]
    /\ tmp' = Appended(j, tmp, "tmp") /\ gguf' = Appended(j, gguf, "gguf")

Download(p) ==
    /\ Receives(proc[p])
    /\ proc' = [proc EXCEPT ![p].at = @ + 1]
    /\ UNCHANGED <<sidecar, strays, started, faults, past>>

\* curl ends well: the whole reply was written, to wherever the file is by now.
CurlDone(p) ==
    /\ proc[p].pc = "download" /\ proc[p].at > Length[proc[p].repo][proc[p].file]
    /\ proc' = [proc EXCEPT ![p].pc = "rename", ![p].fd = "none"]
    /\ UNCHANGED <<disk, strays, started, faults, past>>

\* "could not launch /usr/bin/curl": what was there is left there.
NotLaunched(p) ==
    /\ proc[p].pc = "curl" /\ Fault /\ End(p)
    /\ UNCHANGED <<disk, strays, started, past>>

\* fs::remove(tmp_gguf) after curl failed.
Discarded(t, f) == [t EXCEPT ![f] = None]

\* curl fails: on its way, or because nothing is missing and the server says 416.
CurlFails(p) ==
    /\ \/ proc[p].pc \in {"curl", "download"} /\ Fault
       \/ proc[p].pc = "curl" /\ Complete(proc[p]) /\ UNCHANGED faults
    /\ tmp' = Discarded(tmp, proc[p].file)
    /\ Follows(p, Idle, proc[p].file, TmpGone)
    /\ UNCHANGED <<gguf, sidecar, started, past>>

\* The rename takes the open files of other curls along.
Rename(p) ==
    /\ proc[p].pc = "rename"
    /\ LET f == proc[p].file IN
       IF ~OnDisk(tmp[f])
       THEN End(p) /\ UNCHANGED <<tmp, gguf, strays>>
       ELSE /\ gguf' = [gguf EXCEPT ![f] = tmp[f]]
            /\ tmp'  = [tmp EXCEPT ![f] = None]
            /\ Follows(p, [proc[p] EXCEPT !.pc = "manifest"], f, Renamed)
    /\ UNCHANGED <<sidecar, started, faults, past>>

\* The curl of a killed pull goes on, and may end at any time; nobody waits for
\* it, renames its file or removes it.
StrayOpens(s) ==
    /\ s.pc = "curl" /\ ~Complete(s)
    /\ OpensTmp(s)
    /\ strays' = (strays \ {s}) \union {Opened(s)}
    /\ UNCHANGED <<gguf, sidecar, proc, started, faults, past>>
StrayWrites(s) ==
    /\ Receives(s)
    /\ strays' = (strays \ {s}) \union {[s EXCEPT !.at = @ + 1]}
    /\ UNCHANGED <<sidecar, proc, started, faults, past>>
StrayEnds(s) ==
    /\ strays' = strays \ {s}
    /\ UNCHANGED <<disk, proc, started, faults, past>>

\* write_manifest opens, and so empties, the sidecar.
Empty == [file |-> None]
OpenSidecar(p) ==
    /\ proc[p].pc \in {"skip", "manifest"}
    /\ sidecar' = [sidecar EXCEPT ![proc[p].stem] = Empty]
    /\ Goto(p, IF proc[p].pc = "skip" THEN "skipping" ELSE "writing")
    /\ UNCHANGED <<tmp, gguf, strays, started, faults, past>>

\* It is written, unless `rm' has removed it meanwhile.
WriteSidecar(p) ==
    /\ proc[p].pc \in {"skipping", "writing"}
    /\ sidecar' = [sidecar EXCEPT ![proc[p].stem] =
                      IF OnDisk(@) THEN [file |-> proc[p].file] ELSE None]
    /\ Goto(p, IF proc[p].pc = "skipping" THEN "there" ELSE "ok")
    /\ UNCHANGED <<tmp, gguf, strays, started, faults, past>>

\* write_manifest fails: a skipped download is made after all, a finished one
\* is reported as a success.
ManifestFails(p) ==
    /\ proc[p].pc \in {"skip", "skipping", "manifest", "writing"} /\ Fault
    /\ Goto(p, IF proc[p].pc \in {"skip", "skipping"} THEN "curl" ELSE "ok")
    /\ UNCHANGED <<disk, strays, started, past>>

\* The command returns; so does one whose API request failed.
Return(p) ==
    /\ proc[p].pc \in {"there", "ok"} /\ End(p)
    /\ UNCHANGED <<disk, strays, started, faults, past>>
ApiFails(p) ==
    /\ proc[p].pc = "api" /\ Fault /\ End(p)
    /\ UNCHANGED <<disk, strays, started, past>>

-----------------------------------------------------------------------------

\* read_manifest: the path is blanked when the file is gone.
read_manifest(s) ==
    [stem |-> s, file |-> LET f == sidecar[s].file
                          IN  IF f = None THEN None ELSE IF OnDisk(gguf[f]) THEN f ELSE None]
list == {read_manifest(s) : s \in {x \in Stem : OnDisk(sidecar[x])}}

\* resolve: a path with the sidecar that names it, an exact stem, or the one
\* stem with this prefix.
resolve(n) ==
    IF n.path # None
    THEN IF ~OnDisk(gguf[n.path]) THEN None
         ELSE LET ms == {m \in list : m.file = n.path}
              IN  IF ms = {} THEN [stem |-> None, file |-> n.path] ELSE CHOOSE m \in ms : TRUE
    ELSE LET exact == {m \in list : m.stem = n.exact}
             hits  == IF exact # {} THEN exact ELSE {m \in list : m.stem \in n.prefix}
         IN  IF Cardinality(hits) = 1 THEN CHOOSE m \in hits : TRUE ELSE None

\* `hostely models rm': first the sidecar ...
Remove(p, n) ==
    /\ proc[p] = Idle /\ Launch
    /\ LET m == resolve(n) IN
       IF m = None THEN UNCHANGED <<sidecar, proc>>
       ELSE /\ sidecar' = [s \in Stem |-> IF s = m.stem THEN None ELSE sidecar[s]]
            /\ proc' = [proc EXCEPT ![p] = [pc |-> "rm", file |-> m.file]]
    /\ UNCHANGED <<tmp, gguf, strays, faults, past>>

\* ... then the file, which other sidecars may name too.
RemoveFile(p) ==
    /\ proc[p].pc = "rm"
    /\ LET f == proc[p].file IN
       /\ gguf' = [g \in File |-> IF g = f THEN None ELSE gguf[g]]
       /\ Follows(p, Idle, f, Removed)
    /\ UNCHANGED <<tmp, sidecar, started, faults, past>>

\* Nothing, or one model, was pulled before.
StoreInit ==
    /\ tmp = [f \in File |-> None]
    /\ \E j \in Before \union {None} :
          /\ gguf = [f \in File |-> IF j # None /\ j.file = f THEN Whole(j.repo, f) ELSE None]
          /\ sidecar = [s \in Stem |-> IF j # None /\ j.stem = s THEN [file |-> j.file] ELSE None]
    /\ proc = [p \in Proc |-> Idle] /\ strays = {}
    /\ started = 0 /\ faults = 0 /\ tainted = {} /\ orphans = {}

StoreStep(p) ==
    \/ \E o \in Operand : Pull(p, o)
    \/ Listed(p) \/ ApiFails(p) \/ Check(p)
    \/ CurlOpen(p) \/ Download(p) \/ CurlDone(p) \/ CurlFails(p) \/ NotLaunched(p)
    \/ Rename(p) \/ OpenSidecar(p) \/ WriteSidecar(p) \/ ManifestFails(p) \/ Return(p)
    \/ \E n \in Name : Remove(p, n)
    \/ RemoveFile(p)
StrayStep == \E s \in strays : StrayOpens(s) \/ StrayWrites(s) \/ StrayEnds(s)

===============================================================================
