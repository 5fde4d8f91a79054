----------------------------- MODULE ServeLockProofs -----------------------------
(***************************************************************************)
(* Proofs about the models directory and the serve lock: an installed file *)
(* is whole, and `hostely status' reports what is there.                   *)
(***************************************************************************)
EXTENDS ServeLockProps, FiniteSetTheorems, WellFoundedInduction, TLAPS

\* The commands that may run, and the curls that outlive one.
Block    == Repo \X Nat
Open     == {"none", "tmp", "gguf", "gone"}
ApiRec   == [pc : {"api"}, repo : Repo, quant : {o.quant : o \in Operand}]
PullRec  == [pc : PullPc, repo : Repo, file : File, size : Nat, fd : Open, at : Nat, stem : Stem]
RmRec    == [pc : {"rm"}, file : File \union {None}]
ServeRec == [pc : ServePc, file : File, port : Port, fd : Proc \union {None}]
Command  == {Idle} \union ApiRec \union PullRec \union RmRec \union ServeRec
StrayRec == [id : Nat, pc : {"curl", "download"}, repo : Repo, file : File, fd : Open, at : Nat]

\* A pull works on a file of its repository, and so does its curl, also when the
\* pull is dead; what curl has open is on disk.
CurlTyped(j) ==
    /\ j.file \in DOMAIN Length[j.repo]
    /\ j.fd = "none" <=> j.pc # "download"
    /\ j.fd = "tmp"  => tmp[j.file] \in Seq(Block)
    /\ j.fd = "gguf" => gguf[j.file] \in Seq(Block)
PullTyped(j) ==
    j.pc \in PullPc => CurlTyped(j) /\ j.size \in {0, Length[j.repo][j.file]}

StoreType ==
    /\ tmp \in [File -> Seq(Block) \union {None}]
    /\ gguf \in [File -> Seq(Block) \union {None}]
    /\ sidecar \in [Stem -> [file : File \union {None}] \union {None}]
    /\ tainted \subseteq File
    /\ proc \in [Proc -> Command]
    /\ \A p \in Proc : PullTyped(proc[p])
    /\ strays \subseteq StrayRec
    /\ \A s \in strays : CurlTyped(s)

\* A file that no two pulls shared: it has one pull at most, and none beside a
\* stray; an old <name>.tmp is one that a killed pull left, and what is installed
\* is whole.
FileOk(f) ==
    /\ \A p, q \in Proc : Pulls(p, f) /\ Pulls(q, f) => p = q
    /\ \A s \in strays : s.file = f =>
          f \in orphans /\ s.fd # "gguf" /\ \A p \in Proc : ~Pulls(p, f)
    /\ tmp[f] # None => \/ f \in orphans
                        \/ \E p \in Proc : Pulls(p, f) /\ proc[p].pc \in {"download", "rename"}
    /\ gguf[f] # None => \E r \in Repo : f \in DOMAIN Length[r] /\ gguf[f] = Whole(r, f)

\* What the pull of such a file has reached.  What it found before it skipped the
\* download is told by its size only.
Reached(j) ==
    LET f == j.file
        r == j.repo
    IN  CASE j.pc = "download" -> /\ j.fd = "tmp"
                                  /\ j.at \in 1 .. Length[r][f] + 1
                                  /\ tmp[f] = Part(r, j.at - 1)
          [] j.pc = "rename"   -> tmp[f] = Whole(r, f)
          [] j.pc \in {"manifest", "writing", "ok"} -> gguf[f] \in {None, Whole(r, f)}
          [] j.pc \in {"skip", "skipping", "there"} ->
                gguf[f] # None => Len(gguf[f]) = Length[r][f]
          [] OTHER -> TRUE

StoreInv ==
    /\ StoreType
    /\ \A f \in File \ tainted : FileOk(f)
    /\ \A p \in Proc : proc[p].pc \in PullPc /\ proc[p].file \notin tainted => Reached(proc[p])

\* The lock names a server as it is, unless that has ended; a server that is about
\* to write the lock has emptied it.
Names(p) == lock # None /\ lock.body # None /\ lock.body.pid = p
Known(p) == Serves(p) /\ proc[p].file = lock.body.file /\ proc[p].port = lock.body.port
\* A server without another beside it, whose start was not interrupted, has the
\* lock for its own.
Own(p) ==
    /\ \A q \in Proc : Serves(q) => q = p
    /\ proc[p].pc = "write" => lock # None /\ lock.ino = proc[p].fd
    /\ proc[p].pc \in {"bind", "listen"} => Names(p) /\ Known(p)
LockInv ==
    /\ lock \in LockFile \union {None} /\ alone \subseteq Proc
    /\ \A p \in Proc : Names(p) => p \in reused \/ ~Alive(p) \/ Known(p)
    /\ \A p \in Proc : proc[p].pc = "write" => ~Names(p)
    /\ \A p \in Proc : p \in alone /\ Serves(p) => Own(p)

-----------------------------------------------------------------------------
(* What the operators of the store return *)

\* A finite set has an element that no other one beats: the sets of those that
\* beat an element are well founded.
LEMMA Unbeaten ==
    ASSUME NEW S, IsFiniteSet(S), S # {}, NEW R \in SUBSET (S \X S),
           \A i \in S : <<i, i>> \notin R,
           \A i, j, k \in S : <<i, j>> \in R /\ <<j, k>> \in R => <<i, k>> \in R
    PROVE  \E i \in S : \A j \in S : <<j, i>> \notin R
  <1> DEFINE B(i) == {j \in S : <<j, i>> \in R}
             T == {B(i) : i \in S}
             O == StrictSubsetOrdering(S)
  <1>1. IsWellFoundedOn(O, FiniteSubsetsOf(S))
    BY FS_StrictSubsetOrderingWellFounded, Zenon
  <1>2. T \subseteq FiniteSubsetsOf(S)
    <2> SUFFICES ASSUME NEW i \in S PROVE B(i) \in FiniteSubsetsOf(S)
      OBVIOUS
    <2>1. B(i) \subseteq S
      OBVIOUS
    <2>2. IsFiniteSet(B(i))
      BY <2>1, FS_Subset
    <2> QED
      BY <2>1, <2>2 DEF FiniteSubsetsOf
  <1>3. PICK t \in T : \A u \in T : ~(<<u, t>> \in O)
    <2>1. T # {}
      <3>1. PICK i \in S : TRUE
        OBVIOUS
      <3>2. B(i) \in T
        OBVIOUS
      <3> QED
        BY <3>2
    <2> HIDE DEF T, O
    <2> QED
      BY <1>1, <1>2, <2>1, WFMin, Zenon
  <1>4. PICK i \in S : t = B(i)
    OBVIOUS
  <1> WITNESS i \in S
  <1> TAKE j \in S
  <1>5. SUFFICES ASSUME <<j, i>> \in R PROVE FALSE
    OBVIOUS
  <1>6. B(j) \subseteq B(i) /\ j \in B(i) /\ j \notin B(j) /\ B(i) \subseteq S
    BY <1>5
  <1>7. <<B(j), B(i)>> \in O
    BY <1>6 DEF StrictSubsetOrdering
  <1> QED
    BY <1>3, <1>4, <1>7

\* pick_sibling returns a gguf of the listing, or 0.
LEMMA Picked ==
    ASSUME NEW r \in Repo, NEW quant
    PROVE  LET i == pick_sibling(Listing[r], quant)
           IN  i = 0 \/ (i \in DOMAIN Listing[r] /\ Listing[r][i].gguf)
  <1> DEFINE sibs == Listing[r]
             all == {i \in DOMAIN sibs : sibs[i].gguf}
  <1>1. /\ DOMAIN sibs = 1 .. Len(sibs) /\ Len(sibs) \in Nat
        /\ \A i \in DOMAIN sibs : sibs[i].size \in Nat
    <2>1. sibs \in Seq([file : File, gguf : BOOLEAN, quant : STRING, size : Nat])
      BY ModelAssumption
    <2> DEFINE X == [file : File, gguf : BOOLEAN, quant : STRING, size : Nat]
    <2>2. \A e \in X : e.size \in Nat
      OBVIOUS
    <2>3. sibs \in Seq(X)
      BY <2>1
    <2> HIDE DEF sibs, X
    <2>4. /\ DOMAIN sibs = 1 .. Len(sibs) /\ Len(sibs) \in Nat
          /\ \A i \in 1 .. Len(sibs) : sibs[i] \in X
      BY <2>3
    <2> QED
      BY <2>2, <2>4
  <1>2. ASSUME NEW is \in SUBSET all, is # {}
        PROVE  Largest(sibs, is) \in is /\ Smallest(sibs, is) \in is
    <2>1. IsFiniteSet(is) /\ is \subseteq Nat /\ \A i \in is : sibs[i].size \in Nat
      <3>1. IsFiniteSet(1 .. Len(sibs)) /\ is \subseteq 1 .. Len(sibs)
        BY <1>1, FS_Interval
      <3>2. IsFiniteSet(is)
        BY <3>1, FS_Subset
      <3> QED
        BY <1>1, <3>1, <3>2
    <2> HIDE DEF sibs
    <2>2. \E i \in is : \A j \in is : \/ sibs[j].size < sibs[i].size
                                      \/ sibs[j].size = sibs[i].size /\ i <= j
      <3> DEFINE R == {x \in is \X is : \/ sibs[x[1]].size > sibs[x[2]].size
                                        \/ sibs[x[1]].size = sibs[x[2]].size /\ x[1] < x[2]}
      <3>1. \A i, j \in is : <<i, j>> \in R <=> \/ sibs[i].size > sibs[j].size
                                                \/ sibs[i].size = sibs[j].size /\ i < j
        OBVIOUS
      <3>2. R \in SUBSET (is \X is)
        OBVIOUS
      <3> HIDE DEF R
      <3>3. /\ \A i \in is : <<i, i>> \notin R
            /\ \A i, j, k \in is : <<i, j>> \in R /\ <<j, k>> \in R => <<i, k>> \in R
        BY <2>1, <3>1
      <3>4. PICK i \in is : \A j \in is : <<j, i>> \notin R
        BY <1>2, <2>1, <3>2, <3>3, Unbeaten
      <3>5. ASSUME NEW j \in is
            PROVE  \/ sibs[j].size < sibs[i].size
                   \/ sibs[j].size = sibs[i].size /\ i <= j
        <4>1. /\ ~(sibs[j].size > sibs[i].size)
              /\ ~(sibs[j].size = sibs[i].size /\ j < i)
          BY <3>1, <3>4
        <4>2. i \in Nat /\ j \in Nat /\ sibs[i].size \in Nat /\ sibs[j].size \in Nat
          BY <2>1
        <4> QED
          BY <4>1, <4>2
      <3> QED
        BY <3>5
    <2>3. \E i \in is : \A j \in is : \/ sibs[j].size > sibs[i].size
                                      \/ sibs[j].size = sibs[i].size /\ i <= j
      <3> DEFINE R == {x \in is \X is : \/ sibs[x[1]].size < sibs[x[2]].size
                                        \/ sibs[x[1]].size = sibs[x[2]].size /\ x[1] < x[2]}
      <3>1. \A i, j \in is : <<i, j>> \in R <=> \/ sibs[i].size < sibs[j].size
                                                \/ sibs[i].size = sibs[j].size /\ i < j
        OBVIOUS
      <3>2. R \in SUBSET (is \X is)
        OBVIOUS
      <3> HIDE DEF R
      <3>3. /\ \A i \in is : <<i, i>> \notin R
            /\ \A i, j, k \in is : <<i, j>> \in R /\ <<j, k>> \in R => <<i, k>> \in R
        BY <2>1, <3>1
      <3>4. PICK i \in is : \A j \in is : <<j, i>> \notin R
        BY <1>2, <2>1, <3>2, <3>3, Unbeaten
      <3>5. ASSUME NEW j \in is
            PROVE  \/ sibs[j].size > sibs[i].size
                   \/ sibs[j].size = sibs[i].size /\ i <= j
        <4>1. /\ ~(sibs[j].size < sibs[i].size)
              /\ ~(sibs[j].size = sibs[i].size /\ j < i)
          BY <3>1, <3>4
        <4>2. i \in Nat /\ j \in Nat /\ sibs[i].size \in Nat /\ sibs[j].size \in Nat
          BY <2>1
        <4> QED
          BY <4>1, <4>2
      <3> QED
        BY <3>5
    <2> QED
      BY <2>2, <2>3 DEF Largest, Smallest
  <1> DEFINE exact == {i \in all : sibs[i].quant = quant}
             known == {i \in all : sibs[i].quant \in Recognised}
  <1>3. pick_sibling(sibs, quant) = CASE all = {}   -> 0
                                      [] exact # {} -> Largest(sibs, exact)
                                      [] known # {} -> Smallest(sibs, known)
                                      [] OTHER      -> Largest(sibs, all)
    BY DEF pick_sibling
  <1>4. exact \in SUBSET all /\ known \in SUBSET all /\ all \in SUBSET all
    OBVIOUS
  <1>5. pick_sibling(sibs, quant) \in all \union {0}
    <2>1. all # {} => Largest(sibs, all) \in all
      BY <1>2, <1>4
    <2>2. exact # {} => Largest(sibs, exact) \in all
      BY <1>2, <1>4
    <2>3. known # {} => Smallest(sibs, known) \in all
      BY <1>2, <1>4
    <2>4. exact # {} => all # {}
      BY <1>4
    <2> HIDE DEF all, exact, known, sibs
    <2> QED
      BY <1>3, <2>1, <2>2, <2>3, <2>4
  <1> QED
    BY <1>5

\* What the download of a listed file starts with.
LEMMA ListedJob ==
    ASSUME NEW o, o.repo \in Repo, NEW i \in DOMAIN Listing[o.repo], Listing[o.repo][i].gguf
    PROVE  LET j == FromListing(o, Listing[o.repo][i])
           IN  /\ j \in PullRec /\ PullTyped(j) /\ j.pc = "check" /\ j.fd = "none"
               /\ j.file = Listing[o.repo][i].file
  <1> DEFINE r == o.repo
             e == Listing[r][i]
             j == FromListing(o, e)
  <1>1. /\ Listing[r] \in Seq([file : File, gguf : BOOLEAN, quant : STRING, size : Nat])
        /\ e.file \in DOMAIN Length[r] /\ e.size \in {0, Length[r][e.file]}
    BY ModelAssumption
  <1>2. e.size \in Nat
    BY <1>1, ModelAssumption
  <1>3. e.file \in File
    BY DEF File
  <1>4. j = FromListing([repo |-> r], e)
    BY DEF FromListing, make_stem
  <1>5. j.stem \in Stem
    <2>1. FromListing([repo |-> r], Listing[r][i]) \in Jobs
      BY DEF Jobs
    <2> QED
      BY <1>4, <2>1 DEF Stem
  <1>6. /\ j = [pc |-> "check", repo |-> r, file |-> e.file, size |-> e.size, fd |-> "none",
                at |-> 0, stem |-> j.stem]
    BY DEF FromListing
  <1> HIDE DEF j, e, r
  <1>7. j \in PullRec
    <2>1. r \in Repo
      BY DEF r
    <2> QED
      BY <1>2, <1>3, <1>5, <1>6, <2>1 DEF PullRec, PullPc, Open
  <1>8. j.pc = "check" /\ j.fd = "none" /\ j.file = e.file /\ j.size = e.size /\ j.repo = r
    BY <1>6
  <1>9. PullTyped(j)
    BY <1>1, <1>8 DEF PullTyped, CurlTyped
  <1> QED
    BY <1>7, <1>8, <1>9 DEF j, e, r

\* What is asked for by its name or URL starts in the same way.
LEMMA NamedJob ==
    ASSUME NEW o \in Operand, o.kind # "repo-quant"
    PROVE  LET j == FromName(o)
           IN  j \in PullRec /\ PullTyped(j) /\ j.pc = "check" /\ j.fd = "none" /\ j.file = o.file
  <1> DEFINE j == FromName(o)
  <1>1. o.repo \in Repo /\ o.file \in File /\ o.file \in DOMAIN Length[o.repo]
    BY ModelAssumption
  <1>2. j.stem \in Stem
    BY DEF Stem, Jobs
  <1>3. j = [pc |-> "check", repo |-> o.repo, file |-> o.file, size |-> 0, fd |-> "none",
             at |-> 0, stem |-> j.stem]
    BY DEF FromName
  <1> HIDE DEF j
  <1>4. j \in PullRec
    BY <1>1, <1>2, <1>3 DEF PullRec, PullPc, Open
  <1>5. j.pc = "check" /\ j.fd = "none" /\ j.file = o.file /\ j.size = 0 /\ j.repo = o.repo
    BY <1>3
  <1>6. PullTyped(j)
    BY <1>1, <1>5 DEF PullTyped, CurlTyped
  <1> QED
    BY <1>4, <1>5, <1>6 DEF j

\* A model that is resolved names a file of the store, or none.
LEMMA Resolved ==
    ASSUME StoreType, NEW n \in Name
    PROVE  resolve(n) # None => resolve(n).file \in File \union {None}
  <1>1. \A m \in list : m.file \in File \union {None}
    <2> SUFFICES ASSUME NEW s \in Stem, OnDisk(sidecar[s])
                 PROVE  read_manifest(s).file \in File \union {None}
      BY DEF list
    <2>1. sidecar[s] \in [file : File \union {None}]
      BY DEF StoreType, OnDisk
    <2>2. sidecar[s].file \in File \union {None}
      BY <2>1
    <2> QED
      BY <2>2 DEF read_manifest
  <1>2. n.path \in File \union {None}
    BY ModelAssumption
  <1>3. CASE n.path # None
    <2> DEFINE ms == {m \in list : m.file = n.path}
    <2>1. ms # {} => (CHOOSE m \in ms : TRUE) \in ms
      OBVIOUS
    <2>2. ms # {} => (CHOOSE m \in ms : TRUE).file = n.path
      BY <2>1
    <2>3. resolve(n) = IF ~OnDisk(gguf[n.path]) THEN None
                       ELSE IF ms = {} THEN [stem |-> None, file |-> n.path]
                       ELSE CHOOSE m \in ms : TRUE
      BY <1>3 DEF resolve
    <2> HIDE DEF ms
    <2> QED
      BY <1>2, <2>2, <2>3
  <1>4. CASE n.path = None
    <2> DEFINE exact == {m \in list : m.stem = n.exact}
               hits  == IF exact # {} THEN exact ELSE {m \in list : m.stem \in n.prefix}
    <2>1. resolve(n) = IF Cardinality(hits) = 1 THEN CHOOSE m \in hits : TRUE ELSE None
      BY <1>4 DEF resolve
    <2>2. hits \subseteq list
      OBVIOUS
    <2> HIDE DEF hits
    <2>3. Cardinality(hits) = 1 => hits # {}
      BY FS_EmptySet
    <2>4. hits # {} => (CHOOSE m \in hits : TRUE) \in hits
      OBVIOUS
    <2> QED
      BY <1>1, <2>1, <2>2, <2>3, <2>4
  <1> QED
    BY <1>3, <1>4

\* A command is told by where it stands.
LEMMA Kinds ==
    ASSUME NEW x \in Command
    PROVE  /\ x.pc = "api" => x \in ApiRec
           /\ x.pc \in PullPc => x \in PullRec
           /\ x.pc = "rm" => x \in RmRec
           /\ x.pc \in ServePc => x \in ServeRec
           /\ x.pc = "idle" => x = Idle
           /\ x = Idle => x.pc = "idle"
  <1>1. Idle.pc = "idle"
    BY DEF Idle
  <1>2. x \in ApiRec => x.pc = "api"
    BY DEF ApiRec
  <1>3. x \in PullRec => x.pc \in PullPc
    BY DEF PullRec
  <1>4. x \in RmRec => x.pc = "rm"
    BY DEF RmRec
  <1>5. x \in ServeRec => x.pc \in ServePc
    BY DEF ServeRec
  <1>6. x = Idle \/ x \in ApiRec \/ x \in PullRec \/ x \in RmRec \/ x \in ServeRec
    BY DEF Command
  <1> QED
    BY <1>1, <1>2, <1>3, <1>4, <1>5, <1>6 DEF PullPc, ServePc

-----------------------------------------------------------------------------
(* The store *)

\* What a step of one command says of the commands.
LEMMA OneChanges ==
    ASSUME StoreType, NEW p \in Proc, NEW x \in Command, proc' = [proc EXCEPT ![p] = x]
    PROVE  /\ proc' \in [Proc -> Command] /\ proc'[p] = x
           /\ \A q \in Proc : q # p => proc'[q] = proc[q]
  BY DEF StoreType

\* A command goes on, with or without a pull, and touches neither the partial nor
\* the installed files.
LEMMA StoreMoves ==
    ASSUME StoreInv, NEW p \in Proc, NEW x \in Command, proc' = [proc EXCEPT ![p] = x],
           UNCHANGED <<tmp, gguf, strays, tainted, orphans>>,
           sidecar' \in [Stem -> [file : File \union {None}] \union {None}],
           PullTyped(x),
           x.pc \in PullPc => /\ proc[p].pc \in PullPc /\ x.file = proc[p].file
                              /\ x.file \notin tainted => Reached(x),
           proc[p].pc \in {"download", "rename"} /\ tmp[proc[p].file] # None
              => x.pc \in {"download", "rename"}
    PROVE  StoreInv'
  <1>1. /\ proc' \in [Proc -> Command] /\ proc'[p] = x
        /\ \A q \in Proc : q # p => proc'[q] = proc[q]
    BY OneChanges DEF StoreInv
  <1>2. (\A q \in Proc : PullTyped(proc[q]))' /\ (\A t \in strays : CurlTyped(t))'
    BY <1>1 DEF StoreInv, StoreType, PullTyped, CurlTyped
  <1>3. StoreType'
    BY <1>1, <1>2 DEF StoreInv, StoreType
  <1>4. \A q \in Proc, f \in File : Pulls(q, f)' => Pulls(q, f)
    BY <1>1 DEF Pulls
  <1>5. ASSUME NEW f \in File \ tainted PROVE FileOk(f)'
    <2>1. FileOk(f)
      BY DEF StoreInv
    <2>2. ASSUME tmp[f] # None, f \notin orphans
          PROVE  \E q \in Proc : Pulls(q, f)' /\ proc'[q].pc \in {"download", "rename"}
      <3>1. PICK q \in Proc : Pulls(q, f) /\ proc[q].pc \in {"download", "rename"}
        BY <2>1, <2>2 DEF FileOk
      <3> QED
        BY <1>1, <2>2, <3>1 DEF Pulls, PullPc
    <2> QED
      BY <1>4, <2>1, <2>2 DEF FileOk
  <1>6. ASSUME NEW q \in Proc, proc'[q].pc \in PullPc, proc'[q].file \notin tainted
        PROVE  Reached(proc[q])'
    BY <1>1, <1>6 DEF StoreInv, Reached
  <1> QED
    BY <1>3, <1>5, <1>6 DEF StoreInv

\* A command takes up the pull of a file.
LEMMA StoreEnters ==
    ASSUME StoreInv, NEW p \in Proc, NEW x \in PullRec, proc' = [proc EXCEPT ![p] = x],
           proc[p].pc \notin PullPc, tainted' = Taint(p, x.file),
           UNCHANGED <<disk, strays, orphans>>, PullTyped(x), x.pc = "check"
    PROVE  StoreInv'
  <1> USE DEF disk, past
  <1>1. /\ proc' \in [Proc -> Command] /\ proc'[p] = x
        /\ \A q \in Proc : q # p => proc'[q] = proc[q]
    BY OneChanges DEF StoreInv, Command
  <1>2. (\A q \in Proc : PullTyped(proc[q]))' /\ (\A t \in strays : CurlTyped(t))'
    BY <1>1 DEF StoreInv, StoreType, PullTyped, CurlTyped
  <1>3. x.file \in File /\ x.pc \in PullPc
    BY DEF PullRec
  <1>4. StoreType' /\ tainted \subseteq tainted'
    BY <1>1, <1>2, <1>3 DEF StoreInv, StoreType, Taint
  <1>5. ASSUME NEW f \in File \ tainted' PROVE FileOk(f)'
    <2>1. FileOk(f)
      BY <1>4 DEF StoreInv
    <2>2. f = x.file => /\ \A q \in Proc : q # p => ~Pulls(q, f)
                        /\ \A t \in strays : t.file # f
      BY <1>5 DEF Taint, Contended
    <2>3. \A q \in Proc : Pulls(q, f)' => Pulls(q, f) \/ (q = p /\ f = x.file)
      BY <1>1 DEF Pulls
    <2>4. \A q \in Proc : Pulls(q, f) => Pulls(q, f)' /\ proc'[q] = proc[q]
      BY <1>1 DEF Pulls
    <2> QED
      BY <2>1, <2>2, <2>3, <2>4 DEF FileOk
  <1>6. ASSUME NEW q \in Proc, proc'[q].pc \in PullPc, proc'[q].file \notin tainted'
        PROVE  Reached(proc[q])'
    <2>1. CASE q = p
      BY <1>1, <2>1 DEF Reached
    <2>2. CASE q # p
      BY <1>1, <1>4, <1>6, <2>2 DEF StoreInv, Reached
    <2> QED
      BY <2>1, <2>2
  <1> QED
    BY <1>4, <1>5, <1>6 DEF StoreInv

\* The command ends.
LEMMA StoreEnds ==
    ASSUME StoreInv, NEW p \in Proc, End(p), UNCHANGED <<disk, strays, past>>,
           proc[p].pc \in {"download", "rename"} => tmp[proc[p].file] = None
    PROVE  StoreInv'
  <1>1. Idle \in Command /\ Idle.pc = "idle" /\ PullTyped(Idle)
    BY DEF Command, Idle, PullTyped, PullPc
  <1>2. sidecar' \in [Stem -> [file : File \union {None}] \union {None}]
    BY DEF StoreInv, StoreType, disk
  <1> QED
    BY <1>1, <1>2, StoreMoves DEF End, disk, past, PullPc

\* A pull goes from one step to another.
LEMMA StoreGoes ==
    ASSUME StoreInv, NEW p \in Proc, NEW c \in PullPc, Goto(p, c),
           UNCHANGED <<tmp, gguf, strays, tainted, orphans>>,
           sidecar' \in [Stem -> [file : File \union {None}] \union {None}],
           proc[p].pc \in PullPc \ {"download", "rename"},
           c \notin {"download", "rename"},
           c \in {"manifest", "writing"} => proc[p].pc \in {"manifest", "writing"},
           c = "ok" => proc[p].pc \in {"manifest", "writing"},
           c = "there" => proc[p].pc = "skipping",
           c \in {"skip", "skipping"} /\ proc[p].file \notin tainted /\ gguf[proc[p].file] # None
              => Len(gguf[proc[p].file]) = Length[proc[p].repo][proc[p].file]
    PROVE  StoreInv'
  <1> DEFINE x == [proc[p] EXCEPT !.pc = c]
  <1>1. proc[p] \in PullRec /\ PullTyped(proc[p])
    BY Kinds DEF StoreInv, StoreType
  <1>2. /\ x \in PullRec /\ x.pc = c
        /\ x.repo = proc[p].repo /\ x.file = proc[p].file /\ x.size = proc[p].size
        /\ x.fd = proc[p].fd
    BY <1>1 DEF PullRec
  <1>3. proc' = [proc EXCEPT ![p] = x]
    BY DEF Goto
  <1> HIDE DEF x
  <1>4. PullTyped(x)
    BY <1>1, <1>2 DEF PullTyped, CurlTyped
  <1>5. x.file \notin tainted => Reached(x)
    BY <1>2 DEF StoreInv, Reached
  <1>6. x \in Command
    BY <1>2 DEF Command
  <1> QED
    BY <1>2, <1>3, <1>4, <1>5, <1>6, StoreMoves

\* `pull' starts.
LEMMA StorePull ==
    ASSUME StoreInv, NEW p \in Proc, NEW o \in Operand, Pull(p, o)
    PROVE  StoreInv'
  <1>1. proc[p].pc \notin PullPc
    BY DEF Pull, Idle, PullPc
  <1>2. CASE o.kind = "repo-quant"
    <2> DEFINE x == [pc |-> "api", repo |-> o.repo, quant |-> o.quant]
    <2>1. x \in ApiRec
      BY ModelAssumption DEF ApiRec
    <2>2. x \in Command /\ x.pc = "api"
      BY <2>1 DEF Command
    <2>3. proc' = [proc EXCEPT ![p] = x] /\ UNCHANGED <<tmp, gguf, sidecar, strays, tainted, orphans>>
      BY <1>2 DEF Pull, disk
    <2> HIDE DEF x
    <2>4. PullTyped(x) /\ x.pc \notin PullPc
      BY <2>2 DEF PullTyped, PullPc
    <2>5. sidecar' \in [Stem -> [file : File \union {None}] \union {None}]
      BY <2>3 DEF StoreInv, StoreType
    <2>6. proc[p].pc \notin {"download", "rename"}
      BY <1>1 DEF PullPc
    <2> QED
      BY <2>2, <2>3, <2>4, <2>5, <2>6, StoreMoves
  <1>3. CASE o.kind # "repo-quant"
    <2> DEFINE x == FromName(o)
    <2>1. x \in PullRec /\ PullTyped(x) /\ x.pc = "check" /\ x.file = o.file
      BY <1>3, NamedJob
    <2>2. proc' = [proc EXCEPT ![p] = x] /\ tainted' = Taint(p, o.file) /\ UNCHANGED <<disk, strays, orphans>>
      BY <1>3 DEF Pull
    <2> HIDE DEF x
    <2> QED
      BY <1>1, <2>1, <2>2, StoreEnters
  <1> QED
    BY <1>2, <1>3

\* The listing arrives.
LEMMA StoreListed ==
    ASSUME StoreInv, NEW p \in Proc, Listed(p)
    PROVE  StoreInv'
  <1> DEFINE o == proc[p]
             sibs == Listing[o.repo]
             i == pick_sibling(sibs, o.quant)
  <1>1. o \in ApiRec
    BY Kinds DEF StoreInv, StoreType, Listed
  <1>2. o.repo \in Repo /\ o.pc = "api"
    BY <1>1 DEF ApiRec
  <1>3. i = 0 \/ (i \in DOMAIN sibs /\ sibs[i].gguf)
    BY <1>2, Picked
  <1>4. CASE i = 0
    BY <1>2, <1>4, StoreEnds DEF Listed, disk, past
  <1>5. CASE i # 0
    <2> DEFINE x == FromListing(o, sibs[i])
    <2>1. /\ proc' = [proc EXCEPT ![p] = x] /\ tainted' = Taint(p, sibs[i].file)
          /\ UNCHANGED <<disk, strays, orphans>>
      BY <1>5 DEF Listed
    <2>2. x \in PullRec /\ PullTyped(x) /\ x.pc = "check" /\ x.file = sibs[i].file
      BY <1>2, <1>3, <1>5, ListedJob
    <2>3. o.pc \notin PullPc
      BY <1>2 DEF PullPc
    <2> HIDE DEF x, i
    <2> QED
      BY <2>1, <2>2, <2>3, StoreEnters
  <1> QED
    BY <1>4, <1>5

\* What a download has got after so many blocks.
LEMMA Parts ==
    ASSUME NEW r \in Repo, NEW n \in Nat
    PROVE  /\ Part(r, n) \in Seq(Block) /\ Len(Part(r, n)) = n
           /\ Append(Part(r, n), <<r, n + 1>>) = Part(r, n + 1)
  <1>1. Part(r, n) \in Seq(Block) /\ Len(Part(r, n)) = n
    BY DEF Part, Block
  <1>2. Part(r, n + 1) \in Seq(Block) /\ Len(Part(r, n + 1)) = n + 1
    BY DEF Part, Block
  <1>3. <<r, n + 1>> \in Block
    BY DEF Block
  <1>4. \A i \in 1 .. n + 1 : Append(Part(r, n), <<r, n + 1>>)[i] = Part(r, n + 1)[i]
    BY <1>1, <1>3 DEF Part
  <1>5. Append(Part(r, n), <<r, n + 1>>) \in Seq(Block)
        /\ Len(Append(Part(r, n), <<r, n + 1>>)) = n + 1
    BY <1>1, <1>3
  <1> HIDE DEF Part
  <1> QED
    BY <1>1, <1>2, <1>4, <1>5
LEMMA WholeLength ==
    ASSUME NEW r \in Repo, NEW f \in DOMAIN Length[r]
    PROVE  Whole(r, f) \in Seq(Block) /\ Len(Whole(r, f)) = Length[r][f]
  BY ModelAssumption, Parts DEF Whole

\* The download is skipped when the file is there with the size of the listing.
LEMMA StoreCheck ==
    ASSUME StoreInv, NEW p \in Proc, Check(p)
    PROVE  StoreInv'
  <1> DEFINE j == proc[p]
  <1>1. /\ j.pc = "check" /\ Goto(p, IF Present(j) THEN "skip" ELSE "curl")
        /\ UNCHANGED <<tmp, gguf, sidecar, strays, tainted, orphans>>
    BY DEF Check, disk, past
  <1>2. j \in PullRec /\ PullTyped(j) /\ j.pc \in PullPc
    BY <1>1, Kinds DEF StoreInv, StoreType, PullPc
  <1>3. Present(j) => Len(gguf[j.file]) = Length[j.repo][j.file]
    BY <1>2 DEF Present, PullTyped
  <1>4. sidecar' \in [Stem -> [file : File \union {None}] \union {None}]
    BY <1>1 DEF StoreInv, StoreType
  <1>5. CASE Present(j)
    BY <1>1, <1>2, <1>3, <1>4, <1>5, StoreGoes DEF PullPc
  <1>6. CASE ~Present(j)
    BY <1>1, <1>2, <1>4, <1>6, StoreGoes DEF PullPc
  <1> QED
    BY <1>5, <1>6

\* The manifest is written, or not.
LEMMA StoreManifest ==
    ASSUME StoreInv, NEW p \in Proc, OpenSidecar(p) \/ WriteSidecar(p) \/ ManifestFails(p)
    PROVE  StoreInv'
  <1> DEFINE j == proc[p]
  <1>1. /\ UNCHANGED <<tmp, gguf, strays, tainted, orphans>>
        /\ j.pc \in {"skip", "skipping", "manifest", "writing"}
    BY DEF OpenSidecar, WriteSidecar, ManifestFails, disk, past
  <1>2. j \in PullRec /\ j.pc \in PullPc
    BY <1>1, Kinds DEF StoreInv, StoreType, PullPc
  <1>3. j.file \in File /\ j.stem \in Stem
    BY <1>2 DEF PullRec
  <1>4. sidecar' \in [Stem -> [file : File \union {None}] \union {None}]
    BY <1>3 DEF OpenSidecar, WriteSidecar, ManifestFails, Empty, disk, StoreInv, StoreType
  <1>5. j.pc \in {"skip", "skipping"} /\ j.file \notin tainted /\ gguf[j.file] # None
           => Len(gguf[j.file]) = Length[j.repo][j.file]
    BY <1>2 DEF StoreInv, Reached
  <1>6. PICK c \in {"skipping", "there", "writing", "curl", "ok"} :
           /\ Goto(p, c)
           /\ c = "skipping" => j.pc = "skip"
           /\ c = "there" => j.pc = "skipping"
           /\ c \in {"writing", "ok"} => j.pc \in {"manifest", "writing"}
    BY DEF OpenSidecar, WriteSidecar, ManifestFails
  <1> QED
    BY <1>1, <1>2, <1>4, <1>5, <1>6, StoreGoes DEF PullPc

\* When the names of a file change, a curl that has the file open keeps all but what
\* it has open is called.
Kept(j, k, f, names) ==
    \/ k = j /\ ~(j.pc = "download" /\ j.file = f)
    \/ /\ j.pc = "download" /\ j.file = f
       /\ k.pc = j.pc /\ k.file = j.file /\ k.repo = j.repo /\ k.at = j.at
       /\ k.fd = names[j.fd] /\ j.fd \in {"tmp", "gguf", "gone"}
LEMMA Following ==
    ASSUME StoreType, NEW p \in Proc, NEW x \in Command, NEW f,
           NEW names \in {Renamed, TmpGone, Removed}, Follows(p, x, f, names)
    PROVE  /\ proc' \in [Proc -> Command] /\ proc'[p] = x
           /\ \A q \in Proc : q # p => /\ Kept(proc[q], proc'[q], f, names)
                                       /\ proc[q].pc \in PullPc => proc'[q].size = proc[q].size
           /\ strays' \subseteq StrayRec
           /\ \A t \in strays' : \E s \in strays : Kept(s, t, f, names)
  <1>1. names \in [{"tmp", "gguf", "gone"} -> {"tmp", "gguf", "gone"}]
    BY DEF Renamed, TmpGone, Removed
  <1>2. ASSUME NEW q \in Proc
        PROVE  LET k == Follow(proc[q], f, names)
               IN  /\ k \in Command /\ Kept(proc[q], k, f, names)
                   /\ proc[q].pc \in PullPc => k.size = proc[q].size
    <2> DEFINE j == proc[q]
    <2>1. j \in Command /\ PullTyped(j)
      BY DEF StoreType
    <2>2. CASE ~(j.pc = "download" /\ j.file = f)
      BY <2>1, <2>2 DEF Follow, Kept
    <2>3. CASE j.pc = "download" /\ j.file = f
      <3>1. j \in PullRec /\ j.fd \in {"tmp", "gguf", "gone"}
        <4>1. j \in PullRec /\ j.fd # "none"
          BY <2>1, <2>3, Kinds DEF PullTyped, CurlTyped, PullPc
        <4> QED
          BY <4>1 DEF PullRec, Open
      <3> DEFINE d == names[j.fd]
      <3>2. d \in Open
        BY <1>1, <3>1 DEF Open
      <3> HIDE DEF d
      <3>3. Follow(j, f, names) = [j EXCEPT !.fd = d]
        BY <2>3 DEF Follow, d
      <3>4. LET k == [j EXCEPT !.fd = d]
            IN  /\ k \in PullRec /\ k.pc = j.pc /\ k.file = j.file /\ k.repo = j.repo
                /\ k.at = j.at /\ k.size = j.size /\ k.fd = d
        BY <3>1, <3>2 DEF PullRec
      <3> QED
        BY <2>3, <3>1, <3>3, <3>4 DEF Kept, Command, d
    <2> QED
      BY <2>2, <2>3
  <1>3. ASSUME NEW s \in strays
        PROVE  LET k == Follow(s, f, names) IN k \in StrayRec /\ Kept(s, k, f, names)
    <2>1. s \in StrayRec /\ CurlTyped(s)
      BY DEF StoreType
    <2>2. CASE ~(s.pc = "download" /\ s.file = f)
      BY <2>1, <2>2 DEF Follow, Kept
    <2>3. CASE s.pc = "download" /\ s.file = f
      <3>1. s.fd \in {"tmp", "gguf", "gone"}
        BY <2>1, <2>3 DEF CurlTyped, StrayRec, Open
      <3> DEFINE d == names[s.fd]
      <3>2. d \in Open
        BY <1>1, <3>1 DEF Open
      <3> HIDE DEF d
      <3>3. Follow(s, f, names) = [s EXCEPT !.fd = d]
        BY <2>3 DEF Follow, d
      <3>4. LET k == [s EXCEPT !.fd = d]
            IN  /\ k \in StrayRec /\ k.pc = s.pc /\ k.file = s.file /\ k.repo = s.repo
                /\ k.at = s.at /\ k.fd = d
        BY <2>1, <3>2 DEF StrayRec
      <3> QED
        BY <2>3, <3>1, <3>3, <3>4 DEF Kept, d
    <2> QED
      BY <2>2, <2>3
  <1>4. /\ proc' = [q \in Proc |-> IF q = p THEN x ELSE Follow(proc[q], f, names)]
        /\ strays' = {Follow(s, f, names) : s \in strays}
    BY DEF Follows
  <1>5. proc' \in [Proc -> Command] /\ proc'[p] = x
    BY <1>2, <1>4
  <1>6. \A q \in Proc : q # p => proc'[q] = Follow(proc[q], f, names)
    BY <1>4
  <1> QED
    BY <1>2, <1>3, <1>4, <1>5, <1>6

\* What is called otherwise is still on disk.
LEMMA StillOpen ==
    ASSUME NEW j, NEW k, NEW f, NEW names, Kept(j, k, f, names), CurlTyped(j), j.file \in File,
           \A g \in File : g # f => tmp'[g] = tmp[g] /\ gguf'[g] = gguf[g],
           \/ names = TmpGone /\ gguf' = gguf
           \/ names = Removed /\ tmp' = tmp
           \/ names = Renamed /\ gguf'[f] = tmp[f]
    PROVE  /\ k.file = j.file /\ k.pc = j.pc
           /\ k.file \in DOMAIN Length[k.repo]
           /\ k.fd = "none" <=> k.pc # "download"
           /\ k.fd = "tmp"  => tmp'[k.file] \in Seq(Block)
           /\ k.fd = "gguf" => gguf'[k.file] \in Seq(Block)
  <1>1. CASE k = j /\ ~(j.pc = "download" /\ j.file = f)
    <2>1. k.fd # "none" => j.file # f
      BY <1>1 DEF CurlTyped
    <2> QED
      BY <1>1, <2>1 DEF CurlTyped
  <1>2. CASE ~(k = j /\ ~(j.pc = "download" /\ j.file = f))
    <2>1. /\ j.pc = "download" /\ j.file = f
          /\ k.pc = j.pc /\ k.file = j.file /\ k.repo = j.repo
          /\ k.fd = names[j.fd] /\ j.fd \in {"tmp", "gguf", "gone"}
      BY <1>2 DEF Kept
    <2>2. CASE names = TmpGone
      BY <2>1, <2>2 DEF CurlTyped, TmpGone, Renamed, Removed
    <2>3. CASE names = Removed
      BY <2>1, <2>3 DEF CurlTyped, TmpGone, Renamed, Removed
    <2>4. CASE names = Renamed
      BY <2>1, <2>4 DEF CurlTyped, TmpGone, Renamed, Removed
    <2> QED
      BY <2>2, <2>3, <2>4
  <1> QED
    BY <1>1, <1>2

\* So every curl is typed as before.
LEMMA StillTyped ==
    ASSUME StoreType, NEW p \in Proc, NEW x \in Command, NEW f,
           NEW names \in {Renamed, TmpGone, Removed}, Follows(p, x, f, names),
           x.pc \in PullPc => x.fd = "none" /\ x.pc # "download" /\ x.file \in DOMAIN Length[x.repo]
                              /\ x.size \in {0, Length[x.repo][x.file]},
           \A g \in File : g # f => tmp'[g] = tmp[g] /\ gguf'[g] = gguf[g],
           \/ names = TmpGone /\ gguf' = gguf
           \/ names = Removed /\ tmp' = tmp
           \/ names = Renamed /\ gguf'[f] = tmp[f]
    PROVE  /\ proc' \in [Proc -> Command] /\ strays' \subseteq StrayRec
           /\ (\A q \in Proc : PullTyped(proc[q]))' /\ (\A t \in strays : CurlTyped(t))'
           /\ \A q \in Proc : q # p => /\ proc'[q].pc = proc[q].pc
                                       /\ \A g : Pulls(q, g)' <=> Pulls(q, g)
                                       /\ proc[q].pc \in PullPc /\ proc[q].file # f
                                             => proc'[q] = proc[q]
           /\ \A t \in strays' : \E s \in strays : t.file = s.file /\ Kept(s, t, f, names)
  <1>1. /\ proc' \in [Proc -> Command] /\ proc'[p] = x
        /\ \A q \in Proc : q # p => /\ Kept(proc[q], proc'[q], f, names)
                                    /\ proc[q].pc \in PullPc => proc'[q].size = proc[q].size
        /\ strays' \subseteq StrayRec
        /\ \A t \in strays' : \E s \in strays : Kept(s, t, f, names)
    BY Following
  <1>2. ASSUME NEW q \in Proc, q # p
        PROVE  /\ PullTyped(proc[q])' /\ proc'[q].pc = proc[q].pc
               /\ \A g : Pulls(q, g)' <=> Pulls(q, g)
               /\ proc[q].pc \in PullPc /\ proc[q].file # f => proc'[q] = proc[q]
    <2> DEFINE j == proc[q]
               k == proc'[q]
    <2>1. Kept(j, k, f, names) /\ (j.pc \in PullPc => k.size = j.size)
      BY <1>1, <1>2
    <2>2. k.pc = j.pc /\ (j.pc # "download" => k = j)
      BY <2>1 DEF Kept
    <2>3. CASE j.pc \notin PullPc
      BY <2>2, <2>3 DEF PullTyped, Pulls
    <2>4. CASE j.pc \in PullPc
      <3>1. j \in PullRec /\ PullTyped(j)
        BY <2>4, Kinds DEF StoreType
      <3>2. j.file \in File /\ CurlTyped(j) /\ j.size \in {0, Length[j.repo][j.file]}
        BY <2>4, <3>1 DEF PullRec, PullTyped
      <3>3. /\ k.file = j.file /\ k.repo = j.repo
            /\ k.file \in DOMAIN Length[k.repo]
            /\ k.fd = "none" <=> k.pc # "download"
            /\ k.fd = "tmp"  => tmp'[k.file] \in Seq(Block)
            /\ k.fd = "gguf" => gguf'[k.file] \in Seq(Block)
        <4>1. k.repo = j.repo
          BY <2>1 DEF Kept
        <4> HIDE DEF j, k
        <4> QED
          BY <2>1, <3>2, <4>1, StillOpen
      <3>4. j.file # f => k = j
        BY <2>1 DEF Kept
      <3> QED
        BY <2>1, <2>2, <2>4, <3>2, <3>3, <3>4 DEF PullTyped, CurlTyped, Pulls
    <2> QED
      BY <2>3, <2>4
  <1>3. PullTyped(proc[p])'
    BY <1>1 DEF PullTyped, CurlTyped
  <1>4. ASSUME NEW t \in strays'
        PROVE  CurlTyped(t)' /\ \E s \in strays : t.file = s.file /\ Kept(s, t, f, names)
    <2>1. PICK s \in strays : Kept(s, t, f, names)
      BY <1>1, <1>4
    <2>2. CurlTyped(s) /\ s.file \in File
      BY DEF StoreType, StrayRec
    <2>3. /\ t.file = s.file
          /\ t.file \in DOMAIN Length[t.repo]
          /\ t.fd = "none" <=> t.pc # "download"
          /\ t.fd = "tmp"  => tmp'[t.file] \in Seq(Block)
          /\ t.fd = "gguf" => gguf'[t.file] \in Seq(Block)
      BY <2>1, <2>2, StillOpen
    <2> QED
      BY <2>1, <2>3 DEF CurlTyped
  <1>5. \A q \in Proc : PullTyped(proc[q])'
    BY <1>2, <1>3
  <1>6. (\A q \in Proc : PullTyped(proc[q]))'
    BY <1>5
  <1>7. (\A t \in strays : CurlTyped(t))'
    BY <1>4
  <1> QED
    BY <1>1, <1>2, <1>4, <1>6, <1>7

\* The partial file is discarded and the pull ends; a curl that shares it loses it.
LEMMA StoreDiscards ==
    ASSUME StoreInv, NEW p \in Proc, CurlFails(p)
    PROVE  StoreInv'
  <1> DEFINE f == proc[p].file
  <1>1. /\ proc[p].pc \in {"curl", "download"} /\ Follows(p, Idle, f, TmpGone)
        /\ tmp' = [tmp EXCEPT ![f] = None]
        /\ UNCHANGED <<gguf, sidecar, tainted, orphans>>
    BY DEF CurlFails, Discarded, past
  <1>2. f \in File /\ Pulls(p, f)
    <2>1. proc[p] \in PullRec /\ proc[p].pc \in PullPc
      BY <1>1, Kinds DEF StoreInv, StoreType, PullPc
    <2> QED
      BY <2>1 DEF PullRec, Pulls
  <1>3. Idle \in Command /\ Idle.pc \notin PullPc
    BY DEF Command, Idle, PullPc
  <1> HIDE DEF f
  <1>4. /\ tmp' \in [File -> Seq(Block) \union {None}] /\ tmp'[f] = None
        /\ \A g \in File : g # f => tmp'[g] = tmp[g]
    BY <1>1, <1>2 DEF StoreInv, StoreType
  <1>5. /\ proc' \in [Proc -> Command] /\ strays' \subseteq StrayRec
        /\ (\A q \in Proc : PullTyped(proc[q]))' /\ (\A t \in strays : CurlTyped(t))'
        /\ \A q \in Proc : q # p => /\ proc'[q].pc = proc[q].pc
                                    /\ \A g : Pulls(q, g)' <=> Pulls(q, g)
                                    /\ proc[q].pc \in PullPc /\ proc[q].file # f
                                          => proc'[q] = proc[q]
        /\ \A t \in strays' : \E s \in strays : t.file = s.file /\ Kept(s, t, f, TmpGone)
    BY <1>1, <1>3, <1>4, StillTyped DEF StoreInv
  <1>6. StoreType'
    BY <1>1, <1>4, <1>5 DEF StoreInv, StoreType
  <1>7. proc'[p] = Idle
    BY <1>1, <1>3, Following DEF StoreInv
  <1>8. \A q \in Proc, g \in File : Pulls(q, g)' => Pulls(q, g) /\ q # p
    BY <1>3, <1>5, <1>7 DEF Pulls
  <1>9. ASSUME NEW g \in File \ tainted PROVE FileOk(g)'
    <2>1. FileOk(g)
      BY DEF StoreInv
    <2>2. ASSUME tmp'[g] # None, g \notin orphans
          PROVE  \E q \in Proc : Pulls(q, g)' /\ proc'[q].pc \in {"download", "rename"}
      <3>1. g # f /\ tmp[g] # None
        BY <1>4, <2>2
      <3>2. PICK q \in Proc : Pulls(q, g) /\ proc[q].pc \in {"download", "rename"}
        BY <2>1, <2>2, <3>1 DEF FileOk
      <3>3. q # p
        BY <1>2, <3>1, <3>2 DEF Pulls
      <3> QED
        BY <1>5, <3>2, <3>3
    <2>3. ASSUME NEW t \in strays', t.file = g
          PROVE  g \in orphans /\ t.fd # "gguf" /\ \A q \in Proc : ~Pulls(q, g)'
      <3>1. PICK s \in strays : s.file = g /\ Kept(s, t, f, TmpGone)
        BY <1>5, <2>3
      <3>2. g \in orphans /\ s.fd # "gguf" /\ \A q \in Proc : ~Pulls(q, g)
        BY <2>1, <3>1 DEF FileOk
      <3> QED
        BY <1>8, <3>1, <3>2 DEF Kept, TmpGone
    <2> QED
      BY <1>1, <1>8, <2>1, <2>2, <2>3 DEF FileOk
  <1>10. ASSUME NEW q \in Proc, proc'[q].pc \in PullPc, proc'[q].file \notin tainted
         PROVE  Reached(proc[q])'
    <2>0. PICK g : g = proc'[q].file
      OBVIOUS
    <2> USE <2>0
    <2>1. g \in File /\ Pulls(q, g)'
      <3>1. proc'[q] \in PullRec
        BY <1>5, <1>10, Kinds
      <3> QED
        BY <1>10, <3>1 DEF PullRec, Pulls
    <2>2. Pulls(q, g) /\ q # p
      BY <1>8, <2>1
    <2>3. g # f
      BY <1>2, <1>10, <2>1, <2>2 DEF StoreInv, FileOk
    <2>4. proc'[q] = proc[q]
      BY <1>5, <2>2, <2>3 DEF Pulls
    <2>5. Reached(proc[q])
      BY <1>10, <2>4 DEF StoreInv
    <2>6. tmp'[g] = tmp[g]
      BY <1>4, <2>1, <2>3
    <2> QED
      BY <1>1, <2>4, <2>5, <2>6 DEF Reached
  <1> QED
    BY <1>1, <1>6, <1>9, <1>10 DEF StoreInv

\* A curl, of a pull or a stray, opens the partial file: what is left may be nothing.
LEMMA Opening ==
    ASSUME StoreType, NEW j, j.file \in File, OpensTmp(j), UNCHANGED gguf
    PROVE  /\ Left(j) \in Seq(Block) /\ Len(Left(j)) \in Nat
           /\ tmp' \in [File -> Seq(Block) \union {None}] /\ tmp'[j.file] = Left(j)
           /\ \A g \in File : g # j.file => tmp'[g] = tmp[g]
           /\ tmp[j.file] # None => tmp'[j.file] = tmp[j.file]
           /\ \A k : CurlTyped(k) /\ k.file \in File /\ k.fd = "tmp"
                       => tmp'[k.file] \in Seq(Block)
  <1>1. Left(j) \in Seq(Block)
    BY DEF Left, StoreType, OnDisk
  <1>2. /\ tmp' \in [File -> Seq(Block) \union {None}] /\ tmp'[j.file] = Left(j)
        /\ \A g \in File : g # j.file => tmp'[g] = tmp[g]
    BY <1>1 DEF OpensTmp, StoreType
  <1>3. tmp[j.file] # None => Left(j) = tmp[j.file]
    BY DEF Left, OnDisk
  <1> QED
    BY <1>1, <1>2, <1>3 DEF CurlTyped

\* The record of a curl that has opened it.
LEMMA OpenedRecord ==
    ASSUME NEW j, j \in PullRec \/ j \in StrayRec, Len(Left(j)) \in Nat
    PROVE  /\ j \in PullRec  => Opened(j) \in PullRec
           /\ j \in StrayRec => Opened(j) \in StrayRec
           /\ Opened(j).pc = "download" /\ Opened(j).fd = "tmp"
           /\ Opened(j).at = Len(Left(j)) + 1
           /\ Opened(j).file = j.file /\ Opened(j).repo = j.repo
           /\ j \in PullRec => Opened(j).size = j.size
  <1> DEFINE n == Len(Left(j)) + 1
  <1>1. n \in Nat
    OBVIOUS
  <1>2. Opened(j) = [j EXCEPT !.pc = "download", !.fd = "tmp", !.at = n]
    BY DEF Opened
  <1> HIDE DEF n
  <1>3. CASE j \in PullRec
    BY <1>1, <1>2, <1>3 DEF PullRec, PullPc, Open, n, StrayRec
  <1>4. CASE j \in StrayRec
    BY <1>1, <1>2, <1>4 DEF PullRec, StrayRec, Open, n
  <1> QED
    BY <1>3, <1>4

\* curl of a pull opens the partial file.
LEMMA StoreOpens ==
    ASSUME StoreInv, NEW p \in Proc, CurlOpen(p)
    PROVE  StoreInv'
  <1> DEFINE j == proc[p]
             f == j.file
             x == Opened(j)
  <1>1. /\ j.pc = "curl" /\ ~Complete(j) /\ OpensTmp(j)
        /\ proc' = [proc EXCEPT ![p] = x]
        /\ tainted' = IF f \in orphans /\ Left(j) # Part(j.repo, Len(Left(j)))
                      THEN tainted \union {f} ELSE tainted
        /\ UNCHANGED <<gguf, sidecar, strays, orphans>>
    BY DEF CurlOpen
  <1>2. j \in PullRec /\ PullTyped(j) /\ j.pc \in PullPc
    BY <1>1, Kinds DEF StoreInv, StoreType, PullPc
  <1>3. /\ f \in File /\ j.repo \in Repo /\ f \in DOMAIN Length[j.repo]
        /\ Length[j.repo][f] \in Nat
    BY <1>2, ModelAssumption DEF PullRec, PullTyped, CurlTyped
  <1>4. /\ Left(j) \in Seq(Block) /\ Len(Left(j)) \in Nat
        /\ tmp' \in [File -> Seq(Block) \union {None}] /\ tmp'[f] = Left(j)
        /\ \A g \in File : g # f => tmp'[g] = tmp[g]
        /\ \A k : CurlTyped(k) /\ k.file \in File /\ k.fd = "tmp" => tmp'[k.file] \in Seq(Block)
    BY <1>1, <1>3, Opening DEF StoreInv
  <1>5. Len(Left(j)) < Length[j.repo][f]
    BY <1>1, <1>3, <1>4 DEF Complete
  <1>6. /\ x \in PullRec /\ x.pc = "download" /\ x.fd = "tmp" /\ x.file = f
        /\ x.repo = j.repo /\ x.size = j.size /\ x.at = Len(Left(j)) + 1
    BY <1>2, <1>4, OpenedRecord
  <1> HIDE DEF x
  <1>7. /\ proc' \in [Proc -> Command] /\ proc'[p] = x
        /\ \A q \in Proc : q # p => proc'[q] = proc[q]
    BY <1>1, <1>6, OneChanges DEF StoreInv, Command
  <1>8. ASSUME NEW q \in Proc PROVE PullTyped(proc[q])'
    <2>1. CASE q = p
      BY <1>2, <1>3, <1>4, <1>6, <1>7, <2>1 DEF PullTyped, CurlTyped
    <2>2. CASE q # p
      <3>1. PullTyped(proc[q]) /\ proc[q] \in Command /\ proc'[q] = proc[q]
        BY <1>7, <2>2 DEF StoreInv, StoreType
      <3>2. proc[q].pc \in PullPc => proc[q].file \in File
        BY <3>1, Kinds DEF PullRec
      <3> QED
        BY <1>1, <1>4, <3>1, <3>2 DEF PullTyped, CurlTyped
    <2> QED
      BY <2>1, <2>2
  <1>9. ASSUME NEW t, t \in strays' PROVE CurlTyped(t)'
    <2>1. t \in strays /\ CurlTyped(t) /\ t.file \in File
      BY <1>1, <1>9 DEF StoreInv, StoreType, StrayRec
    <2> QED
      BY <1>1, <1>4, <2>1 DEF CurlTyped
  <1>10. StoreType' /\ tainted \subseteq tainted'
    BY <1>1, <1>3, <1>4, <1>7, <1>8, <1>9 DEF StoreInv, StoreType
  <1>11. \A q \in Proc, g \in File : Pulls(q, g)' => Pulls(q, g)
    BY <1>2, <1>6, <1>7 DEF Pulls
  <1>12. ASSUME NEW g \in File \ tainted' PROVE FileOk(g)'
    <2>1. FileOk(g)
      BY <1>10 DEF StoreInv
    <2>2. ASSUME tmp'[g] # None, g \notin orphans
          PROVE  \E q \in Proc : Pulls(q, g)' /\ proc'[q].pc \in {"download", "rename"}
      <3>1. CASE g = f
        BY <1>6, <1>7, <3>1 DEF Pulls, PullPc
      <3>2. CASE g # f
        <4>1. PICK q \in Proc : Pulls(q, g) /\ proc[q].pc \in {"download", "rename"}
          BY <1>4, <2>1, <2>2, <3>2 DEF FileOk
        <4>2. q # p
          BY <3>2, <4>1 DEF Pulls
        <4> QED
          BY <1>7, <4>1, <4>2 DEF Pulls
      <3> QED
        BY <3>1, <3>2
    <2> QED
      BY <1>1, <1>11, <2>1, <2>2 DEF FileOk
  <1>13. f \notin tainted' => Left(j) = Part(j.repo, Len(Left(j)))
    <2> SUFFICES ASSUME f \notin tainted' PROVE Left(j) = Part(j.repo, Len(Left(j)))
      OBVIOUS
    <2>1. FileOk(f)
      BY <1>3, <1>10 DEF StoreInv
    <2>2. CASE f \in orphans
      BY <1>1, <2>2
    <2>3. CASE f \notin orphans
      <3>1. \A q \in Proc : Pulls(q, f) => q = p
        BY <1>2, <2>1 DEF FileOk, Pulls
      <3>2. tmp[f] = None
        BY <1>1, <2>1, <2>3, <3>1 DEF FileOk
      <3>3. Left(j) = << >>
        BY <3>2 DEF Left, OnDisk
      <3> QED
        BY <3>3 DEF Part
    <2> QED
      BY <2>2, <2>3
  <1>14. ASSUME NEW q \in Proc, proc'[q].pc \in PullPc, proc'[q].file \notin tainted'
         PROVE  Reached(proc[q])'
    <2>1. CASE q = p
      <3>1. x.at \in 1 .. Length[j.repo][f] + 1 /\ x.at - 1 = Len(Left(j))
        BY <1>3, <1>4, <1>5, <1>6
      <3> QED
        BY <1>4, <1>6, <1>7, <1>13, <1>14, <2>1, <3>1 DEF Reached
    <2>2. CASE q # p
      <3>1. proc'[q] = proc[q] /\ proc[q] \in PullRec
        BY <1>7, <1>14, <2>2, Kinds DEF StoreInv, StoreType
      <3>2. proc[q].file \in File
        BY <3>1 DEF PullRec
      <3>3. proc[q].file # f
        <4>1. FileOk(proc[q].file)
          BY <1>10, <1>14, <3>1, <3>2 DEF StoreInv
        <4> QED
          BY <1>2, <1>14, <2>2, <3>1, <4>1 DEF FileOk, Pulls
      <3>4. Reached(proc[q])
        BY <1>10, <1>14, <3>1 DEF StoreInv
      <3> QED
        BY <1>1, <1>4, <3>1, <3>2, <3>3, <3>4 DEF Reached
    <2> QED
      BY <2>1, <2>2
  <1> QED
    BY <1>10, <1>12, <1>14 DEF StoreInv

\* A block arrives at the end of the file that a curl has open.
LEMMA Receiving ==
    ASSUME StoreType, NEW j, Receives(j), CurlTyped(j), j.repo \in Repo, j.file \in File,
           j.at \in Nat
    PROVE  LET b == <<j.repo, j.at>>
           IN  /\ j.pc = "download" /\ j.at <= Length[j.repo][j.file]
               /\ tmp' \in [File -> Seq(Block) \union {None}]
               /\ gguf' \in [File -> Seq(Block) \union {None}]
               /\ \A g \in File :
                     /\ tmp'[g] = IF g = j.file /\ j.fd = "tmp" THEN Append(tmp[g], b) ELSE tmp[g]
                     /\ gguf'[g] = IF g = j.file /\ j.fd = "gguf" THEN Append(gguf[g], b) ELSE gguf[g]
               /\ \A k : CurlTyped(k) /\ k.file \in File =>
                           /\ k.fd = "tmp"  => tmp'[k.file] \in Seq(Block)
                           /\ k.fd = "gguf" => gguf'[k.file] \in Seq(Block)
  <1> DEFINE b == <<j.repo, j.at>>
             f == j.file
  <1>1. /\ j.pc = "download" /\ j.at <= Length[j.repo][f]
        /\ tmp'  = IF j.fd = "tmp"  THEN [tmp  EXCEPT ![f] = Append(@, b)] ELSE tmp
        /\ gguf' = IF j.fd = "gguf" THEN [gguf EXCEPT ![f] = Append(@, b)] ELSE gguf
    BY DEF Receives, Appended
  <1>2. b \in Block
    BY DEF Block
  <1> HIDE DEF b
  <1>3. \A s \in Seq(Block) : Append(s, b) \in Seq(Block)
    BY <1>2
  <1>4. /\ tmp' \in [File -> Seq(Block) \union {None}]
        /\ \A g \in File : tmp'[g] = IF g = f /\ j.fd = "tmp" THEN Append(tmp[g], b) ELSE tmp[g]
    BY <1>1, <1>3 DEF CurlTyped, StoreType
  <1>5. /\ gguf' \in [File -> Seq(Block) \union {None}]
        /\ \A g \in File : gguf'[g] = IF g = f /\ j.fd = "gguf" THEN Append(gguf[g], b) ELSE gguf[g]
    BY <1>1, <1>3 DEF CurlTyped, StoreType
  <1>6. ASSUME NEW k, CurlTyped(k), k.file \in File
        PROVE  /\ k.fd = "tmp"  => tmp'[k.file] \in Seq(Block)
               /\ k.fd = "gguf" => gguf'[k.file] \in Seq(Block)
    BY <1>3, <1>4, <1>5, <1>6 DEF CurlTyped
  <1> QED
    BY <1>1, <1>4, <1>5, <1>6 DEF b
LEMMA StoreDownloads ==
    ASSUME StoreInv, NEW p \in Proc, Download(p)
    PROVE  StoreInv'
  <1> DEFINE j == proc[p]
             f == j.file
             r == j.repo
             x == [j EXCEPT !.at = @ + 1]
  <1>1. Receives(j) /\ proc' = [proc EXCEPT ![p] = x] /\ UNCHANGED <<sidecar, strays, tainted, orphans>>
    BY DEF Download, past
  <1>2. j \in PullRec /\ PullTyped(j) /\ j.pc \in PullPc /\ j.pc = "download"
    BY <1>1, Kinds DEF StoreInv, StoreType, PullPc, Receives
  <1>3. /\ f \in File /\ r \in Repo /\ f \in DOMAIN Length[r] /\ Length[r][f] \in Nat
        /\ j.at \in Nat /\ CurlTyped(j)
    BY <1>2, ModelAssumption DEF PullRec, PullTyped, CurlTyped
  <1>4. /\ j.at <= Length[r][f]
        /\ tmp' \in [File -> Seq(Block) \union {None}]
        /\ gguf' \in [File -> Seq(Block) \union {None}]
        /\ \A g \in File :
              /\ tmp'[g] = IF g = f /\ j.fd = "tmp" THEN Append(tmp[g], <<r, j.at>>) ELSE tmp[g]
              /\ gguf'[g] = IF g = f /\ j.fd = "gguf" THEN Append(gguf[g], <<r, j.at>>) ELSE gguf[g]
        /\ \A k : CurlTyped(k) /\ k.file \in File =>
                    /\ k.fd = "tmp"  => tmp'[k.file] \in Seq(Block)
                    /\ k.fd = "gguf" => gguf'[k.file] \in Seq(Block)
    BY <1>1, <1>3, Receiving DEF StoreInv
  <1>5. /\ x \in PullRec /\ x.pc = "download" /\ x.fd = j.fd /\ x.file = f
        /\ x.repo = r /\ x.size = j.size /\ x.at = j.at + 1
    BY <1>2, <1>3 DEF PullRec
  <1> HIDE DEF x
  <1>6. /\ proc' \in [Proc -> Command] /\ proc'[p] = x
        /\ \A q \in Proc : q # p => proc'[q] = proc[q]
    BY <1>1, <1>5, OneChanges DEF StoreInv, Command
  <1>7. ASSUME NEW q \in Proc PROVE PullTyped(proc[q])'
    <2>1. PullTyped(proc[q]) /\ (proc[q].pc \in PullPc => proc[q] \in PullRec)
      BY Kinds DEF StoreInv, StoreType
    <2>2. proc[q].pc \in PullPc => proc[q].file \in File
      BY <2>1 DEF PullRec
    <2>3. CASE q = p
      BY <1>2, <1>3, <1>4, <1>5, <1>6, <2>1, <2>3 DEF PullTyped, CurlTyped
    <2>4. CASE q # p
      BY <1>4, <1>6, <2>1, <2>2, <2>4 DEF PullTyped, CurlTyped
    <2> QED
      BY <2>3, <2>4
  <1>8. ASSUME NEW t, t \in strays' PROVE CurlTyped(t)'
    <2>1. t \in strays /\ CurlTyped(t) /\ t.file \in File
      BY <1>1, <1>8 DEF StoreInv, StoreType, StrayRec
    <2> QED
      BY <1>4, <2>1 DEF CurlTyped
  <1>9. StoreType'
    BY <1>1, <1>4, <1>6, <1>7, <1>8 DEF StoreInv, StoreType
  <1>10. f \notin tainted => /\ j.fd = "tmp" /\ tmp'[f] = Part(r, j.at)
                             /\ j.at + 1 \in 1 .. Length[r][f] + 1
    <2> SUFFICES ASSUME f \notin tainted
                 PROVE  j.fd = "tmp" /\ tmp'[f] = Part(r, j.at) /\ j.at + 1 \in 1 .. Length[r][f] + 1
      OBVIOUS
    <2>1. j.fd = "tmp" /\ j.at \in 1 .. Length[r][f] + 1 /\ tmp[f] = Part(r, j.at - 1)
      BY <1>2 DEF StoreInv, Reached
    <2> DEFINE n == j.at - 1
    <2>2. n \in Nat /\ n + 1 = j.at
      BY <1>3, <2>1
    <2>3. Append(Part(r, n), <<r, n + 1>>) = Part(r, n + 1)
      BY <1>3, <2>2, Parts
    <2>4. tmp'[f] = Append(tmp[f], <<r, j.at>>)
      BY <1>3, <1>4, <2>1
    <2> HIDE DEF n
    <2>5. tmp'[f] = Part(r, j.at)
      BY <2>1, <2>2, <2>3, <2>4 DEF n
    <2> QED
      BY <1>3, <1>4, <2>1, <2>5
  <1>11. \A q \in Proc : \A g : Pulls(q, g)' <=> Pulls(q, g)
    BY <1>2, <1>5, <1>6 DEF Pulls
  <1>12. ASSUME NEW g \in File \ tainted PROVE FileOk(g)'
    <2>1. FileOk(g)
      BY DEF StoreInv
    <2>2. gguf'[g] = gguf[g]
      BY <1>4, <1>10
    <2>3. tmp'[g] # None /\ g \notin orphans =>
             \E q \in Proc : Pulls(q, g)' /\ proc'[q].pc \in {"download", "rename"}
      <3>1. CASE g = f
        BY <1>2, <1>5, <1>6, <1>11, <3>1 DEF Pulls
      <3>2. CASE g # f
        <4> SUFFICES ASSUME tmp'[g] # None, g \notin orphans
                     PROVE  \E q \in Proc : Pulls(q, g)' /\ proc'[q].pc \in {"download", "rename"}
          OBVIOUS
        <4>1. PICK q \in Proc : Pulls(q, g) /\ proc[q].pc \in {"download", "rename"}
          BY <1>4, <2>1, <3>2 DEF FileOk
        <4> QED
          BY <1>5, <1>6, <1>11, <4>1
      <3> QED
        BY <3>1, <3>2
    <2> QED
      BY <1>1, <1>11, <2>1, <2>2, <2>3 DEF FileOk
  <1>13. ASSUME NEW q \in Proc, proc'[q].pc \in PullPc, proc'[q].file \notin tainted
         PROVE  Reached(proc[q])'
    <2>1. CASE q = p
      <3>1. x.at - 1 = j.at
        BY <1>3, <1>5
      <3> QED
        BY <1>5, <1>6, <1>10, <1>13, <2>1, <3>1 DEF Reached
    <2>2. CASE q # p
      <3>1. proc'[q] = proc[q] /\ proc[q] \in PullRec
        BY <1>6, <1>13, <2>2, Kinds DEF StoreInv, StoreType
      <3>2. proc[q].file \in File
        BY <3>1 DEF PullRec
      <3>3. proc[q].file # f
        BY <1>2, <1>13, <2>2, <3>1, <3>2 DEF StoreInv, FileOk, Pulls
      <3>4. tmp'[proc[q].file] = tmp[proc[q].file] /\ gguf'[proc[q].file] = gguf[proc[q].file]
        BY <1>4, <3>2, <3>3
      <3>5. Reached(proc[q])
        BY <1>13, <3>1 DEF StoreInv
      <3> QED
        BY <3>1, <3>4, <3>5 DEF Reached
    <2> QED
      BY <2>1, <2>2
  <1> QED
    BY <1>1, <1>9, <1>12, <1>13 DEF StoreInv

\* curl has everything: the partial file is whole.
LEMMA StoreDone ==
    ASSUME StoreInv, NEW p \in Proc, CurlDone(p)
    PROVE  StoreInv'
  <1> DEFINE j == proc[p]
             x == [j EXCEPT !.pc = "rename", !.fd = "none"]
  <1>1. /\ j.pc = "download" /\ j.at > Length[j.repo][j.file]
        /\ proc' = [proc EXCEPT ![p] = x]
        /\ UNCHANGED <<tmp, gguf, sidecar, strays, tainted, orphans>>
    BY DEF CurlDone, disk, past
  <1>2. j \in PullRec /\ PullTyped(j) /\ j.pc \in PullPc
    BY <1>1, Kinds DEF StoreInv, StoreType, PullPc
  <1>3. /\ x \in PullRec /\ x.pc = "rename" /\ x.fd = "none" /\ x.file = j.file
        /\ x.repo = j.repo /\ x.size = j.size
    BY <1>2 DEF PullRec, PullPc, Open
  <1>4. /\ j.repo \in Repo /\ j.file \in DOMAIN Length[j.repo] /\ j.at \in Nat
        /\ Length[j.repo][j.file] \in Nat
    BY <1>2, ModelAssumption DEF PullRec, PullTyped, CurlTyped
  <1> HIDE DEF x
  <1>5. ASSUME x.file \notin tainted PROVE Reached(x)
    <2>1. /\ j.at \in 1 .. Length[j.repo][j.file] + 1
          /\ tmp[j.file] = Part(j.repo, j.at - 1)
      BY <1>1, <1>2, <1>3, <1>5 DEF StoreInv, Reached
    <2>2. j.at - 1 = Length[j.repo][j.file]
      BY <1>1, <1>4, <2>1
    <2>3. tmp[j.file] = Whole(j.repo, j.file)
      BY <2>1, <2>2 DEF Whole
    <2> QED
      BY <1>3, <2>3 DEF Reached
  <1>6. PullTyped(x) /\ x \in Command
    BY <1>2, <1>3 DEF PullTyped, CurlTyped, Command
  <1>7. sidecar' \in [Stem -> [file : File \union {None}] \union {None}]
    BY <1>1 DEF StoreInv, StoreType
  <1> QED
    BY <1>1, <1>2, <1>3, <1>5, <1>6, <1>7, StoreMoves

\* The partial file gets the final name, and takes the open files of other curls
\* along.
LEMMA StoreRenames ==
    ASSUME StoreInv, NEW p \in Proc, Rename(p)
    PROVE  StoreInv'
  <1> DEFINE j == proc[p]
             f == j.file
  <1>1. j.pc = "rename" /\ UNCHANGED <<sidecar, tainted, orphans>>
    BY DEF Rename, past
  <1>2. j \in PullRec /\ PullTyped(j) /\ j.pc \in PullPc
    BY <1>1, Kinds DEF StoreInv, StoreType, PullPc
  <1>3. f \in File /\ j.repo \in Repo /\ f \in DOMAIN Length[j.repo]
    BY <1>2 DEF PullRec, PullTyped, CurlTyped
  <1>4. CASE ~OnDisk(tmp[f])
    BY <1>1, <1>4, StoreEnds DEF Rename, disk, past, OnDisk
  <1>5. CASE OnDisk(tmp[f])
    <2> DEFINE x == [j EXCEPT !.pc = "manifest"]
    <2>1. /\ gguf' = [gguf EXCEPT ![f] = tmp[f]]
          /\ tmp'  = [tmp EXCEPT ![f] = None]
          /\ Follows(p, x, f, Renamed)
      BY <1>5 DEF Rename
    <2>2. /\ x \in PullRec /\ x.pc = "manifest" /\ x.file = f /\ x.fd = "none"
          /\ x.repo = j.repo /\ x.size = j.size
      BY <1>1, <1>2 DEF PullRec, PullPc, PullTyped, CurlTyped
    <2>3. x \in Command /\ x.size \in {0, Length[x.repo][x.file]}
      BY <1>2, <2>2 DEF Command, PullTyped
    <2> HIDE DEF x
    <2>4. /\ tmp' \in [File -> Seq(Block) \union {None}] /\ tmp'[f] = None
          /\ \A g \in File : g # f => tmp'[g] = tmp[g]
      BY <1>3, <2>1 DEF StoreInv, StoreType
    <2>5. /\ gguf' \in [File -> Seq(Block) \union {None}] /\ gguf'[f] = tmp[f] /\ tmp[f] \in Seq(Block)
          /\ \A g \in File : g # f => gguf'[g] = gguf[g]
      BY <1>3, <1>5, <2>1 DEF StoreInv, StoreType, OnDisk
    <2>6. /\ proc' \in [Proc -> Command] /\ strays' \subseteq StrayRec
          /\ (\A q \in Proc : PullTyped(proc[q]))' /\ (\A t \in strays : CurlTyped(t))'
          /\ \A q \in Proc : q # p => /\ proc'[q].pc = proc[q].pc
                                      /\ \A g : Pulls(q, g)' <=> Pulls(q, g)
                                      /\ proc[q].pc \in PullPc /\ proc[q].file # f
                                            => proc'[q] = proc[q]
          /\ \A t \in strays' : \E s \in strays : t.file = s.file /\ Kept(s, t, f, Renamed)
      BY <1>3, <2>1, <2>2, <2>3, <2>4, <2>5, StillTyped DEF StoreInv
    <2>7. StoreType' /\ proc'[p] = x
      BY <1>1, <2>1, <2>3, <2>4, <2>5, <2>6, Following DEF StoreInv, StoreType
    <2>8. \A q \in Proc, g \in File : Pulls(q, g)' <=> Pulls(q, g)
      BY <1>2, <2>2, <2>6, <2>7 DEF Pulls, PullPc
    <2>9. f \notin tainted => /\ tmp[f] = Whole(j.repo, f)
                              /\ \A q \in Proc : Pulls(q, f) => q = p
                              /\ \A t \in strays' : t.file # f
      <3> SUFFICES ASSUME f \notin tainted
                   PROVE  /\ tmp[f] = Whole(j.repo, f)
                          /\ \A q \in Proc : Pulls(q, f) => q = p
                          /\ \A t \in strays' : t.file # f
        OBVIOUS
      <3>1. FileOk(f) /\ Reached(j)
        BY <1>2, <1>3 DEF StoreInv
      <3>2. Pulls(p, f)
        BY <1>2 DEF Pulls
      <3>3. \A s \in strays : s.file # f
        BY <3>1, <3>2 DEF FileOk
      <3> QED
        BY <1>1, <2>6, <3>1, <3>2, <3>3 DEF FileOk, Reached
    <2>10. ASSUME NEW g \in File \ tainted PROVE FileOk(g)'
      <3>1. FileOk(g)
        BY DEF StoreInv
      <3>2. CASE g = f
        BY <1>3, <2>4, <2>5, <2>8, <2>9, <3>1, <3>2 DEF FileOk
      <3>3. CASE g # f
        <4>1. \A q \in Proc : Pulls(q, g) => proc'[q] = proc[q]
          BY <2>6, <3>3 DEF Pulls
        <4>2. ASSUME NEW t \in strays', t.file = g
              PROVE  g \in orphans /\ t.fd # "gguf" /\ \A q \in Proc : ~Pulls(q, g)
          <5>1. PICK s \in strays : s.file = g /\ Kept(s, t, f, Renamed)
            BY <2>6, <4>2
          <5>2. t = s
            BY <3>3, <5>1 DEF Kept
          <5> QED
            BY <3>1, <5>1, <5>2 DEF FileOk
        <4> QED
          BY <1>1, <2>4, <2>5, <2>8, <3>1, <3>3, <4>1, <4>2 DEF FileOk
      <3> QED
        BY <3>2, <3>3
    <2>11. ASSUME NEW q \in Proc, proc'[q].pc \in PullPc, proc'[q].file \notin tainted
           PROVE  Reached(proc[q])'
      <3>1. CASE q = p
        BY <2>2, <2>5, <2>7, <2>9, <2>11, <3>1 DEF Reached
      <3>2. CASE q # p
        <4>0. PICK g : g = proc'[q].file
          OBVIOUS
        <4> USE <4>0
        <4>1. g \in File /\ Pulls(q, g)'
          <5>1. proc'[q] \in PullRec
            BY <2>6, <2>11, Kinds
          <5> QED
            BY <2>11, <5>1 DEF PullRec, Pulls
        <4>2. Pulls(q, g)
          BY <2>8, <4>1
        <4>3. g # f
          BY <2>9, <2>11, <3>2, <4>2
        <4>4. proc'[q] = proc[q]
          BY <2>6, <3>2, <4>2, <4>3 DEF Pulls
        <4>5. Reached(proc[q])
          BY <2>11, <4>4 DEF StoreInv
        <4>6. tmp'[g] = tmp[g] /\ gguf'[g] = gguf[g]
          BY <2>4, <2>5, <4>1, <4>3
        <4> QED
          BY <4>4, <4>5, <4>6 DEF Reached
      <3> QED
        BY <3>1, <3>2
    <2> QED
      BY <1>1, <2>7, <2>10, <2>11 DEF StoreInv
  <1> QED
    BY <1>4, <1>5

\* `rm' removes the sidecar ...
LEMMA StoreRemoves ==
    ASSUME StoreInv, NEW p \in Proc, NEW n \in Name, Remove(p, n)
    PROVE  StoreInv'
  <1> DEFINE m == resolve(n)
             x == [pc |-> "rm", file |-> m.file]
  <1>1. UNCHANGED <<tmp, gguf, strays, tainted, orphans>> /\ proc[p] = Idle
    BY DEF Remove, past
  <1>2. CASE m = None
    BY <1>1, <1>2 DEF Remove, past, StoreInv, StoreType, FileOk, Reached, Pulls, PullTyped, CurlTyped
  <1>3. CASE m # None
    <2>1. /\ sidecar' = [s \in Stem |-> IF s = m.stem THEN None ELSE sidecar[s]]
          /\ proc' = [proc EXCEPT ![p] = x]
      BY <1>3 DEF Remove
    <2>2. m.file \in File \union {None}
      BY <1>3, Resolved DEF StoreInv
    <2>3. x \in Command /\ x.pc = "rm"
      BY <2>2 DEF Command, RmRec
    <2> HIDE DEF x, m
    <2>4. sidecar' \in [Stem -> [file : File \union {None}] \union {None}]
      BY <2>1 DEF StoreInv, StoreType
    <2>5. x.pc \notin PullPc /\ PullTyped(x) /\ proc[p].pc \notin {"download", "rename"}
      BY <1>1, <2>3 DEF PullTyped, PullPc, Idle
    <2> QED
      BY <1>1, <2>1, <2>3, <2>4, <2>5, StoreMoves
  <1> QED
    BY <1>2, <1>3

\* ... then the file, which a curl may have open.
LEMMA StoreRemovesFile ==
    ASSUME StoreInv, NEW p \in Proc, RemoveFile(p)
    PROVE  StoreInv'
  <1> DEFINE f == proc[p].file
  <1>1. /\ proc[p].pc = "rm" /\ UNCHANGED <<tmp, sidecar, tainted, orphans>>
        /\ gguf' = [g \in File |-> IF g = f THEN None ELSE gguf[g]]
        /\ Follows(p, Idle, f, Removed)
    BY DEF RemoveFile, past
  <1>2. Idle \in Command /\ Idle.pc \notin PullPc /\ proc[p].pc \notin PullPc
    BY <1>1 DEF Command, Idle, PullPc
  <1> HIDE DEF f
  <1>3. /\ gguf' \in [File -> Seq(Block) \union {None}]
        /\ \A g \in File : g # f => gguf'[g] = gguf[g]
    BY <1>1 DEF StoreInv, StoreType
  <1>4. /\ proc' \in [Proc -> Command] /\ strays' \subseteq StrayRec
        /\ (\A q \in Proc : PullTyped(proc[q]))' /\ (\A t \in strays : CurlTyped(t))'
        /\ \A q \in Proc : q # p => /\ proc'[q].pc = proc[q].pc
                                    /\ \A g : Pulls(q, g)' <=> Pulls(q, g)
                                    /\ proc[q].pc \in PullPc /\ proc[q].file # f
                                          => proc'[q] = proc[q]
        /\ \A t \in strays' : \E s \in strays : t.file = s.file /\ Kept(s, t, f, Removed)
    BY <1>1, <1>2, <1>3, StillTyped DEF StoreInv
  <1>5. /\ StoreType' /\ proc'[p] = Idle
        /\ \A q \in Proc : q # p => Kept(proc[q], proc'[q], f, Removed)
    BY <1>1, <1>2, <1>3, <1>4, Following DEF StoreInv, StoreType
  <1>6. \A q \in Proc, g \in File : Pulls(q, g)' <=> Pulls(q, g)
    BY <1>2, <1>4, <1>5 DEF Pulls
  <1>7. ASSUME NEW g \in File \ tainted PROVE FileOk(g)'
    <2>1. FileOk(g)
      BY DEF StoreInv
    <2>2. gguf'[g] = None \/ gguf'[g] = gguf[g]
      BY <1>1
    <2>3. tmp'[g] # None => \/ g \in orphans'
                            \/ \E q \in Proc : Pulls(q, g)' /\ proc'[q].pc \in {"download", "rename"}
      <3>1. \A q \in Proc : Pulls(q, g) => proc'[q].pc = proc[q].pc
        BY <1>2, <1>4 DEF Pulls
      <3> QED
        BY <1>1, <1>6, <2>1, <3>1 DEF FileOk
    <2>4. gguf'[g] # None => \E r \in Repo : g \in DOMAIN Length[r] /\ gguf'[g] = Whole(r, g)
      BY <2>1, <2>2 DEF FileOk
    <2>5. \A q, o \in Proc : Pulls(q, g)' /\ Pulls(o, g)' => q = o
      BY <1>6, <2>1 DEF FileOk
    <2>6. ASSUME NEW t \in strays', t.file = g
          PROVE  g \in orphans' /\ t.fd # "gguf" /\ \A q \in Proc : ~Pulls(q, g)'
      <3>1. PICK s \in strays : s.file = g /\ Kept(s, t, f, Removed)
        BY <1>4, <2>6
      <3>2. g \in orphans /\ s.fd # "gguf" /\ \A q \in Proc : ~Pulls(q, g)
        BY <2>1, <3>1 DEF FileOk
      <3> QED
        BY <1>1, <1>6, <3>1, <3>2 DEF Kept, Removed
    <2> QED
      BY <2>3, <2>4, <2>5, <2>6 DEF FileOk, Whole, Part
  <1>8. ASSUME NEW q \in Proc, proc'[q].pc \in PullPc, proc'[q].file \notin tainted
        PROVE  Reached(proc[q])'
    <2>0. PICK g, j, k : g = proc'[q].file /\ j = proc[q] /\ k = proc'[q]
      OBVIOUS
    <2> USE <2>0
    <2>1. g \in File /\ Pulls(q, g)'
      <3>1. proc'[q] \in PullRec
        BY <1>4, <1>8, Kinds
      <3> QED
        BY <1>8, <3>1 DEF PullRec, Pulls
    <2>2. Pulls(q, g) /\ q # p
      BY <1>2, <1>5, <1>6, <2>1 DEF Pulls
    <2>3. Reached(j) /\ Kept(j, k, f, Removed) /\ j.file = g
      BY <1>5, <1>8, <2>2 DEF StoreInv, Pulls
    <2>4. /\ k.pc = j.pc /\ k.file = j.file /\ k.repo = j.repo
          /\ j.pc = "download" => k.at = j.at /\ k.fd = j.fd
      BY <2>3 DEF Kept, Removed, Reached
    <2>5. tmp'[g] = tmp[g] /\ (gguf'[g] = None \/ gguf'[g] = gguf[g])
      BY <1>1, <2>1
    <2>6. Reached(proc[q])
      BY <2>3
    <2> QED
      BY <2>4, <2>5, <2>6 DEF Reached, Whole, Part
  <1> QED
    BY <1>1, <1>5, <1>7, <1>8 DEF StoreInv

\* A command is killed: what it had begun to download is left there, and its curl
\* goes on.
LEMMA StoreKilled ==
    ASSUME StoreInv, faults \in Nat, NEW p \in Proc, Kill(p)
    PROVE  StoreInv'
  <1> DEFINE j == proc[p]
             f == j.file
             z == Stray(j)
  <1>1. /\ proc' = [proc EXCEPT ![p] = Idle] /\ UNCHANGED <<tmp, gguf, sidecar, tainted>>
        /\ orphans' = IF j.pc \in {"curl", "download", "rename"} THEN orphans \union {f} ELSE orphans
        /\ strays' = IF j.pc \in {"curl", "download"} THEN strays \union {z} ELSE strays
        /\ faults' = faults + 1
    BY DEF Kill, End, Fault, disk
  <1>2. Idle \in Command /\ Idle.pc \notin PullPc
    BY DEF Command, Idle, PullPc
  <1>3. /\ proc' \in [Proc -> Command] /\ proc'[p] = Idle
        /\ \A q \in Proc : q # p => proc'[q] = proc[q]
    BY <1>1, <1>2, OneChanges DEF StoreInv
  <1>4. j.pc \in PullPc => j \in PullRec /\ CurlTyped(j) /\ f \in File
    <2> SUFFICES ASSUME j.pc \in PullPc PROVE j \in PullRec /\ CurlTyped(j) /\ f \in File
      OBVIOUS
    <2>1. j \in PullRec /\ CurlTyped(j)
      BY Kinds DEF StoreInv, StoreType, PullTyped
    <2> QED
      BY <2>1 DEF PullRec
  <1>5. /\ z.pc = j.pc /\ z.repo = j.repo /\ z.file = f /\ z.fd = j.fd /\ z.at = j.at
        /\ z = [id |-> faults', pc |-> j.pc, repo |-> j.repo, file |-> f, fd |-> j.fd, at |-> j.at]
    BY DEF Stray
  <1> HIDE DEF z
  <1>6. j.pc \in {"curl", "download"} => z \in StrayRec /\ CurlTyped(z)
    <2> SUFFICES ASSUME j.pc \in {"curl", "download"} PROVE z \in StrayRec /\ CurlTyped(z)
      OBVIOUS
    <2>1. j \in PullRec /\ CurlTyped(j) /\ faults' \in Nat
      BY <1>1, <1>4 DEF PullPc
    <2>2. z \in StrayRec
      BY <1>5, <2>1 DEF PullRec, StrayRec
    <2> QED
      BY <1>5, <2>1, <2>2 DEF CurlTyped
  <1>7. (\A t \in strays : CurlTyped(t))' /\ strays' \subseteq StrayRec
    BY <1>1, <1>6 DEF StoreInv, StoreType, CurlTyped
  <1>8. \A q \in Proc : PullTyped(proc[q])'
    BY <1>1, <1>2, <1>3 DEF StoreInv, StoreType, PullTyped, CurlTyped
  <1>9. StoreType'
    BY <1>1, <1>3, <1>7, <1>8 DEF StoreInv, StoreType
  <1>10. \A q \in Proc : \A g : Pulls(q, g)' => Pulls(q, g) /\ q # p
    BY <1>2, <1>3 DEF Pulls
  <1>11. orphans \subseteq orphans'
    BY <1>1
  <1> HIDE DEF f
  <1>12. ASSUME NEW g \in File \ tainted PROVE FileOk(g)'
    <2>1. FileOk(g)
      BY DEF StoreInv
    <2>2. ASSUME tmp[g] # None, g \notin orphans'
          PROVE  \E q \in Proc : Pulls(q, g)' /\ proc'[q].pc \in {"download", "rename"}
      <3>1. PICK q \in Proc : Pulls(q, g) /\ proc[q].pc \in {"download", "rename"}
        BY <1>11, <2>1, <2>2 DEF FileOk
      <3>2. q # p
        BY <1>1, <2>2, <3>1 DEF Pulls, f
      <3> QED
        BY <1>3, <3>1, <3>2 DEF Pulls
    <2>3. ASSUME NEW t \in strays', t.file = g
          PROVE  g \in orphans' /\ t.fd # "gguf" /\ \A q \in Proc : ~Pulls(q, g)'
      <3>1. CASE t \in strays
        BY <1>10, <1>11, <2>1, <2>3, <3>1 DEF FileOk
      <3>2. CASE t \notin strays
        <4>1. j.pc \in {"curl", "download"} /\ t = z /\ f = g
          BY <1>1, <1>5, <2>3, <3>2
        <4>2. Pulls(p, g)
          BY <4>1 DEF Pulls, PullPc, f
        <4>3. \A q \in Proc : Pulls(q, g) => q = p
          BY <2>1, <4>2 DEF FileOk
        <4>4. t.fd # "gguf"
          <5>1. Reached(j) /\ CurlTyped(j)
            BY <1>4, <4>1, <4>2 DEF StoreInv, Pulls, f
          <5> QED
            BY <1>5, <4>1, <5>1 DEF Reached, CurlTyped
        <4> QED
          BY <1>1, <1>10, <4>1, <4>3, <4>4
      <3> QED
        BY <3>1, <3>2
    <2> QED
      BY <1>1, <1>10, <2>1, <2>2, <2>3 DEF FileOk
  <1>13. ASSUME NEW q \in Proc, proc'[q].pc \in PullPc, proc'[q].file \notin tainted
         PROVE  Reached(proc[q])'
    <2>1. q # p /\ proc'[q] = proc[q]
      BY <1>2, <1>3, <1>13
    <2> QED
      BY <1>1, <1>13, <2>1 DEF StoreInv, Reached
  <1> QED
    BY <1>1, <1>9, <1>12, <1>13 DEF StoreInv

\* What a stray does: it works on its file only, which has no pull unless tainted.
LEMMA StrayChanges ==
    ASSUME StoreInv, NEW s \in strays, NEW z \in StrayRec, z.file = s.file,
           strays' = (strays \ {s}) \union {z}, UNCHANGED <<sidecar, proc, tainted, orphans>>,
           tmp' \in [File -> Seq(Block) \union {None}],
           gguf' \in [File -> Seq(Block) \union {None}],
           \A g \in File : g # s.file => tmp'[g] = tmp[g],
           \A g \in File : g # s.file \/ s.fd # "gguf" => gguf'[g] = gguf[g],
           \A k : CurlTyped(k) /\ k.file \in File => /\ k.fd = "tmp"  => tmp'[k.file] \in Seq(Block)
                                                     /\ k.fd = "gguf" => gguf'[k.file] \in Seq(Block),
           z.file \in DOMAIN Length[z.repo], z.fd = "none" <=> z.pc # "download",
           z.fd = "tmp" => tmp'[z.file] \in Seq(Block), z.fd = "gguf" => gguf'[z.file] \in Seq(Block),
           z.fd = "gguf" => s.fd = "gguf"
    PROVE  StoreInv'
  <1>1. ASSUME NEW t, t \in strays' PROVE CurlTyped(t)'
    <2>1. CASE t = z
      BY <2>1 DEF CurlTyped
    <2>2. CASE t # z
      <3>1. t \in strays /\ CurlTyped(t) /\ t.file \in File
        BY <1>1, <2>2 DEF StoreInv, StoreType, StrayRec
      <3> QED
        BY <3>1 DEF CurlTyped
    <2> QED
      BY <2>1, <2>2
  <1>2. ASSUME NEW q \in Proc PROVE PullTyped(proc[q])'
    <2>1. PullTyped(proc[q]) /\ (proc[q].pc \in PullPc => proc[q] \in PullRec)
      BY Kinds DEF StoreInv, StoreType
    <2>2. proc[q].pc \in PullPc => proc[q].file \in File
      BY <2>1 DEF PullRec
    <2> QED
      BY <2>1, <2>2 DEF PullTyped, CurlTyped
  <1>3. StoreType'
    BY <1>1, <1>2 DEF StoreInv, StoreType
  <1>4. s.file \in File
    BY DEF StoreInv, StoreType, StrayRec
  <1>5. s.file \notin tainted => /\ s.file \in orphans /\ s.fd # "gguf"
                                 /\ \A q \in Proc : ~Pulls(q, s.file)
    BY <1>4 DEF StoreInv, FileOk
  <1>6. ASSUME NEW g \in File \ tainted PROVE FileOk(g)'
    <2>1. FileOk(g)
      BY DEF StoreInv
    <2>2. gguf'[g] = gguf[g]
      BY <1>5
    <2>3. \A t \in strays' : t.file = g =>
             g \in orphans' /\ t.fd # "gguf" /\ \A q \in Proc : ~Pulls(q, g)'
      BY <1>5, <2>1 DEF FileOk, Pulls
    <2>4. g = s.file \/ tmp'[g] = tmp[g]
      OBVIOUS
    <2> QED
      BY <1>5, <2>1, <2>2, <2>3, <2>4 DEF FileOk, Pulls
  <1>7. ASSUME NEW q \in Proc, proc[q].pc \in PullPc, proc[q].file \notin tainted
        PROVE  Reached(proc[q])'
    <2>1. proc[q].file \in File /\ Reached(proc[q])
      <3>1. proc[q] \in PullRec
        BY <1>7, Kinds DEF StoreInv, StoreType
      <3> QED
        BY <1>7, <3>1 DEF StoreInv, PullRec
    <2>2. proc[q].file # s.file
      BY <1>5, <1>7 DEF Pulls
    <2> QED
      BY <2>1, <2>2 DEF Reached
  <1> QED
    BY <1>3, <1>6, <1>7 DEF StoreInv
LEMMA StoreStrays ==
    ASSUME StoreInv, StrayStep
    PROVE  StoreInv'
  <1>1. PICK s \in strays : StrayOpens(s) \/ StrayWrites(s) \/ StrayEnds(s)
    BY DEF StrayStep
  <1>2. /\ s \in StrayRec /\ CurlTyped(s) /\ s.file \in File /\ s.repo \in Repo /\ s.at \in Nat
        /\ StoreType
    BY DEF StoreInv, StoreType, StrayRec
  <1>3. CASE StrayOpens(s)
    <2> DEFINE z == Opened(s)
    <2>1. /\ s.pc = "curl" /\ OpensTmp(s) /\ strays' = (strays \ {s}) \union {z}
          /\ UNCHANGED <<gguf, sidecar, proc, tainted, orphans>>
      BY <1>3 DEF StrayOpens, past
    <2>2. /\ Left(s) \in Seq(Block) /\ Len(Left(s)) \in Nat
          /\ tmp' \in [File -> Seq(Block) \union {None}] /\ tmp'[s.file] = Left(s)
          /\ \A g \in File : g # s.file => tmp'[g] = tmp[g]
          /\ \A k : CurlTyped(k) /\ k.file \in File /\ k.fd = "tmp" => tmp'[k.file] \in Seq(Block)
      BY <1>2, <2>1, Opening
    <2>3. z \in StrayRec /\ z.pc = "download" /\ z.fd = "tmp" /\ z.file = s.file /\ z.repo = s.repo
      BY <1>2, <2>2, OpenedRecord
    <2>4. gguf' \in [File -> Seq(Block) \union {None}]
      BY <2>1 DEF StoreInv, StoreType
    <2>5. \A k : CurlTyped(k) /\ k.file \in File /\ k.fd = "gguf" => gguf'[k.file] \in Seq(Block)
      BY <2>1 DEF CurlTyped
    <2>6. z.file \in DOMAIN Length[z.repo]
      BY <1>2, <2>3 DEF CurlTyped
    <2> HIDE DEF z
    <2> QED
      BY <2>1, <2>2, <2>3, <2>4, <2>5, <2>6, StrayChanges
  <1>4. CASE StrayWrites(s)
    <2> DEFINE z == [s EXCEPT !.at = @ + 1]
               b == <<s.repo, s.at>>
    <2>1. /\ Receives(s) /\ strays' = (strays \ {s}) \union {z}
          /\ UNCHANGED <<sidecar, proc, tainted, orphans>>
      BY <1>4 DEF StrayWrites, past
    <2>2. /\ s.pc = "download"
          /\ tmp' \in [File -> Seq(Block) \union {None}]
          /\ gguf' \in [File -> Seq(Block) \union {None}]
          /\ \A g \in File :
                /\ tmp'[g] = IF g = s.file /\ s.fd = "tmp" THEN Append(tmp[g], b) ELSE tmp[g]
                /\ gguf'[g] = IF g = s.file /\ s.fd = "gguf" THEN Append(gguf[g], b) ELSE gguf[g]
          /\ \A k : CurlTyped(k) /\ k.file \in File =>
                      /\ k.fd = "tmp"  => tmp'[k.file] \in Seq(Block)
                      /\ k.fd = "gguf" => gguf'[k.file] \in Seq(Block)
      BY <1>2, <2>1, Receiving
    <2>3. z \in StrayRec /\ z.pc = s.pc /\ z.fd = s.fd /\ z.file = s.file /\ z.repo = s.repo
      BY <1>2 DEF StrayRec
    <2> HIDE DEF b, z
    <2>4. /\ z.file \in DOMAIN Length[z.repo] /\ (z.fd = "none" <=> z.pc # "download")
          /\ z.fd = "tmp" => tmp'[z.file] \in Seq(Block)
          /\ z.fd = "gguf" => gguf'[z.file] \in Seq(Block)
      BY <1>2, <2>2, <2>3 DEF CurlTyped
    <2> QED
      BY <2>1, <2>2, <2>3, <2>4, StrayChanges
  <1>5. CASE StrayEnds(s)
    <2>1. strays' \subseteq strays /\ UNCHANGED <<tmp, gguf, sidecar, proc, tainted, orphans>>
      BY <1>5 DEF StrayEnds, disk, past
    <2>2. StoreType'
      BY <2>1 DEF StoreInv, StoreType, PullTyped, CurlTyped
    <2>3. \A f \in File \ tainted : FileOk(f)'
      BY <2>1 DEF StoreInv, FileOk, Pulls
    <2>4. \A q \in Proc : proc[q].pc \in PullPc /\ proc[q].file \notin tainted => Reached(proc[q])'
      BY <2>1 DEF StoreInv, Reached
    <2> QED
      BY <2>1, <2>2, <2>3, <2>4 DEF StoreInv
  <1> QED
    BY <1>1, <1>3, <1>4, <1>5

\* A step of a models command.
LEMMA StoreSteps ==
    ASSUME StoreInv, NEW p \in Proc, StoreStep(p)
    PROVE  StoreInv'
  <1>1. CASE NotLaunched(p)
    BY <1>1, StoreEnds DEF NotLaunched
  <1>2. CASE Return(p)
    BY <1>2, StoreEnds DEF Return
  <1>3. CASE ApiFails(p)
    BY <1>3, StoreEnds DEF ApiFails
  <1> QED
    BY <1>1, <1>2, <1>3, StorePull, StoreListed, StoreCheck, StoreOpens, StoreDownloads,
       StoreDone, StoreDiscards, StoreRenames, StoreManifest, StoreRemoves, StoreRemovesFile
       DEF StoreStep

-----------------------------------------------------------------------------
(* The server *)

\* Its own steps leave the store alone.
LEMMA ServeKeepsStore ==
    ASSUME StoreInv, NEW p \in Proc, NEW x \in ServeRec \union {Idle},
           proc' = [proc EXCEPT ![p] = x], UNCHANGED store, proc[p].pc \notin PullPc
    PROVE  StoreInv'
  <1>1. x \in Command /\ x.pc \notin PullPc
    BY DEF Command, Idle, ServeRec, ServePc, PullPc
  <1>2. PullTyped(x) /\ sidecar' \in [Stem -> [file : File \union {None}] \union {None}]
    BY <1>1 DEF store, StoreInv, StoreType, PullTyped
  <1>3. proc[p].pc \notin {"download", "rename"}
    BY DEF PullPc
  <1> QED
    BY <1>1, <1>2, <1>3, StoreMoves DEF store

\* A server goes from one step to another, or ends.
LEMMA ServeGoes ==
    ASSUME StoreInv, NEW p \in Proc, Serves(p), NEW c \in ServePc, Goto(p, c) \/ End(p)
    PROVE  /\ \/ Goto(p, c) /\ proc' = [proc EXCEPT ![p] = [proc[p] EXCEPT !.pc = c]]
              \/ proc' = [proc EXCEPT ![p] = Idle]
           /\ [proc[p] EXCEPT !.pc = c] \in ServeRec
           /\ proc[p] \in ServeRec /\ proc[p].pc \notin PullPc
  <1>1. proc[p] \in ServeRec
    BY Kinds DEF StoreInv, StoreType, Serves
  <1>2. [proc[p] EXCEPT !.pc = c] \in ServeRec
    BY <1>1 DEF ServeRec
  <1>3. proc[p].pc \notin PullPc
    BY DEF Serves, ServePc, PullPc
  <1> QED
    BY <1>1, <1>2, <1>3 DEF Goto, End

\* Every step of a server keeps the store's invariant.
LEMMA ServeStoreInv ==
    ASSUME StoreInv, LockInv, NEW p \in Proc, ServeStep(p)
    PROVE  StoreInv'
  <1>1. ASSUME NEW n \in Name, NEW port \in Port, Serve(p, n, port) PROVE StoreInv'
    <2> DEFINE m == resolve(n)
    <2>1. UNCHANGED store /\ proc[p] = Idle
      BY <1>1 DEF Serve
    <2>2. CASE m = None \/ m.file = None
      BY <1>1, <2>2 DEF Serve, store, StoreInv, StoreType, FileOk, Reached, Pulls, PullTyped, CurlTyped
    <2>3. CASE ~(m = None \/ m.file = None)
      <3> DEFINE x == [pc |-> "load", file |-> m.file, port |-> port, fd |-> None]
      <3>1. proc' = [proc EXCEPT ![p] = x]
        BY <1>1, <2>3 DEF Serve
      <3>2. m.file \in File
        BY <2>3, Resolved DEF StoreInv
      <3>3. x \in ServeRec
        BY <3>2 DEF ServeRec, ServePc
      <3>4. proc[p].pc \notin PullPc
        BY <2>1 DEF Idle, PullPc
      <3> HIDE DEF x
      <3> QED
        BY <2>1, <3>1, <3>3, <3>4, ServeKeepsStore
    <2> QED
      BY <2>2, <2>3
  <1>2. CASE EarlySigint(p)
    BY <1>2 DEF EarlySigint, store, StoreInv, StoreType, FileOk, Reached, Pulls, PullTyped, CurlTyped
  <1>3. CASE LockOpen(p)
    <2> DEFINE x == [proc[p] EXCEPT !.pc = "write", !.fd = lock'.ino]
    <2>1. proc' = [proc EXCEPT ![p] = x] /\ UNCHANGED store /\ proc[p].pc = "lock"
      BY <1>3 DEF LockOpen
    <2>2. proc[p] \in ServeRec
      BY <2>1, Kinds DEF StoreInv, StoreType, ServePc
    <2>3. lock'.ino \in Proc
      BY <1>3 DEF LockOpen, LockInv, LockFile, OnDisk
    <2>4. x \in ServeRec
      BY <2>2, <2>3 DEF ServeRec, ServePc
    <2> HIDE DEF x
    <2> QED
      BY <2>1, <2>4, ServeKeepsStore DEF PullPc
  <1>4. CASE \/ Load(p) \/ LoadRefused(p) \/ LockWrite(p) \/ LockFails(p) \/ Bind(p)
             \/ BindFails(p) \/ Sigint(p) \/ StopRemoves(p) \/ StartReturns(p)
    <2>1. PICK c \in ServePc : Goto(p, c) \/ End(p)
      BY <1>4 DEF Load, LoadRefused, LockWrite, LockFails, Bind, BindFails, Sigint, StopRemoves,
                  StartReturns, ServePc
    <2>2. UNCHANGED store /\ Serves(p)
      BY <1>4 DEF Load, LoadRefused, LockWrite, LockFails, Bind, BindFails, Sigint, StopRemoves,
                  StartReturns, ServePc, Serves, Listening
    <2>3. PICK x \in ServeRec \union {Idle} : proc' = [proc EXCEPT ![p] = x]
      BY <2>1, <2>2, ServeGoes
    <2>4. proc[p].pc \notin PullPc
      BY <2>2 DEF Serves, ServePc, PullPc
    <2> QED
      BY <2>2, <2>3, <2>4, ServeKeepsStore
  <1> QED
    BY <1>1, <1>2, <1>3, <1>4 DEF ServeStep

\* A models command does not touch a server, and is none.
LEMMA ServersKept ==
    ASSUME StoreInv, NEW p \in Proc, StoreStep(p)
    PROVE  /\ ~Serves(p) /\ ~Serves(p)'
           /\ \A q \in Proc : q # p => /\ Serves(q) => proc'[q] = proc[q]
                                       /\ Serves(q)' <=> Serves(q)
                                       /\ Alive(q)' <=> Alive(q)
  <1>1. proc \in [Proc -> Command] /\ proc' \in [Proc -> Command]
    BY StoreSteps DEF StoreInv, StoreType
  <1>2. ~Serves(p)
    <2>1. \/ proc[p] = Idle
          \/ proc[p].pc \in {"api", "check", "curl", "download", "rename", "skip", "skipping",
                            "there", "manifest", "writing", "ok", "rm"}
      BY DEF Receives, StoreStep, Pull, Listed, ApiFails, Check, CurlOpen, Download, CurlDone, CurlFails,
         NotLaunched, Rename, OpenSidecar, WriteSidecar, ManifestFails, Return, Remove, RemoveFile
    <2> QED
      BY <2>1 DEF Serves, ServePc, Idle
  <1>3. Idle.pc \notin ServePc
    BY DEF Idle, ServePc
  <1>4. ASSUME NEW c \in PullPc, Goto(p, c), proc[p].pc \in PullPc PROVE proc'[p].pc = c
    <2>1. proc[p] \in PullRec
      BY <1>1, <1>4, Kinds
    <2> QED
      BY <1>1, <1>4, <2>1 DEF Goto, PullRec
  <1>5. End(p) => proc'[p] = Idle
    BY <1>1 DEF End
  <1>6. proc'[p].pc \notin ServePc
    <2>1. ASSUME NEW o \in Operand, Pull(p, o) PROVE proc'[p].pc \notin ServePc
      <3>1. \/ proc'[p] = [pc |-> "api", repo |-> o.repo, quant |-> o.quant]
            \/ proc'[p] = FromName(o)
        BY <1>1, <2>1 DEF Pull
      <3>2. FromName(o).pc = "check"
        BY DEF FromName
      <3> QED
        BY <3>1, <3>2 DEF ServePc
    <2>2. ASSUME Listed(p) PROVE proc'[p].pc \notin ServePc
      <3>1. proc'[p] = Idle \/ proc'[p].pc = "check"
        BY <1>1, <1>5, <2>2 DEF Listed, FromListing
      <3> QED
        BY <1>3, <3>1 DEF ServePc
    <2>3. ASSUME Check(p) \/ OpenSidecar(p) \/ WriteSidecar(p) \/ ManifestFails(p)
          PROVE  proc'[p].pc \notin ServePc
      <3>1. PICK c \in PullPc : Goto(p, c)
        BY <2>3 DEF Check, OpenSidecar, WriteSidecar, ManifestFails, PullPc
      <3>2. proc[p].pc \in PullPc
        BY <2>3 DEF Check, OpenSidecar, WriteSidecar, ManifestFails, PullPc
      <3> QED
        BY <1>4, <3>1, <3>2 DEF PullPc, ServePc
    <2>4. ASSUME CurlOpen(p) \/ CurlDone(p) PROVE proc'[p].pc \notin ServePc
      <3>1. proc[p] \in PullRec
        BY <1>1, <2>4, Kinds DEF CurlOpen, CurlDone, PullPc
      <3>2. proc'[p].pc = "download" \/ proc'[p].pc = "rename"
        BY <1>1, <2>4, <3>1 DEF CurlOpen, CurlDone, Opened, PullRec
      <3> QED
        BY <3>2 DEF ServePc
    <2>5. ASSUME Rename(p) PROVE proc'[p].pc \notin ServePc
      <3>1. proc[p] \in PullRec
        BY <1>1, <2>5, Kinds DEF Rename, PullPc
      <3>2. proc'[p] = Idle \/ proc'[p] = [proc[p] EXCEPT !.pc = "manifest"]
        BY <1>1, <1>5, <2>5 DEF Rename, Follows
      <3>3. [proc[p] EXCEPT !.pc = "manifest"].pc = "manifest"
        BY <3>1 DEF PullRec
      <3> QED
        BY <1>3, <3>2, <3>3 DEF ServePc
    <2>6. ASSUME \/ CurlFails(p) \/ NotLaunched(p) \/ Return(p) \/ ApiFails(p) \/ RemoveFile(p)
          PROVE  proc'[p].pc \notin ServePc
      BY <1>1, <1>3, <1>5, <2>6 DEF CurlFails, NotLaunched, Return, ApiFails, RemoveFile, Follows
    <2>7. ASSUME Download(p) PROVE proc'[p].pc \notin ServePc
      <3>1. proc[p] \in PullRec /\ proc[p].pc = "download"
        BY <1>1, <2>7, Kinds DEF Download, Receives, PullPc
      <3>2. proc'[p].pc = "download"
        BY <1>1, <2>7, <3>1 DEF Download, PullRec
      <3> QED
        BY <3>2 DEF ServePc
    <2>8. ASSUME NEW n \in Name, Remove(p, n) PROVE proc'[p].pc \notin ServePc
      <3>1. proc'[p] = Idle \/ proc'[p].pc = "rm"
        BY <1>1, <2>8 DEF Remove
      <3> QED
        BY <1>3, <3>1 DEF ServePc
    <2> QED
      BY <2>1, <2>2, <2>3, <2>4, <2>5, <2>6, <2>7, <2>8 DEF StoreStep
  <1>7. ASSUME NEW q \in Proc, q # p
        PROVE  proc'[q] = proc[q] \/ (proc[q].pc \in PullPc /\ \E d : proc'[q] = [proc[q] EXCEPT !.fd = d])
    <2>1. CASE CurlFails(p) \/ Rename(p) \/ RemoveFile(p)
      <3>1. End(p) \/ \E f, names : proc'[q] = Follow(proc[q], f, names)
        BY <1>1, <1>7, <2>1 DEF CurlFails, Rename, RemoveFile, Follows
      <3>2. End(p) => proc'[q] = proc[q]
        BY <1>1, <1>7 DEF End
      <3> QED
        BY <3>1, <3>2 DEF Follow, PullPc
    <2>2. CASE ~(CurlFails(p) \/ Rename(p) \/ RemoveFile(p))
      BY <1>1, <1>7, <2>2 DEF StoreStep, Pull, Listed, ApiFails, Check, CurlOpen, Download, CurlDone,
           NotLaunched, OpenSidecar, WriteSidecar, ManifestFails, Return, Remove, End, Goto
    <2> QED
      BY <2>1, <2>2
  <1>8. ASSUME NEW q \in Proc, proc[q].pc \in PullPc, NEW d, proc'[q] = [proc[q] EXCEPT !.fd = d]
        PROVE  proc'[q].pc = proc[q].pc
    <2>1. proc[q] \in PullRec
      BY <1>1, <1>8, Kinds
    <2> QED
      BY <1>8, <2>1 DEF PullRec
  <1>9. ASSUME NEW q \in Proc, q # p
        PROVE  /\ Serves(q) => proc'[q] = proc[q]
               /\ Serves(q)' <=> Serves(q)
               /\ Alive(q)' <=> Alive(q)
    <2>1. CASE proc'[q] = proc[q]
      BY <2>1 DEF Serves, Alive
    <2>2. CASE proc[q].pc \in PullPc /\ proc'[q].pc = proc[q].pc
      <3>1. proc[q].pc \notin ServePc /\ proc[q].pc # Idle.pc
        BY <2>2 DEF PullPc, ServePc, Idle
      <3> QED
        BY <2>2, <3>1 DEF Serves, Alive
    <2> QED
      BY <1>7, <1>8, <1>9, <2>1, <2>2
  <1> QED
    BY <1>2, <1>6, <1>9 DEF Serves

\* The lock while a models command runs: its pid may be the one of a dead server.
LEMMA LockUntouched ==
    ASSUME StoreInv, LockInv, NEW p \in Proc, StoreCommand(p)
    PROVE  LockInv'
  <1>1. /\ ~Serves(p) /\ ~Serves(p)'
        /\ \A q \in Proc : q # p => /\ Serves(q) => proc'[q] = proc[q]
                                    /\ Serves(q)' <=> Serves(q)
                                    /\ Alive(q)' <=> Alive(q)
    BY ServersKept DEF StoreCommand
  <1>2. UNCHANGED <<lock, alone>> /\ reused \subseteq reused'
    BY DEF StoreCommand, Reuse
  <1>3. \A q \in Proc : Names(q)' <=> Names(q)
    BY <1>2 DEF Names
  <1>4. Names(p) => p \in reused' \/ ~Alive(p)'
    <2>1. Alive(p) /\ Names(p) => p \in reused
      BY <1>1 DEF LockInv, Known
    <2>2. Alive(p)' /\ ~Alive(p) /\ Names(p) => p \in reused'
      BY DEF StoreCommand, Reuse, Names, Alive, OnDisk
    <2> QED
      BY <1>2, <2>1, <2>2
  <1>5. ASSUME NEW q \in Proc, Names(q), q # p PROVE q \in reused' \/ ~Alive(q)' \/ Known(q)'
    BY <1>1, <1>2, <1>5 DEF LockInv, Known
  <1>6. \A q \in Proc : proc'[q].pc = "write" => ~Names(q)
    BY <1>1 DEF LockInv, Serves, ServePc
  <1>7. ASSUME NEW q \in Proc, q \in alone, Serves(q)' PROVE Own(q)'
    <2>1. q # p /\ Serves(q) /\ Own(q) /\ proc'[q] = proc[q]
      BY <1>1, <1>7 DEF LockInv
    <2>2. \A r \in Proc : Serves(r)' => r = q
      BY <1>1, <2>1 DEF Own
    <2> QED
      BY <1>2, <1>3, <2>1, <2>2 DEF Own, Known, Serves
  <1> QED
    BY <1>2, <1>3, <1>4, <1>5, <1>6, <1>7 DEF LockInv

\* A server starts.
LEMMA LockServe ==
    ASSUME StoreInv, LockInv, NEW p \in Proc, NEW n \in Name, NEW port \in Port,
           Serve(p, n, port)
    PROVE  LockInv'
  <1> DEFINE m == resolve(n)
  <1>1. CASE m = None \/ m.file = None
    BY <1>1 DEF Serve, serving, LockInv, Names, Known, Own, Serves, Alive
  <1>2. CASE ~(m = None \/ m.file = None)
    <2> DEFINE x == [pc |-> "load", file |-> m.file, port |-> port, fd |-> None]
    <2>1. /\ proc' = [proc EXCEPT ![p] = x] /\ proc[p] = Idle
          /\ alone' = IF \E q \in Proc : Serves(q) THEN {} ELSE {p}
          /\ Reuse(p) /\ UNCHANGED lock
      BY <1>2 DEF Serve
    <2>2. x.pc = "load"
      OBVIOUS
    <2> HIDE DEF x
    <2>3. proc'[p] = x /\ \A q \in Proc : q # p => proc'[q] = proc[q]
      BY <2>1 DEF StoreInv, StoreType
    <2>4. reused \subseteq reused' /\ (Names(p) => p \in reused')
      BY <2>1 DEF Reuse, Names, OnDisk
    <2>5. \A q \in Proc : Names(q)' <=> Names(q)
      BY <2>1 DEF Names
    <2>6. \A q \in Proc : Names(q) => q \in reused' \/ ~Alive(q)' \/ Known(q)'
      BY <2>1, <2>3, <2>4 DEF LockInv, Alive, Known, Serves
    <2>7. \A q \in Proc : proc'[q].pc = "write" => ~Names(q)
      BY <2>2, <2>3 DEF LockInv
    <2>8. ASSUME NEW q \in Proc, q \in alone', Serves(q)' PROVE Own(q)'
      <3>1. q = p /\ \A r \in Proc : Serves(r)' => r = p
        BY <2>1, <2>3, <2>8 DEF Serves
      <3> QED
        BY <2>2, <2>3, <3>1 DEF Own
    <2> QED
      BY <2>1, <2>5, <2>6, <2>7, <2>8 DEF LockInv
  <1> QED
    BY <1>1, <1>2

\* A step of one server, which goes on or ends, says of the servers.
LEMMA OneServer ==
    ASSUME StoreInv, NEW p \in Proc, Serves(p), NEW c \in ServePc, Goto(p, c) \/ End(p)
    PROVE  /\ \A q \in Proc : q # p => proc'[q] = proc[q]
           /\ \/ /\ Goto(p, c) /\ proc'[p].pc = c /\ proc'[p].file = proc[p].file
                 /\ proc'[p].port = proc[p].port /\ proc'[p].fd = proc[p].fd
              \/ proc'[p] = Idle
           /\ Alive(p)
  <1>1. proc[p] \in ServeRec /\ proc \in [Proc -> Command]
    BY Kinds DEF StoreInv, StoreType, Serves
  <1>2. Alive(p)
    BY DEF Serves, ServePc, Alive, Idle
  <1> QED
    BY <1>1, <1>2 DEF ServeRec, Goto, End

\* The lock is removed, or stays while a server goes on, ends or is interrupted.
LEMMA LockKeptOrGone ==
    ASSUME StoreInv, LockInv, NEW p \in Proc, Serves(p),
           NEW c \in ServePc, Goto(p, c) \/ End(p) \/ UNCHANGED proc,
           lock' = lock \/ lock' = None, alone' = alone \/ alone' = alone \ {p}, UNCHANGED reused,
           c # "write",
           c \in {"bind", "listen"} /\ p \in alone' => proc[p].pc = "bind" /\ lock' = lock,
           lock' = lock \/ ~Serves(p)' \/ proc'[p].pc \notin {"write", "bind", "listen"}
              \/ p \notin alone'
    PROVE  LockInv'
  <1>1. /\ \A q \in Proc : q # p => proc'[q] = proc[q]
        /\ \/ /\ Goto(p, c) /\ proc'[p].pc = c /\ proc'[p].file = proc[p].file
              /\ proc'[p].port = proc[p].port /\ proc'[p].fd = proc[p].fd
           \/ proc'[p] = Idle
           \/ proc'[p] = proc[p]
    BY OneServer
  <1>2. Idle.pc = "idle" /\ "idle" \notin ServePc /\ ~Alive(p)' <=> proc'[p] = Idle
    BY DEF Idle, ServePc, Alive
  <1>3. \A q \in Proc : Names(q)' => Names(q) /\ lock' = lock
    BY DEF Names
  <1>4. ASSUME NEW q \in Proc, Names(q)' PROVE q \in reused' \/ ~Alive(q)' \/ Known(q)'
    <2>1. q \in reused \/ ~Alive(q) \/ Known(q)
      BY <1>3, <1>4 DEF LockInv
    <2>2. CASE q # p
      BY <1>1, <1>3, <1>4, <2>1, <2>2 DEF Known, Serves, Alive
    <2>3. CASE q = p
      <3>1. Alive(p)
        BY DEF Serves, ServePc, Alive, Idle
      <3> QED
        BY <1>1, <1>2, <1>3, <1>4, <2>1, <2>3, <3>1 DEF Known, Serves
    <2> QED
      BY <2>2, <2>3
  <1>5. \A q \in Proc : proc'[q].pc = "write" => ~Names(q)'
    BY <1>1, <1>2, <1>3 DEF LockInv, ServePc
  <1>6. \A q \in Proc : Serves(q)' => Serves(q)
    BY <1>1, <1>2 DEF Serves
  <1>7. ASSUME NEW q \in Proc, q \in alone', Serves(q)' PROVE Own(q)'
    <2>1. q \in alone /\ Serves(q) /\ Own(q)
      BY <1>6, <1>7 DEF LockInv
    <2>2. q = p
      BY <2>1 DEF Own
    <2>3. proc'[p].pc = "write" => lock' # None /\ lock'.ino = proc'[p].fd
      BY <1>1, <1>2, <1>7, <2>1, <2>2 DEF Own, Serves
    <2>4. proc'[p].pc \in {"bind", "listen"} => Names(p)' /\ Known(p)'
      BY <1>1, <1>2, <1>7, <2>1, <2>2 DEF Own, Names, Known, Serves
    <2> QED
      BY <1>6, <2>1, <2>2, <2>3, <2>4 DEF Own
  <1> QED
    BY <1>4, <1>5, <1>7 DEF LockInv

\* A server opens, and so empties, the lock.
LEMMA LockOpened ==
    ASSUME StoreInv, LockInv, NEW p \in Proc, LockOpen(p)
    PROVE  LockInv'
  <1> DEFINE l == [ino |-> IF OnDisk(lock) THEN lock.ino ELSE p, body |-> None]
  <1>1. /\ proc[p].pc = "lock" /\ lock' = l
        /\ proc' = [proc EXCEPT ![p].pc = "write", ![p].fd = l.ino]
        /\ UNCHANGED <<alone, reused>>
    BY DEF LockOpen
  <1>2. l.ino \in Proc /\ l.body = None
    BY DEF LockInv, LockFile, OnDisk
  <1>3. l \in LockFile
    BY <1>2 DEF LockFile
  <1> HIDE DEF l
  <1>4. proc[p] \in ServeRec /\ Serves(p)
    BY <1>1, Kinds DEF StoreInv, StoreType, Serves, ServePc
  <1>5. /\ \A q \in Proc : q # p => proc'[q] = proc[q]
        /\ proc'[p].pc = "write" /\ proc'[p].fd = l.ino
    BY <1>1, <1>4 DEF StoreInv, StoreType, ServeRec
  <1>6. \A q \in Proc : ~Names(q)'
    BY <1>1, <1>2 DEF Names
  <1>7. \A q \in Proc : Serves(q)' => Serves(q)
    BY <1>4, <1>5 DEF Serves
  <1>8. ASSUME NEW q \in Proc, q \in alone, Serves(q)' PROVE Own(q)'
    <2>1. q = p /\ \A r \in Proc : Serves(r) => r = p
      BY <1>4, <1>7, <1>8 DEF LockInv, Own
    <2>2. lock' # None
      BY <1>1, <1>3, LockAssumption
    <2> QED
      BY <1>1, <1>5, <1>7, <2>1, <2>2 DEF Own
  <1> QED
    BY <1>1, <1>3, <1>6, <1>8 DEF LockInv

\* It writes itself into the file it has opened.
LEMMA LockWritten ==
    ASSUME StoreInv, LockInv, NEW p \in Proc, LockWrite(p)
    PROVE  LockInv'
  <1> DEFINE b == [pid |-> p, file |-> proc[p].file, port |-> proc[p].port]
             mine == OnDisk(lock) /\ lock.ino = proc[p].fd
  <1>1. /\ proc[p].pc = "write"
        /\ lock' = IF mine THEN [lock EXCEPT !.body = b] ELSE lock
        /\ reused' = reused \ {p} /\ Goto(p, "bind") /\ UNCHANGED alone
    BY DEF LockWrite
  <1>2. proc[p] \in ServeRec /\ Serves(p)
    BY <1>1, Kinds DEF StoreInv, StoreType, Serves, ServePc
  <1>3. b \in Server /\ b.pid = p /\ b.file = proc[p].file /\ b.port = proc[p].port
    BY <1>2 DEF ServeRec, Server
  <1>4. /\ \A q \in Proc : q # p => proc'[q] = proc[q]
        /\ proc'[p].pc = "bind" /\ proc'[p].file = proc[p].file /\ proc'[p].port = proc[p].port
    <2>1. Idle.pc = "idle"
      BY DEF Idle
    <2> QED
      BY <1>1, <1>2 DEF StoreInv, StoreType, ServeRec, Goto
  <1> HIDE DEF b
  <1>5. mine => /\ lock' \in LockFile /\ lock'.body = b /\ lock' # None
                /\ \A q \in Proc : Names(q)' <=> q = p
    <2> SUFFICES ASSUME mine
                 PROVE  /\ lock' \in LockFile /\ lock'.body = b /\ lock' # None
                        /\ \A q \in Proc : Names(q)' <=> q = p
      OBVIOUS
    <2>1. lock \in LockFile
      BY DEF LockInv, OnDisk
    <2>2. lock' \in LockFile /\ lock'.body = b
      BY <1>1, <1>3, <2>1 DEF LockFile
    <2>3. lock' # None /\ lock'.body # None
      BY <1>3, <2>2, LockAssumption
    <2> QED
      BY <1>3, <2>2, <2>3 DEF Names
  <1>6. Names(p)' => mine
    BY <1>1 DEF LockInv, Names
  <1> HIDE DEF mine
  <1>7. Names(p)' => Known(p)'
    BY <1>3, <1>4, <1>5, <1>6 DEF Known, Serves, ServePc
  <1>8. ASSUME NEW q \in Proc, q # p, Names(q)' PROVE q \in reused' \/ ~Alive(q)' \/ Known(q)'
    <2>1. ~mine /\ lock' = lock /\ Names(q)
      BY <1>1, <1>5, <1>8 DEF Names
    <2>2. q \in reused \/ ~Alive(q) \/ Known(q)
      BY <2>1 DEF LockInv
    <2> QED
      BY <1>1, <1>4, <1>8, <2>1, <2>2 DEF Known, Serves, Alive
  <1>9. \A q \in Proc : proc'[q].pc = "write" => ~Names(q)'
    <2> SUFFICES ASSUME NEW q \in Proc, proc'[q].pc = "write" PROVE ~Names(q)'
      OBVIOUS
    <2>1. q # p /\ proc[q].pc = "write"
      BY <1>4
    <2>2. ~Names(q)
      BY <2>1 DEF LockInv
    <2> QED
      BY <1>1, <1>5, <2>1, <2>2 DEF Names
  <1>10. \A q \in Proc : Serves(q)' => Serves(q)
    BY <1>2, <1>4 DEF Serves
  <1>11. ASSUME NEW q \in Proc, q \in alone, Serves(q)' PROVE Own(q)'
    <2>1. q = p /\ (\A r \in Proc : Serves(r) => r = p) /\ Own(p)
      BY <1>2, <1>10, <1>11 DEF LockInv, Own
    <2>2. mine
      BY <1>1, <2>1 DEF Own, mine, OnDisk
    <2>3. Names(p)' /\ Known(p)'
      BY <1>5, <1>7, <2>2
    <2>4. \A r \in Proc : Serves(r)' => r = p
      BY <1>10, <2>1
    <2> QED
      BY <1>4, <2>1, <2>3, <2>4 DEF Own
  <1>12. lock' \in LockFile \union {None}
    BY <1>1, <1>5 DEF LockInv
  <1> QED
    BY <1>1, <1>7, <1>8, <1>9, <1>11, <1>12 DEF LockInv

\* Every step of a server.
LEMMA LockSteps ==
    ASSUME StoreInv, LockInv, NEW p \in Proc, ServeStep(p)
    PROVE  LockInv'
  <1> USE DEF serving, remove_serve_lock, Serves, Listening
  <1>1. CASE \/ Load(p) \/ Sigint(p)
    BY <1>1, LockKeptOrGone DEF Load, Sigint, ServePc
  <1>2. CASE LoadRefused(p)
    BY <1>2, LockKeptOrGone DEF LoadRefused, ServePc
  <1>3. CASE LockFails(p)
    BY <1>3, LockKeptOrGone DEF LockFails, ServePc
  <1>4. CASE Bind(p)
    BY <1>4, LockKeptOrGone DEF Bind, ServePc
  <1>5. CASE BindFails(p) \/ StartReturns(p)
    <2>1. ~Serves(p)'
      BY <1>5 DEF BindFails, StartReturns, End, StoreInv, StoreType, Idle, ServePc
    <2>2. /\ "ending" \in ServePc /\ Serves(p) /\ End(p) /\ lock' = None
          /\ UNCHANGED <<alone, reused>>
      BY <1>5 DEF BindFails, StartReturns, ServePc
    <2> QED
      BY <2>1, <2>2, LockKeptOrGone
  <1>6. CASE EarlySigint(p)
    <2>1. /\ "ending" \in ServePc /\ Serves(p) /\ UNCHANGED proc /\ lock' = None
          /\ alone' = alone \ {p} /\ UNCHANGED reused
      BY <1>6 DEF EarlySigint, ServePc
    <2> QED
      BY <2>1, LockKeptOrGone
  <1>7. CASE StopRemoves(p)
    <2>1. /\ "ending" \in ServePc /\ Serves(p) /\ Goto(p, "ending") /\ lock' = None
          /\ UNCHANGED <<alone, reused>>
      BY <1>7 DEF StopRemoves, ServePc
    <2>2. proc'[p].pc = "ending" \/ ~Serves(p)'
      BY <2>1, OneServer DEF Idle, ServePc
    <2> QED
      BY <2>1, <2>2, LockKeptOrGone
  <1> QED
    BY <1>1, <1>2, <1>3, <1>4, <1>5, <1>6, <1>7, LockServe, LockOpened, LockWritten DEF ServeStep

\* A kill.
LEMMA LockKilled ==
    ASSUME StoreInv, LockInv, NEW p \in Proc, Kill(p)
    PROVE  LockInv'
  <1>1. /\ proc'[p] = Idle /\ \A q \in Proc : q # p => proc'[q] = proc[q]
        /\ UNCHANGED <<lock, alone, reused>>
    BY DEF Kill, End, StoreInv, StoreType, serving
  <1>2. ~Serves(p)' /\ ~Alive(p)' /\ proc'[p].pc # "write"
    BY <1>1 DEF Serves, Alive, Idle, ServePc
  <1>3. \A q \in Proc : q # p => /\ Serves(q)' <=> Serves(q)
                                 /\ Alive(q)' <=> Alive(q)
    BY <1>1 DEF Serves, Alive
  <1>4. \A q \in Proc : Names(q)' <=> Names(q)
    BY <1>1 DEF Names
  <1>5. \A q \in Proc : Names(q) => q \in reused \/ ~Alive(q)' \/ Known(q)'
    BY <1>1, <1>2, <1>3 DEF LockInv, Known
  <1>6. \A q \in Proc : proc'[q].pc = "write" => ~Names(q)
    BY <1>1, <1>2 DEF LockInv
  <1>7. ASSUME NEW q \in Proc, q \in alone, Serves(q)' PROVE Own(q)'
    <2>1. q # p /\ Serves(q) /\ Own(q) /\ proc'[q] = proc[q]
      BY <1>1, <1>2, <1>3, <1>7 DEF LockInv
    <2>2. \A r \in Proc : Serves(r)' => r = q
      BY <1>2, <1>3, <2>1 DEF Own
    <2> QED
      BY <1>1, <1>4, <2>1, <2>2 DEF Own, Known, Serves
  <1> QED
    BY <1>1, <1>4, <1>5, <1>6, <1>7 DEF LockInv

-----------------------------------------------------------------------------

\* A step counts one failure or kill, or none.
Counted == faults \in Nat
LEMMA CountedNext ==
    ASSUME Counted, Next PROVE Counted'
  <1>1. ASSUME NEW p \in Proc, StoreStep(p) PROVE faults' \in {faults, faults + 1}
    BY <1>1 DEF StoreStep, Pull, Listed, ApiFails, Check, CurlOpen, Download, CurlDone, CurlFails,
               NotLaunched, Rename, OpenSidecar, WriteSidecar, ManifestFails, Return, Remove,
               RemoveFile, Fault
  <1>2. ASSUME NEW p \in Proc, ServeStep(p) PROVE faults' \in {faults, faults + 1}
    BY <1>2 DEF ServeStep, Serve, Load, LoadRefused, LockOpen, LockWrite, LockFails, Bind,
               BindFails, EarlySigint, Sigint, StopRemoves, StartReturns, Fault
  <1>3. ASSUME NEW p \in Proc, Kill(p) PROVE faults' \in {faults, faults + 1}
    BY <1>3 DEF Kill, Fault
  <1>4. ASSUME StrayStep PROVE faults' = faults
    BY <1>4 DEF StrayStep, StrayOpens, StrayWrites, StrayEnds
  <1>5. faults' \in {faults, faults + 1}
    BY <1>1, <1>2, <1>3, <1>4 DEF Next, StoreCommand
  <1> QED
    BY <1>5 DEF Counted

\* Init.
LEMMA ServeInit == Init => StoreInv /\ LockInv /\ Counted
  <1> SUFFICES ASSUME Init PROVE StoreInv /\ LockInv /\ Counted
    OBVIOUS
  <1>1. PICK j \in Before \union {None} :
          /\ gguf = [f \in File |-> IF j # None /\ j.file = f THEN Whole(j.repo, f) ELSE None]
          /\ sidecar = [s \in Stem |-> IF j # None /\ j.stem = s THEN [file |-> j.file] ELSE None]
    BY DEF Init, StoreInit
  <1>2. /\ tmp = [f \in File |-> None] /\ proc = [p \in Proc |-> Idle]
        /\ tainted = {} /\ strays = {} /\ lock = None /\ alone = {}
    BY DEF Init, StoreInit
  <1>3. j # None => /\ j.repo \in Repo /\ j.file \in File /\ j.file \in DOMAIN Length[j.repo]
    <2> SUFFICES ASSUME j # None
                 PROVE  j.repo \in Repo /\ j.file \in File /\ j.file \in DOMAIN Length[j.repo]
      OBVIOUS
    <2>1. j \in Jobs /\ j.file \in DOMAIN Length[j.repo]
      BY ModelAssumption
    <2>2. ASSUME NEW o \in Operand, o.kind # "repo-quant", j = FromName(o)
          PROVE  j.repo \in Repo /\ j.file \in File
      BY <2>2, ModelAssumption DEF FromName
    <2>3. ASSUME NEW r \in Repo, NEW i \in DOMAIN Listing[r],
                 j = FromListing([repo |-> r], Listing[r][i])
          PROVE  j.repo \in Repo /\ j.file \in File
      BY <2>3 DEF FromListing, File
    <2> QED
      BY <2>1, <2>2, <2>3 DEF Jobs
  <1>4. /\ gguf \in [File -> Seq(Block) \union {None}]
        /\ sidecar \in [Stem -> [file : File \union {None}] \union {None}]
    <2>1. j # None => Whole(j.repo, j.file) \in Seq(Block)
      BY <1>3, WholeLength
    <2> QED
      BY <1>1, <1>3, <2>1
  <1>5. Idle \in Command /\ Idle.pc \notin PullPc /\ Idle.pc \notin ServePc
    BY DEF Command, Idle, PullPc, ServePc
  <1>6. StoreType
    BY <1>2, <1>4, <1>5 DEF StoreType, PullTyped
  <1>7. \A f \in File : FileOk(f)
    BY <1>1, <1>2, <1>3, <1>5 DEF FileOk, Pulls
  <1>8. StoreInv
    BY <1>2, <1>5, <1>6, <1>7 DEF StoreInv
  <1>9. LockInv
    BY <1>2, <1>5 DEF LockInv, Names, Serves, ServePc
  <1> QED
    BY <1>8, <1>9 DEF Init, StoreInit, Counted

\* A stray knows nothing of the servers.
LEMMA LockStrays ==
    ASSUME LockInv, StrayStep, UNCHANGED serving PROVE LockInv'
  <1>1. UNCHANGED <<proc, lock, alone, reused>>
    BY DEF StrayStep, StrayOpens, StrayWrites, StrayEnds, serving
  <1> QED
    BY <1>1 DEF LockInv, Names, Known, Own, Serves, Alive

\* Every step, or none.
ServeInv == StoreInv /\ LockInv /\ Counted
LEMMA ServeNext == ServeInv /\ [Next]_vars => ServeInv'
  <1> SUFFICES ASSUME StoreInv, LockInv, Counted, [Next]_vars PROVE ServeInv'
    BY DEF ServeInv
  <1>1. CASE UNCHANGED vars
    BY <1>1 DEF vars, StoreInv, StoreType, FileOk, Reached, Pulls, PullTyped, CurlTyped, LockInv,
                Names, Known, Own, Serves, Alive, ServeInv, Counted
  <1>2. ASSUME NEW p \in Proc, StoreCommand(p) PROVE (StoreInv /\ LockInv)'
    BY <1>2, StoreSteps, LockUntouched DEF StoreCommand
  <1>3. ASSUME NEW p \in Proc, ServeStep(p) PROVE (StoreInv /\ LockInv)'
    BY <1>3, ServeStoreInv, LockSteps
  <1>4. ASSUME NEW p \in Proc, Kill(p) PROVE (StoreInv /\ LockInv)'
    BY <1>4, StoreKilled, LockKilled DEF Counted
  <1>5. ASSUME StrayStep, UNCHANGED serving PROVE (StoreInv /\ LockInv)'
    BY <1>5, StoreStrays, LockStrays
  <1> QED
    BY <1>1, <1>2, <1>3, <1>4, <1>5, CountedNext DEF Next, ServeInv

\* An installed file is whole, unless two pulls, or a pull and the curl that a
\* killed one left, worked on it at once: for any repositories, operands, commands,
\* failures and kills.
THEOREM InstalledFilesAreWhole == Spec => []InstalledIsWhole
  <1>1. ServeInv => InstalledIsWhole
    BY DEF ServeInv, StoreInv, FileOk, InstalledIsWhole, OnDisk
  <1> QED
    BY <1>1, ServeInit, ServeNext, PTL DEF Spec, ServeInv

\* A download that reports success has left the file of its repository, and one
\* that was skipped found a file of the length of that file.
THEOREM PulledIsInstalled == Spec => []OkMeansInstalled
  <1>1. ASSUME ServeInv, NEW p \in Proc, proc[p].pc \in {"there", "ok"},
               proc[p].file \notin tainted, OnDisk(gguf[proc[p].file])
        PROVE  LET own == Whole(proc[p].repo, proc[p].file)
               IN  /\ proc[p].pc = "ok" => gguf[proc[p].file] = own
                   /\ Len(gguf[proc[p].file]) = Len(own)
    <2> DEFINE j == proc[p]
    <2>1. j \in PullRec /\ PullTyped(j) /\ Reached(j) /\ j.pc \in PullPc
      BY <1>1, Kinds DEF ServeInv, StoreInv, StoreType, PullPc
    <2>2. Len(Whole(j.repo, j.file)) = Length[j.repo][j.file]
      BY <2>1, WholeLength DEF PullTyped, CurlTyped, PullRec
    <2>3. CASE j.pc = "ok"
      BY <1>1, <2>1, <2>3 DEF Reached, OnDisk
    <2>4. CASE j.pc = "there"
      BY <1>1, <2>1, <2>2, <2>4 DEF Reached, OnDisk
    <2> QED
      BY <1>1, <2>3, <2>4
  <1>2. ServeInv => OkMeansInstalled
    BY <1>1 DEF OkMeansInstalled
  <1> QED
    BY <1>2, ServeInit, ServeNext, PTL DEF Spec, ServeInv

\* `hostely status' names only a server that is there, with its model and port.
THEOREM StatusNamesAServer == Spec => []StatusTruthful
  <1>1. LockInv => StatusTruthful
    <2> SUFFICES ASSUME LockInv, read_serve_lock.says = "serving"
                 PROVE  LET by == read_serve_lock.by
                        IN  by.pid \in reused \/ (Serves(by.pid) /\ proc[by.pid].file = by.file
                                                              /\ proc[by.pid].port = by.port)
      BY DEF StatusTruthful
    <2>1. /\ lock # None /\ lock.body # None /\ Alive(lock.body.pid)
          /\ read_serve_lock.by = lock.body
      BY DEF read_serve_lock, OnDisk, pid_alive
    <2>2. lock.body.pid \in Proc
      BY <2>1 DEF LockInv, LockFile, Server
    <2> QED
      BY <2>1, <2>2 DEF LockInv, Names, Known
  <1> QED
    BY <1>1, ServeInit, ServeNext, PTL DEF Spec, ServeInv

\* A server that no other overlapped, and nobody interrupted as it started, is the
\* one that is reported.
THEOREM AloneIsReported == Spec => []ServerIsVisible
  <1>1. StoreInv /\ LockInv => ServerIsVisible
    <2> SUFFICES ASSUME StoreInv, LockInv, NEW p \in alone, Listening(p)
                 PROVE  /\ read_serve_lock.says = "serving"
                        /\ read_serve_lock.by = [pid |-> p, file |-> proc[p].file,
                                                 port |-> proc[p].port]
      BY DEF ServerIsVisible
    <2>1. p \in Proc /\ Serves(p) /\ Alive(p)
      BY DEF LockInv, Listening, Serves, ServePc, Alive, Idle
    <2>2. Names(p) /\ Known(p)
      BY <2>1 DEF LockInv, Own, Listening
    <2>3. lock.body \in Server
      BY <2>2 DEF LockInv, LockFile, Names
    <2>4. lock.body = [pid |-> p, file |-> proc[p].file, port |-> proc[p].port]
      BY <2>2, <2>3 DEF Server, Names, Known
    <2> QED
      BY <2>1, <2>2, <2>4 DEF read_serve_lock, OnDisk, pid_alive, Names
  <1> QED
    BY <1>1, ServeInit, ServeNext, PTL DEF Spec, ServeInv
===============================================================================
