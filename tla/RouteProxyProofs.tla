--------------------------- MODULE RouteProxyProofs ---------------------------
(***************************************************************************)
(* The route store implements RouteTable, a command that reports success   *)
(* has stored its route, and no reload hides a route that stands: for any  *)
(* hosts, targets, commands, request threads and bounds.                   *)
(***************************************************************************)
EXTENDS RouteProxyProps, FiniteSetTheorems, TLAPS

-----------------------------------------------------------------------------
(* Induction on the natural numbers, and what route_remove keeps *)

\* A set of natural numbers has a least element: the intervals 0..n, ordered by
\* strict inclusion, are well founded.
LEMMA LeastNatural ==
    ASSUME NEW X \in SUBSET Nat, X # {}
    PROVE  \E n \in X : \A m \in X : n <= m
  <1> DEFINE T == {0 .. n : n \in X}
             R == StrictSubsetOrdering(Nat)
  <1>1. IsWellFoundedOn(R, FiniteSubsetsOf(Nat))
    BY FS_StrictSubsetOrderingWellFounded, Zenon
  <1>2. T \subseteq FiniteSubsetsOf(Nat)
    <2> SUFFICES ASSUME NEW n \in X PROVE 0 .. n \in FiniteSubsetsOf(Nat)
      OBVIOUS
    <2>1. IsFiniteSet(0 .. n)
      BY FS_Interval, 0 \in Int, n \in Int
    <2> QED
      BY <2>1 DEF FiniteSubsetsOf
  <1>3. PICK t \in T : \A u \in T : ~(<<u, t>> \in R)
    <2>1. T # {}
      OBVIOUS
    <2> HIDE DEF T, R
    <2> QED
      BY <1>1, <1>2, <2>1, WFMin, Zenon
  <1>4. PICK n \in X : t = 0 .. n
    OBVIOUS
  <1> WITNESS n \in X
  <1> TAKE m \in X
  <1>5. SUFFICES ASSUME m < n PROVE FALSE
    OBVIOUS
  <1>6. <<0 .. m, 0 .. n>> \in R
    <2>1. 0 .. m \subseteq 0 .. n /\ n \in 0 .. n /\ n \notin 0 .. m
      BY <1>5
    <2> QED
      BY <2>1 DEF StrictSubsetOrdering
  <1> QED
    BY <1>3, <1>4, <1>6

\* A set of positions in a sequence has a last one.
LEMMA GreatestIndex ==
    ASSUME NEW s, Len(s) \in Nat, NEW X \in SUBSET (1 .. Len(s)), X # {}
    PROVE  \E i \in X : \A j \in X : j <= i
  <1> DEFINE Y == {Len(s) - i : i \in X}
  <1>1. Y \subseteq Nat /\ Y # {}
    OBVIOUS
  <1>2. PICK n \in Y : \A m \in Y : n <= m
    <2> HIDE DEF Y
    <2> QED
      BY <1>1, LeastNatural
  <1>3. PICK i \in X : n = Len(s) - i
    OBVIOUS
  <1>4. ASSUME NEW j \in X PROVE j <= i
    <2>1. n <= Len(s) - j
      BY <1>2
    <2>2. i \in Nat /\ j \in Nat
      OBVIOUS
    <2> QED
      BY <1>3, <2>1, <2>2
  <1> QED
    BY <1>4

\* The loop of route_remove after n rows, as a function of n.
KeepsTo(rows, h, g, n) ==
    g = [i \in 0 .. n |->
            IF i = 0 THEN <<>>
            ELSE IF rows[i].host = h THEN g[i - 1] ELSE Append(g[i - 1], rows[i])]

\* The loop can be run over any number of rows.
LEMMA KeepsExists ==
    ASSUME NEW rows, NEW h, NEW n \in Nat
    PROVE  \E g : KeepsTo(rows, h, g, n)
  <1> DEFINE X == {m \in Nat : ~ \E g : KeepsTo(rows, h, g, m)}
  <1> SUFFICES ASSUME X # {} PROVE FALSE
    OBVIOUS
  <1>1. PICK m \in X : \A k \in X : m <= k
    <2> HIDE DEF X
    <2>1. X \subseteq Nat
      BY DEF X
    <2> QED
      BY <2>1, LeastNatural
  <1>2. m # 0
    <2>1. KeepsTo(rows, h, [i \in 0 .. 0 |-> <<>>], 0)
      BY DEF KeepsTo
    <2> QED
      BY <2>1
  <1>3. PICK g : KeepsTo(rows, h, g, m - 1)
    BY <1>1, <1>2
  <1> DEFINE last == IF rows[m].host = h THEN g[m - 1] ELSE Append(g[m - 1], rows[m])
             f == [i \in 0 .. m |-> IF i < m THEN g[i] ELSE last]
  <1>4. KeepsTo(rows, h, f, m)
    <2>1. \A i \in 0 .. m : i < m => f[i] = g[i]
      OBVIOUS
    <2>2. f[m] = last
      OBVIOUS
    <2>3. ASSUME NEW i \in 0 .. m
          PROVE  f[i] = IF i = 0 THEN <<>>
                        ELSE IF rows[i].host = h THEN f[i - 1] ELSE Append(f[i - 1], rows[i])
      <3>1. CASE i = m
        <4>1. f[m - 1] = g[m - 1]
          BY <1>2, <2>1
        <4> HIDE DEF f
        <4> QED
          BY <1>2, <2>2, <3>1, <4>1
      <3>2. CASE i < m
        <4>1. i \in 0 .. m - 1
          BY <3>2
        <4>2. g[i] = IF i = 0 THEN <<>>
                     ELSE IF rows[i].host = h THEN g[i - 1] ELSE Append(g[i - 1], rows[i])
          BY <1>3, <4>1 DEF KeepsTo
        <4>3. i # 0 => f[i - 1] = g[i - 1]
          BY <2>1, <4>1
        <4> HIDE DEF f
        <4> QED
          BY <2>1, <3>2, <4>2, <4>3
      <3> QED
        BY <3>1, <3>2
    <2>4. f = [i \in 0 .. m |-> f[i]]
      OBVIOUS
    <2> HIDE DEF f
    <2> QED
      BY <2>3, <2>4 DEF KeepsTo
  <1> QED
    BY <1>4

\* What is kept: the rows of the other hosts, each once if it was there once.
Kept(rows, h, n, kept) ==
    /\ kept \in Seq(Row)
    /\ \A k \in DOMAIN kept : kept[k].host # h /\ \E i \in 1 .. n : kept[k] = rows[i]
    /\ \A i \in 1 .. n : rows[i].host # h => \E k \in DOMAIN kept : kept[k] = rows[i]
    /\ IsTable(rows) => IsTable(kept)

\* One pass of the loop keeps what Kept says, whether the row is dropped or not.
LEMMA LoopKeeps ==
    ASSUME NEW rows \in Seq(Row), NEW h, NEW g, KeepsTo(rows, h, g, Len(rows))
    PROVE  \A n \in 0 .. Len(rows) : Kept(rows, h, n, g[n])
  <1> DEFINE X == {n \in 0 .. Len(rows) : ~Kept(rows, h, n, g[n])}
  <1>1. SUFFICES ASSUME X # {} PROVE FALSE
    OBVIOUS
  <1>2. PICK m \in X : \A k \in X : m <= k
    <2>1. X \subseteq Nat
      OBVIOUS
    <2> HIDE DEF X
    <2> QED
      BY <1>1, <2>1, LeastNatural
  <1>3. \A i \in 0 .. Len(rows) :
           g[i] = IF i = 0 THEN <<>>
                  ELSE IF rows[i].host = h THEN g[i - 1] ELSE Append(g[i - 1], rows[i])
    BY DEF KeepsTo
  <1>4. Len(rows) \in Nat /\ m \in 0 .. Len(rows)
    OBVIOUS
  <1>5. m # 0
    <2>1. g[0] = <<>>
      BY <1>3, <1>4
    <2>2. Kept(rows, h, 0, <<>>)
      BY DEF Kept, IsTable
    <2> QED
      BY <2>1, <2>2
  <1>6. m \in 1 .. Len(rows) /\ rows[m] \in Row
    BY <1>4, <1>5
  <1> DEFINE old == g[m - 1]
  <1>7. Kept(rows, h, m - 1, old)
    BY <1>2, <1>6
  <1>8. g[m] = IF rows[m].host = h THEN old ELSE Append(old, rows[m])
    BY <1>3, <1>6
  <1>9. Kept(rows, h, m, g[m])
    <2> HIDE DEF old, X
    <2>1. CASE rows[m].host = h
      <3>1. g[m] = old
        BY <1>8, <2>1
      <3> QED
        BY <1>6, <1>7, <2>1, <3>1 DEF Kept
    <2>2. CASE rows[m].host # h
      <3> DEFINE new == Append(old, rows[m])
      <3>1. /\ new \in Seq(Row) /\ Len(new) = Len(old) + 1
            /\ \A k \in 1 .. Len(old) : new[k] = old[k]
            /\ new[Len(old) + 1] = rows[m] /\ old \in Seq(Row)
        BY <1>6, <1>7 DEF Kept
      <3>2. \A k \in DOMAIN new : k \in DOMAIN old \/ k = Len(old) + 1
        BY <3>1
      <3>3. DOMAIN old \subseteq DOMAIN new /\ Len(old) + 1 \in DOMAIN new
        BY <3>1
      <3>4. \A k \in DOMAIN old : new[k] = old[k]
        BY <3>1
      <3>8. g[m] = new
        BY <1>8, <2>2
      <3> HIDE DEF new
      <3>5. \A k \in DOMAIN new : new[k].host # h /\ \E i \in 1 .. m : new[k] = rows[i]
        <4>1. 1 .. m - 1 \subseteq 1 .. m /\ m \in 1 .. m
          BY <1>6
        <4>2. \A k \in DOMAIN old : old[k].host # h /\ \E i \in 1 .. m : old[k] = rows[i]
          BY <1>7, <4>1 DEF Kept
        <4> QED
          BY <2>2, <3>1, <3>2, <3>4, <4>1, <4>2, Zenon
      <3>6. \A i \in 1 .. m : rows[i].host # h => \E k \in DOMAIN new : new[k] = rows[i]
        <4>1. \A i \in 1 .. m - 1 : rows[i].host # h => \E k \in DOMAIN old : old[k] = rows[i]
          BY <1>7 DEF Kept
        <4>2. \A i \in 1 .. m : i \in 1 .. m - 1 \/ i = m
          BY <1>6
        <4> QED
          BY <3>1, <3>3, <3>4, <4>1, <4>2, Zenon
      <3>7. ASSUME IsTable(rows) PROVE IsTable(new)
        <4>1. \A k \in DOMAIN old : old[k].host # rows[m].host
          BY <1>6, <1>7, <3>7 DEF Kept, IsTable
        <4>2. IsTable(old)
          BY <1>7, <3>7 DEF Kept
        <4> QED
          BY <3>1, <3>2, <3>4, <4>1, <4>2 DEF IsTable
      <3> QED
        BY <3>1, <3>5, <3>6, <3>7, <3>8 DEF Kept
    <2> QED
      BY <2>1, <2>2
  <1> QED
    BY <1>9

\* What route_remove computes.
LEMMA RemovedKeeps ==
    ASSUME NEW rows \in Seq(Row), NEW h
    PROVE  Kept(rows, h, Len(rows), Removed(rows, h))
  <1> DEFINE g == CHOOSE f : KeepsTo(rows, h, f, Len(rows))
  <1>1. KeepsTo(rows, h, g, Len(rows)) /\ Len(rows) \in 0 .. Len(rows)
    BY KeepsExists
  <1>2. Removed(rows, h) = g[Len(rows)]
    BY Zenon DEF Removed, KeepsTo
  <1> HIDE DEF g
  <1> QED
    BY <1>1, <1>2, LoopKeeps

-----------------------------------------------------------------------------
(* Tables and what a command makes of them *)

Table == {rows \in Seq(Row) : IsTable(rows)}

\* The route a table has for a host: RouteOf is that of the file.
RouteIn(rows, h) ==
    LET is == {i \in DOMAIN rows : rows[i].host = h}
    IN  IF is = {} THEN None ELSE rows[CHOOSE i \in is : TRUE].target

\* Its rows are rows.
LEMMA TableRows ==
    ASSUME NEW rows \in Table, NEW i \in DOMAIN rows
    PROVE  rows[i] \in Row
  <1>1. rows \in Seq(Row)
    BY DEF Table
  <1> QED
    BY <1>1

\* In a table it is the target of the only row of the host.
LEMMA RouteInTable ==
    ASSUME NEW rows \in Table, NEW h
    PROVE  /\ \A i \in DOMAIN rows : rows[i].host = h => RouteIn(rows, h) = rows[i].target
           /\ (\A i \in DOMAIN rows : rows[i].host # h) => RouteIn(rows, h) = None
  <1> DEFINE is == {i \in DOMAIN rows : rows[i].host = h}
  <1>1. ASSUME NEW i \in DOMAIN rows, rows[i].host = h
        PROVE  RouteIn(rows, h) = rows[i].target
    <2>1. i \in is
      BY <1>1
    <2>2. (CHOOSE j \in is : TRUE) \in is
      BY <2>1
    <2>3. (CHOOSE j \in is : TRUE) = i
      BY <1>1, <2>2 DEF Table, IsTable
    <2> QED
      BY <2>1, <2>3 DEF RouteIn
  <1>2. (\A i \in DOMAIN rows : rows[i].host # h) => RouteIn(rows, h) = None
    BY DEF RouteIn
  <1> QED
    BY <1>1, <1>2

\* A table that differs from another in the route of one host.
Edited(rows, h, t, new) ==
    /\ new \in Table
    /\ \A k \in DOMAIN new : new[k].host # h => \E i \in DOMAIN rows : rows[i] = new[k]
    /\ \A i \in DOMAIN rows : rows[i].host # h => \E k \in DOMAIN new : new[k] = rows[i]
    /\ \A k \in DOMAIN new : new[k].host = h => new[k].target = t
    /\ t = None => /\ \A k \in DOMAIN new : new[k].host # h
                   /\ \E i \in DOMAIN rows : rows[i].host = h
    /\ t # None => t \in Target /\ \E k \in DOMAIN new : new[k].host = h

\* An edit changes the route of its own host only.
LEMMA EditedRoutes ==
    ASSUME NEW rows \in Table, NEW h, NEW t, NEW new, Edited(rows, h, t, new), NEW x
    PROVE  RouteIn(new, x) = IF x = h THEN t ELSE RouteIn(rows, x)
  <1>1. new \in Table
    BY DEF Edited
  <1>2. CASE x = h
    BY <1>1, <1>2, RouteInTable DEF Edited
  <1>3. CASE x # h
    <2>1. CASE \E i \in DOMAIN rows : rows[i].host = x
      <3>1. PICK i \in DOMAIN rows : rows[i].host = x
        BY <2>1
      <3>2. PICK k \in DOMAIN new : new[k] = rows[i]
        BY <1>3, <3>1 DEF Edited
      <3> QED
        BY <1>1, <1>3, <3>1, <3>2, RouteInTable
    <2>2. CASE \A i \in DOMAIN rows : rows[i].host # x
      <3>1. \A k \in DOMAIN new : new[k].host # x
        BY <1>3, <2>2 DEF Edited
      <3> QED
        BY <1>1, <1>3, <2>2, <3>1, RouteInTable
    <2> QED
      BY <2>1, <2>2
  <1> QED
    BY <1>2, <1>3

\* The two edits: a row is replaced or appended ...
LEMMA AddedEdits ==
    ASSUME NEW rows \in Table, NEW r \in Row
    PROVE  Edited(rows, r.host, r.target, Added(rows, r))
  <1> DEFINE new == Added(rows, r)
  <1>1. rows \in Seq(Row) /\ r.target \in Target /\ r.target # None
    BY RouteAssumption DEF Table, Row
  <1>2. CASE \E i \in DOMAIN rows : rows[i].host = r.host
    <2>1. new = [i \in DOMAIN rows |-> IF rows[i].host = r.host THEN r ELSE rows[i]]
      BY <1>2 DEF Added
    <2>2. new \in Seq(Row) /\ DOMAIN new = DOMAIN rows
      BY <1>1, <2>1
    <2>3. \A i \in DOMAIN rows : new[i] = IF rows[i].host = r.host THEN r ELSE rows[i]
      BY <2>1
    <2> HIDE DEF new
    <2>4. IsTable(new)
      BY <2>2, <2>3 DEF Table, IsTable
    <2> QED
      BY <1>1, <1>2, <2>2, <2>3, <2>4 DEF Edited, Table, new
  <1>3. CASE \A i \in DOMAIN rows : rows[i].host # r.host
    <2>1. new = Append(rows, r)
      BY <1>3 DEF Added
    <2>2. /\ new \in Seq(Row) /\ DOMAIN rows \subseteq DOMAIN new
          /\ Len(rows) + 1 \in DOMAIN new /\ new[Len(rows) + 1] = r
          /\ \A k \in DOMAIN new : k \in DOMAIN rows \/ k = Len(rows) + 1
      BY <1>1, <2>1
    <2>3. \A k \in DOMAIN rows : new[k] = rows[k]
      BY <1>1, <2>1
    <2> HIDE DEF new
    <2>4. IsTable(new)
      BY <1>3, <2>2, <2>3 DEF Table, IsTable
    <2> QED
      BY <1>1, <1>3, <2>2, <2>3, <2>4 DEF Edited, Table, new
  <1> QED
    BY <1>2, <1>3

\* ... or the rows of the other hosts are kept.
LEMMA RemovedEdits ==
    ASSUME NEW rows \in Table, NEW h, \E i \in DOMAIN rows : rows[i].host = h
    PROVE  Edited(rows, h, None, Removed(rows, h))
  <1>1. rows \in Seq(Row) /\ DOMAIN rows = 1 .. Len(rows)
    BY DEF Table
  <1>2. Kept(rows, h, Len(rows), Removed(rows, h))
    BY <1>1, RemovedKeeps
  <1> QED
    BY <1>1, <1>2 DEF Kept, Edited, Table

-----------------------------------------------------------------------------
(* The commands *)

File    == [rows : Table, len : Nat]
Working == [pc : {"open", "write", "rename", "acked", "warned"}, rows : Table,
            fd : {"none", "tmp", "json"}, host : Host, target : Target \union {None},
            off : BOOLEAN]

\* What the files and the commands hold, also after overlaps and failures.
StoreType ==
    /\ json \in File \union {None} /\ tmp \in File \union {None}
    /\ cmd \in [Cmd -> Working \union {Idle}]
    /\ \A c \in Cmd : InFlight(c) => /\ cmd[c].fd = "tmp" => tmp \in File
                                     /\ cmd[c].fd = "json" => json \in File
    /\ spoilt \in BOOLEAN

\* Where a command that no other has disturbed is in its save.
OnItsWay(c) ==
    LET edit == Edited(routes_load, cmd[c].host, cmd[c].target, cmd[c].rows)
    IN  /\ cmd[c].pc = "open" => cmd[c].fd = "none" /\ edit
        /\ cmd[c].pc = "write" => cmd[c].fd = "tmp" /\ tmp = Truncated /\ edit
        /\ cmd[c].pc = "rename" => /\ cmd[c].fd = "tmp" /\ edit
                                   /\ tmp = Written(Truncated, cmd[c].rows)
        /\ cmd[c].pc = "acked" => RouteIn(routes_load, cmd[c].host) = cmd[c].target

\* Until commands overlap or a write is cut short there is one at a time, and it
\* is on its way.
Undisturbed ==
    ~spoilt => /\ \A c, d \in Cmd : InFlight(c) /\ InFlight(d) => c = d
               /\ \A c \in Cmd : InFlight(c) => OnItsWay(c)

StoreInv == StoreType /\ Undisturbed

\* The files hold tables: a whole one is read as what was written.
LEMMA FileFacts ==
    /\ Truncated \in File
    /\ \A rows \in Table, old \in File : Written(old, rows) \in File
    /\ \A rows \in Table : /\ Parses(Written(Truncated, rows))
                            /\ Written(Truncated, rows).rows = rows
  <1>1. <<>> \in Table
    BY DEF Table, IsTable
  <1>2. Truncated \in File /\ Truncated.len = 0
    BY <1>1 DEF Truncated, File
  <1>3. ASSUME NEW rows \in Table, NEW old \in File
        PROVE  Written(old, rows) \in File
    <2>1. Len(rows) + 1 \in Nat /\ old.len \in Nat
      BY DEF Table, File
    <2> QED
      BY <2>1 DEF Written, File
  <1>4. ASSUME NEW rows \in Table
        PROVE  Parses(Written(Truncated, rows)) /\ Written(Truncated, rows).rows = rows
    <2>1. Len(rows) \in Nat
      BY DEF Table
    <2> QED
      BY <1>2, <2>1 DEF Written, Parses
  <1> QED
    BY <1>2, <1>3, <1>4

\* What is read is a table.
LEMMA LoadsTable == StoreType => routes_load \in Table
  <1>1. <<>> \in Table
    BY DEF Table, IsTable
  <1> QED
    BY <1>1 DEF StoreType, routes_load, File

\* Init.
LEMMA StoreInvInit == StoreInit => StoreInv
  <1> SUFFICES ASSUME StoreInit PROVE StoreInv
    OBVIOUS
  <1>1. json \in File \union {None}
    <2>1. \A rows \in Left : rows \in Table
      BY RouteAssumption DEF Table
    <2> QED
      BY <2>1, FileFacts DEF StoreInit
  <1>2. \A c \in Cmd : ~InFlight(c)
    BY DEF StoreInit, InFlight
  <1> QED
    BY <1>1, <1>2 DEF StoreInit, StoreInv, StoreType, Undisturbed

\* A command starts with an edit of the table it has read.
LEMMA LoadStoreInv ==
    ASSUME StoreInv, NEW c \in Cmd, NEW rows, NEW h \in Host, NEW t \in Target \union {None},
           NEW off \in BOOLEAN, Load(c, rows, h, t, off), Edited(routes_load, h, t, rows)
    PROVE  StoreInv'
  <1> DEFINE new == [pc |-> "open", rows |-> rows, fd |-> "none", host |-> h, target |-> t,
                  off |-> off]
  <1>1. new \in Working
    BY DEF Edited, Working
  <1>2. cmd' = [cmd EXCEPT ![c] = new] /\ cmd'[c] = new
    BY DEF Load, StoreInv, StoreType
  <1>3. UNCHANGED <<json, tmp>> /\ routes_load' = routes_load
    BY DEF Load, routes_load
  <1>4. StoreType'
    <2>1. \A d \in Cmd \ {c} : cmd'[d] = cmd[d]
      BY <1>2 DEF StoreInv, StoreType
    <2>2. cmd'[c].fd = "none"
      BY <1>2
    <2> QED
      BY <1>1, <1>2, <1>3, <2>1, <2>2 DEF Load, StoreInv, StoreType, InFlight
  <1>5. ASSUME ~spoilt' PROVE \A d \in Cmd : InFlight(d)' => d = c
    BY <1>2, <1>5 DEF Load, StoreInv, StoreType, InFlight
  <1>6. OnItsWay(c)'
    <2>1. /\ cmd'[c].pc = "open" /\ cmd'[c].fd = "none" /\ cmd'[c].host = h
          /\ cmd'[c].target = t /\ cmd'[c].rows = rows
      BY <1>2
    <2>2. Edited(routes_load, h, t, rows)'
      BY <1>3 DEF Edited
    <2> QED
      BY <2>1, <2>2 DEF OnItsWay
  <1>7. Undisturbed'
    BY <1>5, <1>6 DEF Undisturbed
  <1> QED
    BY <1>4, <1>7 DEF StoreInv

\* A command reads the file; an edit that changes nothing ends there.
LEMMA StartStoreInv ==
    ASSUME StoreInv, NEW c \in Cmd,
           \/ \E r \in Edit : route_add(c, r)
           \/ \E h \in Host, off \in BOOLEAN : route_remove(c, h, off)
    PROVE  StoreInv'
  <1>1. routes_load \in Table
    BY LoadsTable DEF StoreInv
  <1>2. ASSUME NEW r \in Edit, route_add(c, r) PROVE StoreInv'
    <2>1. r \in Row /\ r.host \in Host /\ r.target \in Target
      BY RouteAssumption DEF Row
    <2> QED
      BY <1>1, <1>2, <2>1, AddedEdits, LoadStoreInv DEF route_add
  <1>3. ASSUME NEW h \in Host, NEW off \in BOOLEAN, route_remove(c, h, off) PROVE StoreInv'
    BY <1>1, <1>3, RemovedEdits, LoadStoreInv DEF route_remove
  <1> QED
    BY <1>2, <1>3

\* A step of one command, which stays on its way or ends.
LEMMA OneMoves ==
    ASSUME StoreInv, NEW c \in Cmd, InFlight(c), NEW w \in Working \union {Idle},
           cmd' = [cmd EXCEPT ![c] = w],
           json' = json \/ json' \in File, tmp' = tmp \/ tmp' \in File,
           w = Idle \/ w.fd \in {cmd[c].fd, "none"} \/ (w.fd = "tmp" /\ tmp' \in File),
           spoilt' \in BOOLEAN, ~spoilt' => ~spoilt /\ (w = Idle \/ OnItsWay(c)')
    PROVE  StoreInv'
  <1>2. cmd'[c] = w /\ \A d \in Cmd \ {c} : cmd'[d] = cmd[d]
    BY DEF StoreInv, StoreType
  <1>1. StoreType'
    <2>1. /\ json' \in File \union {None} /\ tmp' \in File \union {None}
          /\ cmd' \in [Cmd -> Working \union {Idle}]
      BY DEF StoreInv, StoreType
    <2>2. ASSUME NEW d \in Cmd, InFlight(d)'
          PROVE  (cmd'[d].fd = "tmp" => tmp' \in File) /\ (cmd'[d].fd = "json" => json' \in File)
      <3>1. CASE d = c
        <4>1. w # Idle
          BY <1>2, <2>2, <3>1 DEF InFlight, Idle
        <4> QED
          BY <1>2, <3>1, <4>1 DEF StoreInv, StoreType
      <3>2. CASE d # c
        BY <1>2, <2>2, <3>2 DEF StoreInv, StoreType, InFlight, Idle
      <3> QED
        BY <3>1, <3>2
    <2> QED
      BY <2>1, <2>2 DEF StoreType
  <1>3. ASSUME ~spoilt', NEW d \in Cmd, InFlight(d)' PROVE d = c /\ OnItsWay(d)'
    <2>1. d = c
      BY <1>2, <1>3 DEF StoreInv, Undisturbed, InFlight
    <2>2. w # Idle
      BY <1>2, <1>3, <2>1 DEF InFlight, Idle
    <2> QED
      BY <1>3, <2>1, <2>2
  <1> QED
    BY <1>1, <1>3 DEF StoreInv, Undisturbed

\* Every step of a command.
LEMMA CommandStoreInv ==
    ASSUME StoreInv, NEW c \in Cmd, CommandStep(c)
    PROVE  StoreInv'
  <1>1. InFlight(c) /\ cmd[c] \in Working
    BY DEF CommandStep, OpenTmp, WriteTmp, WriteFails, Rename, RenameGone, SaveFails, Killed, Return,
           InFlight, StoreInv, StoreType
  <1>2. StoreType /\ (~spoilt => OnItsWay(c))
    BY <1>1 DEF StoreInv, Undisturbed
  <1>3. json' = json => routes_load' = routes_load
    BY DEF routes_load
  <1>4. CASE OpenTmp(c)
    <2> DEFINE w == [cmd[c] EXCEPT !.pc = "write", !.fd = "tmp"]
    <2>1. /\ cmd' = [cmd EXCEPT ![c] = w] /\ w \in Working /\ w.fd = "tmp"
          /\ tmp' = Truncated /\ UNCHANGED <<json, spoilt>>
      BY <1>1, <1>4 DEF OpenTmp, Working
    <2>2. /\ cmd'[c].pc = "write" /\ cmd'[c].fd = "tmp" /\ cmd'[c].rows = cmd[c].rows
          /\ cmd'[c].host = cmd[c].host /\ cmd'[c].target = cmd[c].target
      BY <1>1, <1>2, <2>1 DEF StoreType, Working
    <2>3. ~spoilt => Edited(routes_load, cmd[c].host, cmd[c].target, cmd[c].rows)
      BY <1>2, <1>4 DEF OpenTmp, OnItsWay
    <2>4. ~spoilt' => OnItsWay(c)'
      BY <1>3, <2>1, <2>2, <2>3 DEF OnItsWay, Truncated, Edited
    <2>5. tmp' \in File
      BY <2>1, FileFacts
    <2> HIDE DEF w
    <2> QED
      BY <1>1, <1>2, <2>1, <2>4, <2>5, OneMoves DEF StoreType
  <1>5. CASE WriteTmp(c)
    <2> DEFINE w == [cmd[c] EXCEPT !.pc = "rename"]
    <2>1. /\ cmd' = [cmd EXCEPT ![c] = w] /\ w \in Working /\ spoilt' = spoilt
          /\ cmd[c].pc = "write"
          /\ tmp'  = IF cmd[c].fd = "tmp"  THEN Written(tmp, cmd[c].rows)  ELSE tmp
          /\ json' = IF cmd[c].fd = "json" THEN Written(json, cmd[c].rows) ELSE json
      BY <1>1, <1>5 DEF WriteTmp, Working
    <2>2. /\ cmd'[c].pc = "rename" /\ cmd'[c].fd = cmd[c].fd /\ cmd'[c].rows = cmd[c].rows
          /\ cmd'[c].host = cmd[c].host /\ cmd'[c].target = cmd[c].target
      BY <1>1, <1>2, <2>1 DEF StoreType, Working
    <2>3. /\ tmp' = tmp \/ tmp' \in File
          /\ json' = json \/ json' \in File
      BY <1>1, <1>2, <2>1, FileFacts DEF StoreType, Working
    <2>4. ASSUME ~spoilt PROVE OnItsWay(c)'
      <3>1. cmd[c].fd = "tmp" /\ tmp = Truncated /\ json' = json
        BY <1>2, <2>1, <2>4 DEF OnItsWay
      <3>2. Edited(routes_load, cmd[c].host, cmd[c].target, cmd[c].rows)
        BY <1>2, <2>1, <2>4 DEF OnItsWay
      <3>3. tmp' = Written(Truncated, cmd[c].rows)
        BY <2>1, <3>1
      <3> QED
        BY <1>3, <2>2, <3>1, <3>2, <3>3 DEF OnItsWay, Edited, Written, Truncated
    <2> QED
      BY <1>1, <1>2, <2>1, <2>3, <2>4, OneMoves DEF StoreType, Working
  <1>6. CASE WriteFails(c)
    <2> DEFINE w == [cmd[c] EXCEPT !.pc = "rename"]
    <2>1. cmd' = [cmd EXCEPT ![c] = w] /\ w \in Working /\ w.fd = cmd[c].fd
      BY <1>1, <1>6 DEF WriteFails, Working
    <2> QED
      BY <1>1, <1>2, <1>6, <2>1, OneMoves DEF StoreType, WriteFails
  <1>7. CASE Rename(c)
    <2>1. tmp \in File /\ json' = tmp /\ tmp' = None /\ spoilt' = spoilt /\ json' # None
      BY <1>2, <1>7 DEF Rename, StoreType
    <2>2. \A d \in Cmd : cmd'[d] = Moved(c, d)
      BY <1>7 DEF Rename
    <2>3. ASSUME NEW d \in Cmd
          PROVE  /\ InFlight(d)' <=> InFlight(d)
                 /\ cmd'[d] \in Working \union {Idle}
                 /\ InFlight(d) => cmd'[d].fd \in {"json", "none"}
      <3>1. CASE ~InFlight(d)
        BY <2>2, <3>1 DEF Moved, InFlight
      <3>2. CASE InFlight(d)
        <4>1. cmd[d] \in Working
          BY <1>2, <3>2 DEF StoreType, InFlight
        <4>f. cmd[d].fd \in {"none", "tmp", "json"}
          BY <4>1 DEF Working
        <4>m. \E f \in {"json", "none"} :
                 \/ cmd'[d] = [cmd[d] EXCEPT !.pc = "acked", !.fd = "none"]
                 \/ cmd'[d] = [cmd[d] EXCEPT !.fd = f]
          BY <2>2, <3>2, <4>f DEF Moved
        <4>2. cmd'[d] \in Working /\ cmd'[d].fd \in {"json", "none"}
          BY <4>1, <4>m DEF Working
        <4>3. cmd'[d] # Idle
          BY <4>2 DEF Working, Idle
        <4> QED
          BY <3>2, <4>2, <4>3 DEF InFlight
      <3> QED
        BY <3>1, <3>2
    <2>4. StoreType'
      BY <1>2, <1>7, <2>1, <2>3 DEF StoreType, Rename
    <2>5. ASSUME ~spoilt PROVE Undisturbed'
      <3>1. cmd[c].pc = "rename" /\ OnItsWay(c)
        BY <1>2, <1>7, <2>5 DEF Rename
      <3>2. tmp = Written(Truncated, cmd[c].rows)
        BY <3>1 DEF OnItsWay
      <3>3. Edited(routes_load, cmd[c].host, cmd[c].target, cmd[c].rows)
        BY <3>1 DEF OnItsWay
      <3>4. routes_load' = cmd[c].rows
        BY <1>1, <2>1, <3>2, FileFacts DEF routes_load, Parses, Working
      <3>5. RouteIn(routes_load', cmd[c].host) = cmd[c].target
        BY <1>2, <3>3, <3>4, EditedRoutes, LoadsTable
      <3>6. /\ cmd'[c].pc = "acked" /\ cmd'[c].host = cmd[c].host
            /\ cmd'[c].target = cmd[c].target
        BY <1>1, <2>2 DEF Moved, Working
      <3>7. OnItsWay(c)'
        BY <3>5, <3>6 DEF OnItsWay, RouteIn
      <3>8. \A d \in Cmd : InFlight(d) => d = c
        BY <1>1, <2>5 DEF StoreInv, Undisturbed
      <3> QED
        BY <2>3, <3>7, <3>8 DEF Undisturbed
    <2> QED
      BY <2>1, <2>4, <2>5 DEF StoreInv, Undisturbed
  <1>8. CASE Killed(c) \/ Return(c)
    <2>1. cmd' = [cmd EXCEPT ![c] = Idle] /\ UNCHANGED <<json, tmp, spoilt>>
      BY <1>8 DEF Killed, Return
    <2> QED
      BY <1>1, <1>2, <2>1, OneMoves DEF StoreType
  <1>9. CASE RenameGone(c) \/ SaveFails(c)
    <2> DEFINE w == AfterFailure(c)
    <2>1. cmd' = [cmd EXCEPT ![c] = w] /\ UNCHANGED <<json, tmp, spoilt>>
      BY <1>9 DEF RenameGone, SaveFails
    <2>2. w = Idle \/ (w \in Working /\ w.pc = "warned" /\ w.fd = "none")
      BY <1>1 DEF AfterFailure, Working
    <2>3. w = Idle \/ OnItsWay(c)'
      <3> HIDE DEF w
      <3>1. cmd'[c] = w
        BY <1>2, <2>1 DEF StoreType
      <3> QED
        BY <2>2, <3>1 DEF OnItsWay
    <2> HIDE DEF w
    <2> QED
      BY <1>1, <1>2, <2>1, <2>2, <2>3, OneMoves DEF StoreType
  <1> QED
    BY <1>4, <1>5, <1>6, <1>7, <1>8, <1>9 DEF CommandStep

\* Every step of the commands.
LEMMA StoreInvStep == StoreInv /\ StoreNext => StoreInv'
  BY StartStoreInv, CommandStoreInv DEF StoreNext

\* Every step of the program, or none.
LEMMA StoreInvNext == StoreInv /\ [Next]_vars => StoreInv'
  <1> SUFFICES ASSUME StoreInv, [Next]_vars PROVE StoreInv'
    OBVIOUS
  <1>1. CASE Command
    BY <1>1, StoreInvStep DEF Command
  <1>2. CASE UNCHANGED store
    BY <1>2 DEF store, StoreInv, StoreType, Undisturbed, OnItsWay, InFlight, routes_load, Edited
  <1> QED
    BY <1>1, <1>2 DEF Next, vars, store, Start, Reload, ReloadRead, ReloadSwap, ReloadRefresh,
                      Signal, Exit, Arrive, Lookup, Answer, Close, ContainerChange

\* A command that has reported success without a warning has stored its route.
THEOREM AckedRoutesAreStored == Spec => []AckedIsStored
  <1>1. StoreInv => AckedIsStored
    BY DEF StoreInv, Undisturbed, OnItsWay, AckedIsStored, RouteOf, RouteIn
  <1>2. Init => StoreInv
    BY StoreInvInit DEF Init
  <1> QED
    BY <1>1, <1>2, StoreInvNext, PTL DEF Spec

-----------------------------------------------------------------------------
(* routes.json implements RouteTable *)

\* The table a reader sees, as long as the promise holds.
Shown == [h \in Host |-> IF spoilt THEN None ELSE RouteOf(h)]

\* The table has routes.
LEMMA RoutesTyped == StoreType => \A h \in Host : RouteOf(h) \in Target \union {None}
  <1> SUFFICES ASSUME StoreType, NEW h \in Host PROVE RouteOf(h) \in Target \union {None}
    OBVIOUS
  <1>1. routes_load \in Table
    BY LoadsTable
  <1>2. \A i \in DOMAIN routes_load : routes_load[i].target \in Target
    BY <1>1, TableRows DEF Row
  <1>3. RouteOf(h) = RouteIn(routes_load, h)
    BY DEF RouteOf, RouteIn
  <1> QED
    BY <1>1, <1>2, <1>3, RouteInTable

\* The rename of an undisturbed command is the step that adds or removes its
\* route.
LEMMA RenameImplements ==
    ASSUME StoreInv, NEW c \in Cmd, Rename(c), ~spoilt
    PROVE  \/ \E t \in Target : Routes!Add(cmd[c].host, t)
           \/ Routes!Remove(cmd[c].host)
  <1> DEFINE h == cmd[c].host
             t == cmd[c].target
  <1>1. cmd[c] \in Working /\ OnItsWay(c) /\ cmd[c].pc = "rename"
    BY DEF StoreInv, StoreType, Undisturbed, Rename, InFlight
  <1>2. h \in Host /\ t \in Target \union {None} /\ cmd[c].rows \in Table
    BY <1>1 DEF Working
  <1>3. tmp = Written(Truncated, cmd[c].rows) /\ Edited(routes_load, h, t, cmd[c].rows)
    BY <1>1 DEF OnItsWay
  <1>4. routes_load' = cmd[c].rows /\ spoilt' = spoilt
    BY <1>2, <1>3, FileFacts DEF Rename, routes_load, Parses
  <1>5. routes_load \in Table
    BY LoadsTable DEF StoreInv
  <1>6. \A x : RouteIn(routes_load', x) = IF x = h THEN t ELSE RouteIn(routes_load, x)
    BY <1>3, <1>4, <1>5, EditedRoutes
  <1>7. \A x : RouteOf(x) = RouteIn(routes_load, x) /\ RouteOf(x)' = RouteIn(routes_load', x)
    BY DEF RouteOf, RouteIn
  <1>8. Shown' = [Shown EXCEPT ![h] = t]
    BY <1>2, <1>4, <1>6, <1>7 DEF Shown
  <1>9. CASE t \in Target
    BY <1>4, <1>8, <1>9 DEF Routes!Add, Shown
  <1>10. CASE t = None
    <2>1. PICK i \in DOMAIN routes_load : routes_load[i].host = h
      BY <1>3, <1>10 DEF Edited
    <2>2. routes_load[i].target \in Target
      BY <1>5, <2>1, TableRows DEF Row
    <2>3. RouteOf(h) \in Target
      BY <1>5, <1>7, <2>1, <2>2, RouteInTable
    <2>4. Shown[h] # None
      BY <1>2, <2>3, RouteAssumption DEF Shown
    <2> QED
      BY <1>4, <1>8, <1>10, <2>4 DEF Routes!Remove, Shown
  <1> QED
    BY <1>2, <1>9, <1>10

\* Every step of the commands is a step of the table or leaves it as it is.
LEMMA StoreImplements ==
    StoreInv /\ [Next]_vars => [Routes!Next]_<<Shown, spoilt>>
  <1> SUFFICES ASSUME StoreInv, [Next]_vars PROVE [Routes!Next]_<<Shown, spoilt>>
    OBVIOUS
  <1>1. ASSUME UNCHANGED <<json, spoilt>> PROVE UNCHANGED <<Shown, spoilt>>
    BY <1>1 DEF Shown, RouteOf, routes_load
  <1>2. ASSUME spoilt' = TRUE PROVE [Routes!Next]_<<Shown, spoilt>>
    <2>1. Shown' = [h \in Host |-> None]
      BY <1>2 DEF Shown
    <2> QED
      BY <1>2, <2>1 DEF Routes!Next, Routes!Spoil, Shown
  <1>3. ASSUME NEW c \in Cmd, CommandStep(c), ~spoilt' PROVE [Routes!Next]_<<Shown, spoilt>>
    <2>1. ~spoilt /\ spoilt' = spoilt
      BY <1>3 DEF StoreInv, StoreType, CommandStep, OpenTmp, WriteTmp, WriteFails, Rename,
                  RenameGone, SaveFails, Killed, Return
    <2>2. CASE Rename(c)
      <3>1. cmd[c].host \in Host
        BY <2>2 DEF Rename, InFlight, StoreInv, StoreType, Working
      <3> QED
        BY <2>1, <2>2, <3>1, RenameImplements DEF Routes!Next
    <2>3. CASE WriteTmp(c)
      <3>1. InFlight(c) /\ cmd[c].pc = "write"
        BY <2>3 DEF WriteTmp
      <3>2. cmd[c].fd = "tmp"
        BY <2>1, <3>1 DEF StoreInv, Undisturbed, OnItsWay
      <3> QED
        BY <1>1, <2>1, <2>3, <3>2 DEF WriteTmp
    <2>4. CASE OpenTmp(c) \/ WriteFails(c) \/ RenameGone(c) \/ SaveFails(c) \/ Killed(c)
            \/ Return(c)
      BY <1>1, <2>1, <2>4 DEF OpenTmp, WriteFails, RenameGone, SaveFails, Killed, Return
    <2> QED
      BY <1>3, <2>2, <2>3, <2>4 DEF CommandStep
  <1>4. ASSUME Command PROVE [Routes!Next]_<<Shown, spoilt>>
    <2>1. spoilt' \in BOOLEAN
      BY <1>4, StoreInvStep DEF Command, StoreInv, StoreType
    <2>2. ASSUME NEW c \in Cmd, ~spoilt',
                 \/ \E r \in Edit : route_add(c, r)
                 \/ \E h \in Host, off \in BOOLEAN : route_remove(c, h, off)
          PROVE  UNCHANGED <<json, spoilt>>
      BY <2>2 DEF route_add, route_remove, Load, StoreInv, StoreType
    <2> QED
      BY <1>1, <1>2, <1>3, <1>4, <2>1, <2>2 DEF Command, StoreNext
  <1> QED
    BY <1>1, <1>4 DEF Next, vars, store, Start, Reload, ReloadRead, ReloadSwap, ReloadRefresh,
                      Signal, Exit, Arrive, Lookup, Answer, Close, ContainerChange

\* routes.json implements RouteTable.
THEOREM StoreImplementsTable == Spec => StoreIsTable
  <1>1. Init => StoreInv
    BY StoreInvInit DEF Init
  <1>2. Init => Routes!Init
    <2> SUFFICES ASSUME Init PROVE Routes!Init
      OBVIOUS
    <2>1. ~spoilt /\ spoilt = FALSE
      BY DEF Init, StoreInit
    <2>2. \A h \in Host : RouteOf(h) \in Target \union {None}
      BY <1>1, RoutesTyped DEF StoreInv
    <2> QED
      BY <2>1, <2>2 DEF Routes!Init
  <1> QED
    BY <1>1, <1>2, StoreInvNext, StoreImplements, PTL
    DEF Spec, StoreIsTable, Routes!Spec, Shown

-----------------------------------------------------------------------------
(* Requests and reloads *)

Serving == [pc : {"lookup", "target", "answered"}, name : Name, target : Target \union {None},
            answer : {None, "404", "upstream", "405", "unreachable", "notrunning"},
            must : BOOLEAN]

ProxyType ==
    /\ g_routes \in RoutesByName /\ loaded \in RoutesByName
    /\ req \in [Req -> Serving \union {Free}]

\* A request whose name has stood in the file since it came finds it in the
\* table, now and after the reload that is under way.
Stands(r) ==
    /\ req[r].answer # "404"
    /\ req[r].pc = "lookup" =>
          /\ g_routes[req[r].name] # None
          /\ reloader = "swap" => loaded[req[r].name] # None
          /\ ByHost(routes_load)[req[r].name] # None

StandingInv ==
    /\ ProxyType
    /\ ~up => \A r \in Req : req[r] = Free
    /\ \A r \in Req : (req[r] # Free /\ req[r].must) => Stands(r)

\* What the proxy reads is a table by name.
LEMMA ReadsRoutes == StoreType => ByHost(routes_load) \in RoutesByName
  <1> SUFFICES ASSUME StoreType, NEW n \in Name
               PROVE  ByHost(routes_load)[n] \in Target \union {None}
    BY DEF ByHost, RoutesByName
  <1> DEFINE rows == routes_load
             is == {i \in DOMAIN rows : Lower[rows[i].host] = n}
             last == CHOOSE i \in is : \A j \in is : j <= i
  <1>1. rows \in Table
    BY LoadsTable
  <1>2. ByHost(rows)[n] = IF is = {} THEN None ELSE rows[last].target
    BY DEF ByHost
  <1>3. rows \in Seq(Row) /\ is \subseteq 1 .. Len(rows)
    BY <1>1 DEF Table
  <1>4. is # {} => \E i \in is : \A j \in is : j <= i
    <2> HIDE DEF is, rows
    <2> QED
      BY <1>3, GreatestIndex
  <1>5. is # {} => last \in is
    BY <1>4
  <1>6. is # {} => rows[last] \in Row
    BY <1>1, <1>5, TableRows
  <1> QED
    BY <1>2, <1>6 DEF Row

\* The steps of the proxy and of its requests.
LEMMA StandingProxy ==
    ASSUME StoreInv, StandingInv, UNCHANGED store,
           \/ Start \/ Reload \/ Signal \/ Exit
           \/ \E t \in Container : ContainerChange(t)
    PROVE  StandingInv'
  <1> DEFINE now == ByHost(routes_load)
  <1>0. routes_load' = routes_load
    BY DEF store, routes_load
  <1>1. now \in RoutesByName /\ ByHost(routes_load)' = now
    BY <1>0, ReadsRoutes DEF StoreInv
  <1>2. NoRoutes \in RoutesByName
    BY DEF NoRoutes, RoutesByName
  <1> HIDE DEF now
  <1> USE DEF StandingInv, ProxyType
  <1>3. CASE Start
    <2>1. up' /\ g_routes' = now /\ loaded' = NoRoutes /\ req' = req
      BY <1>3 DEF Start, now
    <2>2. \A r \in Req : req'[r] = Free
      BY <1>3, <2>1 DEF Start
    <2> QED
      BY <1>1, <1>2, <2>1, <2>2
  <1>4. CASE ReloadRead
    <2>1. reloader' = "swap" /\ loaded' = now /\ UNCHANGED <<up, g_routes, req>>
      BY <1>4 DEF ReloadRead, now
    <2>2. ASSUME NEW r \in Req, req[r] # Free, req[r].must PROVE Stands(r)'
      BY <1>1, <2>1, <2>2 DEF Stands, now
    <2> QED
      BY <1>1, <2>1, <2>2
  <1>5. CASE ReloadSwap
    <2>1. /\ reloader = "swap" /\ reloader' = "refresh"
          /\ g_routes' = loaded /\ loaded' = NoRoutes /\ UNCHANGED <<up, req>>
      BY <1>5 DEF ReloadSwap
    <2>2. ASSUME NEW r \in Req, req[r] # Free, req[r].must PROVE Stands(r)'
      BY <1>1, <2>1, <2>2 DEF Stands, now
    <2> QED
      BY <1>2, <2>1, <2>2
  <1>6. CASE ReloadRefresh
    <2>1. reloader' # "swap" /\ UNCHANGED <<up, loaded, g_routes, req>>
      BY <1>6 DEF ReloadRefresh
    <2>2. ASSUME NEW r \in Req, req[r] # Free, req[r].must PROVE Stands(r)'
      BY <1>1, <2>1, <2>2 DEF Stands, now
    <2> QED
      BY <2>1, <2>2
  <1>7. CASE Exit
    <2>1. g_routes' = NoRoutes /\ loaded' = loaded /\ req' = [r \in Req |-> Free]
      BY <1>7 DEF Exit
    <2> QED
      BY <1>2, <2>1
  <1>8. CASE Signal \/ \E t \in Container : ContainerChange(t)
    <2>1. UNCHANGED <<up, reloader, loaded, g_routes, req>>
      BY <1>8 DEF Signal, ContainerChange
    <2>2. ASSUME NEW r \in Req, req[r] # Free, req[r].must PROVE Stands(r)'
      BY <1>1, <2>1, <2>2 DEF Stands, now
    <2> QED
      BY <2>1, <2>2
  <1> QED
    BY <1>3, <1>4, <1>5, <1>6, <1>7, <1>8 DEF Reload

\* A request begins, reloads or answers.
LEMMA StandingRequest ==
    ASSUME StoreInv, StandingInv, UNCHANGED store, NEW r \in Req,
           \/ \E n \in Name : Arrive(r, n)
           \/ Lookup(r) \/ Answer(r) \/ Close(r)
    PROVE  StandingInv'
  <1>0. routes_load' = routes_load
    BY DEF store, routes_load
  <1>1. ByHost(routes_load)' = ByHost(routes_load)
    BY <1>0
  <1>2. UNCHANGED <<up, reloader, loaded, g_routes>>
    BY DEF Arrive, Lookup, Answer, Close
  <1>3. PICK q : req' = [req EXCEPT ![r] = q]
    BY DEF Arrive, Lookup, Answer, Close
  <1>4. req'[r] = q /\ \A s \in Req \ {r} : req'[s] = req[s]
    BY <1>3 DEF StandingInv, ProxyType
  <1>5. SUFFICES q \in Serving \union {Free} /\ (q # Free => up) /\ ((q # Free /\ q.must) => Stands(r)')
    <2>1. ProxyType'
      BY <1>2, <1>3, <1>5 DEF StandingInv, ProxyType
    <2>2. \A s \in Req \ {r} : (req'[s] # Free /\ req'[s].must) => Stands(s)'
      BY <1>1, <1>2, <1>4 DEF StandingInv, Stands
    <2> QED
      BY <1>2, <1>4, <1>5, <2>1, <2>2 DEF StandingInv
  <1>6. CASE \E n \in Name : Arrive(r, n)
    <2>1. PICK n \in Name : Arrive(r, n)
      BY <1>6
    <2>2. /\ up
          /\ q = [pc |-> "lookup", name |-> n, target |-> None, answer |-> None,
                  must |-> n \in Standing]
      BY <1>3, <1>4, <2>1 DEF Arrive, StandingInv, ProxyType
    <2>3. q \in Serving /\ q.pc = "lookup" /\ q.name = n /\ q.answer = None
      BY <2>2 DEF Serving
    <2>4. q.must => n \in Standing
      BY <2>2
    <2>5. q.must => Stands(r)'
      BY <1>1, <1>2, <1>4, <2>3, <2>4, AnswerAssumption DEF Standing, Stands
    <2> QED
      BY <2>2, <2>3, <2>5
  <1>7. CASE Lookup(r) \/ Answer(r)
    <2>1. req[r] \in Serving /\ req[r] # Free /\ up
      BY <1>7 DEF Lookup, Answer, StandingInv, ProxyType, Free
    <2>2. req[r].must => Stands(r)
      BY <2>1 DEF StandingInv
    <2>3. CASE Lookup(r)
      <3> DEFINE t == g_routes[req[r].name]
      <3>1. q = [req[r] EXCEPT !.target = t, !.pc = IF t = None THEN "answered" ELSE "target",
                               !.answer = IF t = None THEN "404" ELSE None]
        BY <1>3, <1>4, <2>3 DEF Lookup, StandingInv, ProxyType
      <3>2. t \in Target \union {None}
        BY <2>1 DEF StandingInv, ProxyType, RoutesByName, Serving
      <3>3. /\ q \in Serving /\ q.pc # "lookup" /\ q.must = req[r].must
            /\ q.answer = IF t = None THEN "404" ELSE None
        BY <2>1, <3>1, <3>2 DEF Serving
      <3>4. req[r].must => t # None
        BY <2>2, <2>3 DEF Lookup, Stands
      <3>5. q.must => Stands(r)'
        BY <1>4, <3>3, <3>4, AnswerAssumption DEF Stands
      <3> QED
        BY <2>1, <3>3, <3>5
    <2>4. CASE Answer(r)
      <3>1. PICK a \in Answers(req[r].target) : q = [req[r] EXCEPT !.answer = a, !.pc = "answered"]
        BY <1>3, <1>4, <2>4 DEF Answer, StandingInv, ProxyType
      <3>2. a \in {"upstream", "405", "unreachable", "notrunning"}
        BY <3>1 DEF Answers
      <3>3. q \in Serving /\ q.pc = "answered" /\ q.must = req[r].must /\ q.answer = a
        BY <2>1, <3>1, <3>2 DEF Serving
      <3>4. Stands(r)'
        BY <1>4, <3>2, <3>3 DEF Stands
      <3> QED
        BY <2>1, <3>3, <3>4
    <2> QED
      BY <1>7, <2>3, <2>4
  <1>8. CASE Close(r)
    <2>1. q = Free
      BY <1>3, <1>4, <1>8 DEF Close, StandingInv, ProxyType
    <2> QED
      BY <2>1
  <1> QED
    BY <1>6, <1>7, <1>8

\* A step of a command: a request forgets that its name stood in the file.
LEMMA StandingCommand ==
    ASSUME StoreInv, StandingInv, Command
    PROVE  StandingInv'
  <1>1. UNCHANGED <<up, reloader, loaded, g_routes>>
    BY DEF Command
  <1> DEFINE still(r) == ByHost(routes_load')[req[r].name] # None
             new(r) == [req[r] EXCEPT !.must = @ /\ still(r)]
  <1>2. \A r \in Req : req'[r] = IF req[r] = Free THEN Free ELSE new(r)
    BY DEF Command
  <1>3. req' = [r \in Req |-> req'[r]]
    BY DEF Command
  <1>4. ASSUME NEW r \in Req, req[r] # Free
        PROVE  /\ new(r) \in Serving /\ new(r).pc = req[r].pc /\ new(r).name = req[r].name
               /\ new(r).answer = req[r].answer /\ (new(r).must => req[r].must /\ still(r))
    <2>1. req[r] \in Serving
      BY <1>4 DEF StandingInv, ProxyType
    <2>2. (req[r].must /\ still(r)) \in BOOLEAN
      OBVIOUS
    <2> HIDE DEF still
    <2> QED
      BY <2>1, <2>2 DEF Serving
  <1>5. ProxyType'
    <2> HIDE DEF new
    <2> QED
      BY <1>1, <1>2, <1>3, <1>4 DEF StandingInv, ProxyType
  <1>6. ASSUME NEW r \in Req, req'[r] # Free, req'[r].must PROVE Stands(r)'
    <2>1. req[r] # Free /\ req'[r] = new(r)
      BY <1>2, <1>6
    <2>2. req[r].must /\ still(r)
      BY <1>4, <1>6, <2>1
    <2>3. Stands(r)
      BY <2>1, <2>2 DEF StandingInv
    <2> HIDE DEF new
    <2> QED
      BY <1>1, <1>4, <2>1, <2>2, <2>3 DEF Stands
  <1>7. up' \/ \A r \in Req : req'[r] = Free
    BY <1>1, <1>2 DEF StandingInv
  <1> QED
    BY <1>5, <1>6, <1>7 DEF StandingInv

\* Every step of the program, or none.
LEMMA StandingNext == StoreInv /\ StandingInv /\ [Next]_vars => StandingInv'
  <1> SUFFICES ASSUME StoreInv, StandingInv, [Next]_vars PROVE StandingInv'
    OBVIOUS
  <1>1. CASE Command
    BY <1>1, StandingCommand
  <1>2. CASE Start \/ Reload \/ Signal \/ Exit \/ \E t \in Container : ContainerChange(t)
    <2>1. UNCHANGED store
      BY <1>2 DEF Start, Reload, ReloadRead, ReloadSwap, ReloadRefresh, Signal, Exit, ContainerChange
    <2> QED
      BY <1>2, <2>1, StandingProxy
  <1>3. ASSUME NEW r \in Req, \/ \E n \in Name : Arrive(r, n)
                            \/ Lookup(r) \/ Answer(r) \/ Close(r)
        PROVE  StandingInv'
    <2>1. UNCHANGED store
      BY <1>3 DEF Arrive, Lookup, Answer, Close
    <2> QED
      BY <1>3, <2>1, StandingRequest
  <1>4. CASE UNCHANGED vars
    <2>1. routes_load' = routes_load
      BY <1>4 DEF vars, routes_load
    <2>2. ByHost(routes_load)' = ByHost(routes_load)
      BY <2>1
    <2> QED
      BY <1>4, <2>2 DEF vars, StandingInv, ProxyType, Stands
  <1> QED
    BY <1>1, <1>2, <1>3, <1>4 DEF Next

\* A route that stays in the file is never hidden by a reload.
THEOREM ReloadsHideNoRoute == Spec => []KeptRouteNeverMissed
  <1>1. Init => StoreInv /\ StandingInv
    <2>1. ASSUME Init PROVE StandingInv
      BY <2>1 DEF Init, StandingInv, ProxyType, RoutesByName, NoRoutes
    <2> QED
      BY <2>1, StoreInvInit DEF Init
  <1>2. StandingInv => KeptRouteNeverMissed
    BY DEF StandingInv, KeptRouteNeverMissed, Stands
  <1> QED
    BY <1>1, <1>2, StoreInvNext, StandingNext, PTL DEF Spec

===============================================================================
