---------------------------- MODULE TunnelMuxProofs ----------------------------
(***************************************************************************)
(* Proofs about TunnelMux: the units of a stream arrive in order, and none *)
(* is lost while the stream is open, for any number of streams and units   *)
(* and whatever fails.                                                     *)
(*                                                                         *)
(* What a wire holds of one stream is described by a few predicates; the   *)
(* first part says how they change when a frame is sent or received, and   *)
(* the rest of the proof uses nothing else about the frames in flight.     *)
(*                                                                         *)
(* The invariant MuxInv speaks of one stream at a time: Known (the SYN     *)
(* introduces it before its data), Fins (the destination line comes before *)
(* the relay's FIN) and Flow (the units written, buffered and on the wire  *)
(* are consecutive).  A step about one stream spares all others.           *)
(***************************************************************************)
EXTENDS TunnelMuxProps, FiniteSetTheorems, WellFoundedInduction, TLAPS

Frames == [type : {"syn", "data", "fin"}, id : Ids, unit : Nat]
Stages == {"none", "open", "dst", "head", "connect", "check", "poll", "send", "sendhup", "drain",
           "end", "done"}

-----------------------------------------------------------------------------
(* What a wire w holds of a stream x *)

Holds(w, x, type, i) == i \in DOMAIN w /\ w[i].type = type /\ w[i].id = x

HasSyn(w, x)  == \E i \in Nat : Holds(w, x, "syn", i)
HasData(w, x) == \E i \in Nat : Holds(w, x, "data", i)
HasFin(w, x)  == \E i \in Nat : Holds(w, x, "fin", i)

\* No second SYN; data after the SYN; a FIN after data.
OneSyn(w, x) == \A i, j \in Nat : Holds(w, x, "syn", i) /\ Holds(w, x, "syn", j) => i = j
Introduced(w, x) ==
    \A i \in Nat : Holds(w, x, "data", i) => \E j \in Nat : j < i /\ Holds(w, x, "syn", j)
FinAfterData(w, x) ==
    \A i \in Nat : Holds(w, x, "fin", i) => \E j \in Nat : j < i /\ Holds(w, x, "data", j)

\* The units are consecutive from n on; they end before m; they are at most t.
Chain(w, x, n) ==
    \A i \in Nat : Holds(w, x, "data", i) =>
        /\ w[i].unit >= n
        /\ w[i].unit > n => \E j \in Nat : /\ j < i /\ Holds(w, x, "data", j)
                                           /\ w[j].unit = w[i].unit - 1
        /\ \A j \in Nat : j < i /\ Holds(w, x, "data", j) => w[j].unit < w[i].unit
Ends(w, x, n, m) ==
    /\ n <= m
    /\ \A i \in Nat : Holds(w, x, "data", i) => w[i].unit < m
    /\ n < m => \E i \in Nat : Holds(w, x, "data", i) /\ w[i].unit = m - 1
Below(w, x, t) == \A i \in Nat : Holds(w, x, "data", i) => w[i].unit <= t

\* The frames of x with a type in T are the same on v as on w, up to one place.
Same(w, v, x, T) ==
    \E d \in {0, 1} :
        /\ \A i \in Nat, type \in T : Holds(v, x, type, i) => Holds(w, x, type, i + d) /\ v[i] = w[i + d]
        /\ \A i \in Nat, type \in T : Holds(w, x, type, i) =>
               i - d \in Nat /\ Holds(v, x, type, i - d) /\ v[i - d] = w[i]

\* A frame sent, or received, that is not one of them.
LEMMA SentOther ==
    ASSUME NEW w \in Seq(Frames), NEW f \in Frames, NEW x, NEW T, f.id # x \/ f.type \notin T
    PROVE  Same(w, Append(w, f), x, T)
  <1> DEFINE v == Append(w, f)
  <1>1. Len(w) \in Nat /\ DOMAIN w = 1 .. Len(w) /\ DOMAIN v = 1 .. Len(w) + 1
        /\ v[Len(w) + 1] = f /\ \A i \in 1 .. Len(w) : v[i] = w[i]
    OBVIOUS
  <1> HIDE DEF v
  <1>2. \A i \in Nat, type \in T : Holds(v, x, type, i) <=> Holds(w, x, type, i)
    BY <1>1 DEF Holds
  <1>3. \A i \in Nat, type \in T : Holds(w, x, type, i) => v[i] = w[i]
    BY <1>1 DEF Holds
  <1>4. \A i \in Nat : i + 0 = i /\ i - 0 = i
    OBVIOUS
  <1>5. Same(w, v, x, T)
    BY <1>2, <1>3, <1>4 DEF Same
  <1> QED
    BY <1>5 DEF v

\* The same of a frame that is received.
LEMMA ReadOther ==
    ASSUME NEW w \in Seq(Frames), w # <<>>, NEW x, NEW T,
           Head(w).id # x \/ Head(w).type \notin T
    PROVE  Same(w, Tail(w), x, T)
  <1> DEFINE v == Tail(w)
  <1>1. Len(w) \in Nat \ {0} /\ DOMAIN w = 1 .. Len(w) /\ DOMAIN v = 1 .. Len(w) - 1
        /\ Head(w) = w[1] /\ \A i \in 1 .. Len(w) - 1 : v[i] = w[i + 1]
    OBVIOUS
  <1> HIDE DEF v
  <1>2. \A i \in Nat, type \in T : Holds(v, x, type, i) => Holds(w, x, type, i + 1) /\ v[i] = w[i + 1]
    BY <1>1 DEF Holds
  <1>3. \A i \in Nat, type \in T : Holds(w, x, type, i) =>
            i - 1 \in Nat /\ Holds(v, x, type, i - 1) /\ v[i - 1] = w[i]
    <2> SUFFICES ASSUME NEW i \in Nat, NEW type \in T, Holds(w, x, type, i)
                 PROVE  i - 1 \in Nat /\ Holds(v, x, type, i - 1) /\ v[i - 1] = w[i]
      OBVIOUS
    <2>1. i \in 2 .. Len(w)
      BY <1>1 DEF Holds
    <2>2. i - 1 \in 1 .. Len(w) - 1 /\ (i - 1) + 1 = i
      BY <1>1, <2>1
    <2>3. v[i - 1] = w[i]
      BY <1>1, <2>2
    <2> QED
      BY <1>1, <2>2, <2>3 DEF Holds
  <1>4. Same(w, v, x, T)
    BY <1>2, <1>3 DEF Same
  <1> QED
    BY <1>4 DEF v

\* What depends on frames of these types only is as it was.
LEMMA SameSyn ==
    ASSUME NEW w, NEW v, NEW x, NEW T, "syn" \in T, Same(w, v, x, T)
    PROVE  /\ HasSyn(v, x) <=> HasSyn(w, x)
           /\ OneSyn(w, x) => OneSyn(v, x)
  <1> PICK d \in {0, 1} :
        /\ \A i \in Nat : Holds(v, x, "syn", i) => Holds(w, x, "syn", i + d)
        /\ \A i \in Nat : Holds(w, x, "syn", i) => i - d \in Nat /\ Holds(v, x, "syn", i - d)
    BY DEF Same
  <1>1. HasSyn(v, x) <=> HasSyn(w, x)
    BY DEF HasSyn
  <1>2. ASSUME OneSyn(w, x) PROVE OneSyn(v, x)
    <2> SUFFICES ASSUME NEW i \in Nat, NEW j \in Nat, Holds(v, x, "syn", i), Holds(v, x, "syn", j)
                 PROVE  i = j
      BY DEF OneSyn
    <2>1. i + d \in Nat /\ j + d \in Nat /\ Holds(w, x, "syn", i + d) /\ Holds(w, x, "syn", j + d)
      OBVIOUS
    <2>2. i + d = j + d
      BY <1>2, <2>1 DEF OneSyn
    <2> QED
      BY <2>2
  <1> QED
    BY <1>1, <1>2

\* Of FINs alone,
LEMMA SameFin ==
    ASSUME NEW w, NEW v, NEW x, NEW T, "fin" \in T, Same(w, v, x, T)
    PROVE  HasFin(v, x) <=> HasFin(w, x)
  <1> PICK d \in {0, 1} :
        /\ \A i \in Nat : Holds(v, x, "fin", i) => Holds(w, x, "fin", i + d)
        /\ \A i \in Nat : Holds(w, x, "fin", i) => i - d \in Nat /\ Holds(v, x, "fin", i - d)
    BY DEF Same
  <1> QED
    BY DEF HasFin

\* of the units,
LEMMA SameData ==
    ASSUME NEW w \in Seq(Frames), NEW v \in Seq(Frames), NEW x, NEW T, "data" \in T, Same(w, v, x, T)
    PROVE  /\ HasData(v, x) <=> HasData(w, x)
           /\ \A n \in Int : Chain(w, x, n) => Chain(v, x, n)
           /\ \A n, m \in Int : Ends(w, x, n, m) => Ends(v, x, n, m)
           /\ \A t \in Int : Below(w, x, t) => Below(v, x, t)
  <1> PICK d \in {0, 1} :
        /\ \A i \in Nat : Holds(v, x, "data", i) => Holds(w, x, "data", i + d) /\ v[i] = w[i + d]
        /\ \A i \in Nat : Holds(w, x, "data", i) =>
               i - d \in Nat /\ Holds(v, x, "data", i - d) /\ v[i - d] = w[i]
    BY DEF Same
  <1>1. HasData(v, x) <=> HasData(w, x)
    BY DEF HasData
  <1>2. ASSUME NEW n \in Int, Chain(w, x, n) PROVE Chain(v, x, n)
    <2> SUFFICES ASSUME NEW i \in Nat, Holds(v, x, "data", i)
                 PROVE  /\ v[i].unit >= n
                        /\ v[i].unit > n => \E j \in Nat : /\ j < i /\ Holds(v, x, "data", j)
                                                           /\ v[j].unit = v[i].unit - 1
                        /\ \A j \in Nat : j < i /\ Holds(v, x, "data", j) => v[j].unit < v[i].unit
      BY DEF Chain
    <2>1. i + d \in Nat /\ Holds(w, x, "data", i + d) /\ v[i] = w[i + d]
      OBVIOUS
    <2>2. v[i].unit >= n
      BY <1>2, <2>1 DEF Chain
    <2>3. ASSUME v[i].unit > n
          PROVE  \E j \in Nat : j < i /\ Holds(v, x, "data", j) /\ v[j].unit = v[i].unit - 1
      <3>1. PICK k \in Nat : k < i + d /\ Holds(w, x, "data", k) /\ w[k].unit = v[i].unit - 1
        BY <1>2, <2>1, <2>3 DEF Chain
      <3>2. k - d \in Nat /\ Holds(v, x, "data", k - d) /\ v[k - d] = w[k] /\ k - d < i
        BY <3>1
      <3> QED
        BY <3>1, <3>2
    <2>4. ASSUME NEW j \in Nat, j < i, Holds(v, x, "data", j) PROVE v[j].unit < v[i].unit
      <3>1. j + d \in Nat /\ j + d < i + d /\ Holds(w, x, "data", j + d) /\ v[j] = w[j + d]
        BY <2>4
      <3> QED
        BY <1>2, <2>1, <3>1 DEF Chain
    <2> QED
      BY <2>2, <2>3, <2>4
  <1>3. ASSUME NEW n \in Int, NEW m \in Int, Ends(w, x, n, m) PROVE Ends(v, x, n, m)
    <2>1. n <= m
      BY <1>3 DEF Ends
    <2>2. ASSUME NEW i \in Nat, Holds(v, x, "data", i) PROVE v[i].unit < m
      <3>1. i + d \in Nat /\ Holds(w, x, "data", i + d) /\ v[i] = w[i + d]
        BY <2>2
      <3> QED
        BY <1>3, <3>1 DEF Ends
    <2>3. ASSUME n < m PROVE \E i \in Nat : Holds(v, x, "data", i) /\ v[i].unit = m - 1
      <3>1. PICK k \in Nat : Holds(w, x, "data", k) /\ w[k].unit = m - 1
        BY <1>3, <2>3 DEF Ends
      <3> QED
        BY <3>1
    <2> QED
      BY <2>1, <2>2, <2>3 DEF Ends
  <1>4. ASSUME NEW t \in Int, Below(w, x, t) PROVE Below(v, x, t)
    <2> SUFFICES ASSUME NEW i \in Nat, Holds(v, x, "data", i) PROVE v[i].unit <= t
      BY DEF Below
    <2>1. i + d \in Nat /\ Holds(w, x, "data", i + d) /\ v[i] = w[i + d]
      OBVIOUS
    <2> QED
      BY <1>4, <2>1 DEF Below
  <1> QED
    BY <1>1, <1>2, <1>3, <1>4

\* and of what comes before what.
LEMMA SameOrder ==
    ASSUME NEW w, NEW v, NEW x, NEW T, "data" \in T, Same(w, v, x, T)
    PROVE  /\ "syn" \in T /\ Introduced(w, x) => Introduced(v, x)
           /\ "fin" \in T /\ FinAfterData(w, x) => FinAfterData(v, x)
  <1> PICK d \in {0, 1} :
        /\ \A i \in Nat, type \in T : Holds(v, x, type, i) => Holds(w, x, type, i + d)
        /\ \A i \in Nat, type \in T : Holds(w, x, type, i) => i - d \in Nat /\ Holds(v, x, type, i - d)
    BY DEF Same
  <1>1. ASSUME "syn" \in T, Introduced(w, x) PROVE Introduced(v, x)
    <2> SUFFICES ASSUME NEW i \in Nat, Holds(v, x, "data", i)
                 PROVE  \E j \in Nat : j < i /\ Holds(v, x, "syn", j)
      BY DEF Introduced
    <2>1. i + d \in Nat /\ Holds(w, x, "data", i + d)
      OBVIOUS
    <2>2. PICK k \in Nat : k < i + d /\ Holds(w, x, "syn", k)
      BY <1>1, <2>1 DEF Introduced
    <2>3. k - d \in Nat /\ k - d < i /\ Holds(v, x, "syn", k - d)
      BY <1>1, <2>2
    <2> QED
      BY <2>3
  <1>2. ASSUME "fin" \in T, FinAfterData(w, x) PROVE FinAfterData(v, x)
    <2> SUFFICES ASSUME NEW i \in Nat, Holds(v, x, "fin", i)
                 PROVE  \E j \in Nat : j < i /\ Holds(v, x, "data", j)
      BY DEF FinAfterData
    <2>1. i + d \in Nat /\ Holds(w, x, "fin", i + d)
      BY <1>2
    <2>2. PICK k \in Nat : k < i + d /\ Holds(w, x, "data", k)
      BY <1>2, <2>1 DEF FinAfterData
    <2>3. k - d \in Nat /\ k - d < i /\ Holds(v, x, "data", k - d)
      BY <2>2
    <2> QED
      BY <2>3
  <1> QED
    BY <1>1, <1>2

\* A frame of x is sent: v is what is then on the wire.
IsSent(w, v, x, f) ==
    /\ Len(w) + 1 \in Nat /\ v[Len(w) + 1] = f
    /\ Holds(v, x, f.type, Len(w) + 1)
    /\ \A i \in Nat : \A type : Holds(v, x, type, i) =>
                                   Holds(w, x, type, i) \/ (i = Len(w) + 1 /\ type = f.type)
    /\ \A i \in Nat : \A type : Holds(w, x, type, i) =>
                                   Holds(v, x, type, i) /\ i < Len(w) + 1 /\ v[i] = w[i]

\* Append does that.
LEMMA Sent ==
    ASSUME NEW w \in Seq(Frames), NEW f \in Frames, NEW x, f.id = x
    PROVE  IsSent(w, Append(w, f), x, f)
  <1> DEFINE v == Append(w, f)
  <1>1. Len(w) \in Nat /\ DOMAIN w = 1 .. Len(w) /\ DOMAIN v = 1 .. Len(w) + 1
        /\ v[Len(w) + 1] = f /\ \A i \in 1 .. Len(w) : v[i] = w[i]
    OBVIOUS
  <1> HIDE DEF v
  <1>2. \A i \in Nat : \A type : Holds(v, x, type, i) =>
                                   Holds(w, x, type, i) \/ (i = Len(w) + 1 /\ type = f.type)
    BY <1>1 DEF Holds
  <1>3. \A i \in Nat : \A type : Holds(w, x, type, i) =>
                                   Holds(v, x, type, i) /\ i < Len(w) + 1 /\ v[i] = w[i]
    BY <1>1 DEF Holds
  <1>4. Len(w) + 1 \in Nat /\ Holds(v, x, f.type, Len(w) + 1)
    BY <1>1 DEF Holds
  <1>5. IsSent(w, v, x, f)
    BY <1>1, <1>2, <1>3, <1>4 DEF IsSent
  <1> QED
    BY <1>5 DEF v

\* The first SYN is the only one.
LEMMA SentSyn ==
    ASSUME NEW w \in Seq(Frames), NEW f \in Frames, NEW x, f.id = x, f.type = "syn", ~HasSyn(w, x)
    PROVE  HasSyn(Append(w, f), x) /\ OneSyn(Append(w, f), x)
  <1> DEFINE v == Append(w, f)
             n == Len(w) + 1
  <1>0. IsSent(w, v, x, f)
    BY Sent
  <1> HIDE DEF v
  <1>1. n \in Nat /\ \A i \in Nat : Holds(v, x, "syn", i) <=> Holds(w, x, "syn", i) \/ i = n
    BY <1>0 DEF IsSent
  <1> HIDE DEF n
  <1>2. HasSyn(v, x) /\ OneSyn(v, x)
    BY <1>1 DEF HasSyn, OneSyn
  <1> QED
    BY <1>2 DEF v

\* The SYN precedes data even if it is sent late.
LEMMA SentSynOrder ==
    ASSUME NEW w \in Seq(Frames), NEW f \in Frames, NEW x, f.id = x, f.type = "syn", Introduced(w, x)
    PROVE  Introduced(Append(w, f), x)
  <1> DEFINE v == Append(w, f)
             n == Len(w) + 1
  <1>0. IsSent(w, v, x, f)
    BY Sent
  <1> HIDE DEF v
  <1>1. /\ \A i \in Nat : Holds(v, x, "data", i) <=> Holds(w, x, "data", i)
        /\ \A i \in Nat : Holds(w, x, "syn", i) => Holds(v, x, "syn", i)
    BY <1>0 DEF IsSent
  <1> HIDE DEF n
  <1>2. Introduced(v, x)
    BY <1>1 DEF Introduced
  <1> QED
    BY <1>2 DEF v

\* The unit that ends the data on the wire extends it by one.
LEMMA SentData ==
    ASSUME NEW w \in Seq(Frames), NEW f \in Frames, NEW x, f.id = x, f.type = "data"
    PROVE  /\ HasData(Append(w, f), x)
           /\ HasSyn(w, x) /\ Introduced(w, x) => Introduced(Append(w, f), x)
           /\ FinAfterData(w, x) => FinAfterData(Append(w, f), x)
           /\ \A t \in Int : Below(w, x, t) /\ f.unit <= t => Below(Append(w, f), x, t)
           /\ \A n \in Int : Chain(w, x, n) /\ Ends(w, x, n, f.unit) =>
                  Chain(Append(w, f), x, n) /\ Ends(Append(w, f), x, n, f.unit + 1)
  <1> DEFINE v == Append(w, f)
             l == Len(w) + 1
  <1>0. IsSent(w, v, x, f)
    BY Sent
  <1> HIDE DEF v
  <1>1. /\ l \in Nat /\ v[l] = f
        /\ \A i \in Nat : \A type : Holds(v, x, type, i) <=>
                                       Holds(w, x, type, i) \/ (i = l /\ type = f.type)
        /\ \A i \in Nat : \A type : Holds(w, x, type, i) => i < l /\ v[i] = w[i]
    BY <1>0 DEF IsSent
  <1> HIDE DEF l
  <1>2. HasData(v, x)
    BY <1>1 DEF HasData
  <1>3. ASSUME HasSyn(w, x), Introduced(w, x) PROVE Introduced(v, x)
    <2>1. PICK k \in Nat : Holds(w, x, "syn", k)
      BY <1>3 DEF HasSyn
    <2>2. \A i \in Nat : Holds(v, x, "data", i) => Holds(w, x, "data", i) \/ i = l
      BY <1>1
    <2>3. \A i \in Nat : Holds(w, x, "syn", i) => i < l /\ Holds(v, x, "syn", i)
      BY <1>1
    <2> QED
      BY <1>3, <2>1, <2>2, <2>3 DEF Introduced
  <1>4. FinAfterData(w, x) => FinAfterData(v, x)
    <2>1. \A i \in Nat : Holds(v, x, "fin", i) => Holds(w, x, "fin", i)
      BY <1>1
    <2>2. \A i \in Nat : Holds(w, x, "data", i) => Holds(v, x, "data", i)
      BY <1>1
    <2> QED
      BY <2>1, <2>2 DEF FinAfterData
  <1>5. \A i \in Nat : Holds(v, x, "data", i) =>
            (Holds(w, x, "data", i) /\ v[i] = w[i] /\ i < l) \/ (i = l /\ v[i] = f)
    BY <1>1
  <1>6. /\ \A i \in Nat : Holds(w, x, "data", i) => Holds(v, x, "data", i) /\ v[i] = w[i] /\ i < l
        /\ Holds(v, x, "data", l)
    BY <1>1
  <1>7. \A t \in Int : Below(w, x, t) /\ f.unit <= t => Below(v, x, t)
    BY <1>5 DEF Below
  <1>8. f.unit \in Nat /\ \A i \in Nat : Holds(w, x, "data", i) => w[i].unit \in Nat
    <2>1. \A i \in DOMAIN w : w[i] \in Frames
      OBVIOUS
    <2> QED
      BY <2>1 DEF Frames, Holds
  <1>9. ASSUME NEW n \in Int, Chain(w, x, n), Ends(w, x, n, f.unit)
        PROVE  Chain(v, x, n)
    <2> SUFFICES ASSUME NEW i \in Nat, Holds(v, x, "data", i)
                 PROVE  /\ v[i].unit >= n
                        /\ v[i].unit > n => \E j \in Nat : /\ j < i /\ Holds(v, x, "data", j)
                                                           /\ v[j].unit = v[i].unit - 1
                        /\ \A j \in Nat : j < i /\ Holds(v, x, "data", j) => v[j].unit < v[i].unit
      BY DEF Chain
    <2>1. CASE Holds(w, x, "data", i) /\ v[i] = w[i] /\ i < l
      <3>1. v[i].unit >= n
        BY <1>9, <2>1 DEF Chain
      <3>2. ASSUME v[i].unit > n
            PROVE  \E j \in Nat : j < i /\ Holds(v, x, "data", j) /\ v[j].unit = v[i].unit - 1
        <4>1. PICK j \in Nat : j < i /\ Holds(w, x, "data", j) /\ w[j].unit = w[i].unit - 1
          BY <1>9, <2>1, <3>2 DEF Chain
        <4> QED
          BY <1>6, <2>1, <4>1
      <3>3. ASSUME NEW j \in Nat, j < i, Holds(v, x, "data", j) PROVE v[j].unit < v[i].unit
        <4>1. Holds(w, x, "data", j) /\ v[j] = w[j]
          BY <1>1, <1>5, <2>1, <3>3
        <4> QED
          BY <1>9, <2>1, <3>3, <4>1 DEF Chain
      <3> QED
        BY <3>1, <3>2, <3>3
    <2>2. CASE i = l /\ v[i] = f
      <3>1. v[i].unit >= n
        BY <1>9, <2>2 DEF Ends
      <3>2. ASSUME v[i].unit > n
            PROVE  \E j \in Nat : j < i /\ Holds(v, x, "data", j) /\ v[j].unit = v[i].unit - 1
        <4>1. PICK j \in Nat : Holds(w, x, "data", j) /\ w[j].unit = f.unit - 1
          BY <1>8, <1>9, <2>2, <3>2 DEF Ends
        <4> QED
          BY <1>6, <2>2, <4>1
      <3>3. ASSUME NEW j \in Nat, j < i, Holds(v, x, "data", j) PROVE v[j].unit < v[i].unit
        <4>1. Holds(w, x, "data", j) /\ v[j] = w[j]
          BY <1>1, <1>5, <2>2, <3>3
        <4> QED
          BY <1>9, <2>2, <4>1 DEF Ends
      <3> QED
        BY <3>1, <3>2, <3>3
    <2> QED
      BY <1>5, <2>1, <2>2
  <1>10. ASSUME NEW n \in Int, Ends(w, x, n, f.unit) PROVE Ends(v, x, n, f.unit + 1)
    <2>1. n <= f.unit + 1
      BY <1>8, <1>10 DEF Ends
    <2>2. \A i \in Nat : Holds(v, x, "data", i) => v[i].unit < f.unit + 1
      <3>1. \A i \in Nat : Holds(w, x, "data", i) => w[i].unit < f.unit
        BY <1>10 DEF Ends
      <3> QED
        BY <1>5, <1>8, <3>1
    <2>3. Holds(v, x, "data", l) /\ v[l].unit = (f.unit + 1) - 1
      BY <1>1, <1>6, <1>8
    <2> QED
      BY <1>1, <2>1, <2>2, <2>3 DEF Ends
  <1>11. \A n \in Int : Chain(w, x, n) /\ Ends(w, x, n, f.unit) =>
             Chain(v, x, n) /\ Ends(v, x, n, f.unit + 1)
    BY <1>9, <1>10
  <1> QED
    BY <1>2, <1>3, <1>4, <1>7, <1>11 DEF v

\* A FIN is sent after data.
LEMMA SentFin ==
    ASSUME NEW w \in Seq(Frames), NEW f \in Frames, NEW x, f.id = x, f.type = "fin",
           HasData(w, x), FinAfterData(w, x)
    PROVE  FinAfterData(Append(w, f), x)
  <1> DEFINE v == Append(w, f)
             l == Len(w) + 1
  <1>0. IsSent(w, v, x, f)
    BY Sent
  <1> HIDE DEF v
  <1>1. /\ \A i \in Nat : Holds(v, x, "fin", i) => Holds(w, x, "fin", i) \/ i = l
        /\ \A i \in Nat : Holds(w, x, "data", i) => Holds(v, x, "data", i) /\ i < l
    BY <1>0 DEF IsSent
  <1> HIDE DEF l
  <1>2. FinAfterData(v, x)
    BY <1>1 DEF FinAfterData, HasData
  <1> QED
    BY <1>2 DEF v

\* A frame of x is received.
LEMMA Received ==
    ASSUME NEW w \in Seq(Frames), w # <<>>, NEW x, Head(w).id = x
    PROVE  /\ Tail(w) \in Seq(Frames) /\ Head(w) = w[1] /\ Holds(w, x, Head(w).type, 1)
           /\ \A i \in Nat : \A type : Holds(Tail(w), x, type, i) =>
                  i >= 1 /\ Holds(w, x, type, i + 1) /\ Tail(w)[i] = w[i + 1]
           /\ \A i \in Nat : \A type : Holds(w, x, type, i) =>
                  \/ i = 1 /\ type = Head(w).type
                  \/ i > 1 /\ i - 1 \in Nat /\ Holds(Tail(w), x, type, i - 1) /\ Tail(w)[i - 1] = w[i]
  <1> DEFINE v == Tail(w)
  <1>1. Len(w) \in Nat \ {0} /\ DOMAIN w = 1 .. Len(w) /\ DOMAIN v = 1 .. Len(w) - 1
        /\ Head(w) = w[1] /\ v \in Seq(Frames) /\ \A i \in 1 .. Len(w) - 1 : v[i] = w[i + 1]
    OBVIOUS
  <1> HIDE DEF v
  <1>2. \A i \in Nat : \A type : Holds(v, x, type, i) =>
            i >= 1 /\ Holds(w, x, type, i + 1) /\ v[i] = w[i + 1]
    BY <1>1 DEF Holds
  <1>3. ASSUME NEW i \in Nat, NEW type, Holds(w, x, type, i), i # 1
        PROVE  i > 1 /\ i - 1 \in Nat /\ Holds(v, x, type, i - 1) /\ v[i - 1] = w[i]
    <2>1. i \in 2 .. Len(w)
      BY <1>1, <1>3 DEF Holds
    <2>2. i - 1 \in 1 .. Len(w) - 1 /\ (i - 1) + 1 = i /\ i > 1
      BY <1>1, <2>1
    <2>3. v[i - 1] = w[i]
      BY <1>1, <2>2
    <2> QED
      BY <1>1, <1>3, <2>2, <2>3 DEF Holds
  <1>4. \A type : Holds(w, x, type, 1) => type = Head(w).type
    BY <1>1 DEF Holds
  <1>5. Holds(w, x, Head(w).type, 1)
    BY <1>1 DEF Holds
  <1> QED
    BY <1>1, <1>2, <1>3, <1>4, <1>5 DEF v

\* What is left was there.
LEMMA ReceivedLess ==
    ASSUME NEW w \in Seq(Frames), w # <<>>, NEW x, Head(w).id = x
    PROVE  /\ HasSyn(Tail(w), x) => HasSyn(w, x)
           /\ HasData(Tail(w), x) => HasData(w, x)
           /\ HasFin(Tail(w), x) => HasFin(w, x)
           /\ OneSyn(w, x) => OneSyn(Tail(w), x)
           /\ \A t \in Int : Below(w, x, t) => Below(Tail(w), x, t)
  <1> DEFINE v == Tail(w)
  <1>1. \A i \in Nat : \A type : Holds(v, x, type, i) => Holds(w, x, type, i + 1) /\ v[i] = w[i + 1]
    BY Received
  <1> HIDE DEF v
  <1>2. \A i \in Nat : i + 1 \in Nat /\ \A j \in Nat : i + 1 = j + 1 => i = j
    OBVIOUS
  <1>3. /\ HasSyn(v, x) => HasSyn(w, x)
        /\ HasData(v, x) => HasData(w, x)
        /\ HasFin(v, x) => HasFin(w, x)
    BY <1>1, <1>2 DEF HasSyn, HasData, HasFin
  <1>4. OneSyn(w, x) => OneSyn(v, x)
    BY <1>1, <1>2 DEF OneSyn
  <1>5. \A t \in Int : Below(w, x, t) => Below(v, x, t)
    BY <1>1, <1>2 DEF Below
  <1> QED
    BY <1>3, <1>4, <1>5 DEF v

\* The only SYN is gone once it is received.
LEMMA ReceivedSyn ==
    ASSUME NEW w \in Seq(Frames), w # <<>>, NEW x, Head(w).id = x, Head(w).type = "syn", OneSyn(w, x)
    PROVE  HasSyn(w, x) /\ ~HasSyn(Tail(w), x)
  <1>1. Holds(w, x, "syn", 1)
    BY Received
  <1>2. \A i \in Nat : Holds(Tail(w), x, "syn", i) => i >= 1 /\ Holds(w, x, "syn", i + 1)
    BY Received
  <1> QED
    BY <1>1, <1>2 DEF HasSyn, OneSyn

\* The unit that is received is the one awaited.
LEMMA ReceivedData ==
    ASSUME NEW w \in Seq(Frames), w # <<>>, NEW x, Head(w).id = x, Head(w).type = "data"
    PROVE  /\ HasData(w, x) /\ ~Introduced(w, x)
           /\ HasSyn(Tail(w), x) <=> HasSyn(w, x)
           /\ \A t \in Int : Below(w, x, t) => Head(w).unit <= t
           /\ \A n \in Int : Chain(w, x, n) =>
                  /\ Head(w).unit = n /\ Chain(Tail(w), x, n + 1)
                  /\ \A m \in Int : Ends(w, x, n, m) => Ends(Tail(w), x, n + 1, m)
  <1> DEFINE v == Tail(w)
  <1>1. /\ Holds(w, x, "data", 1) /\ Head(w) = w[1]
        /\ \A i \in Nat : \A type : Holds(v, x, type, i) =>
               i >= 1 /\ Holds(w, x, type, i + 1) /\ v[i] = w[i + 1]
        /\ \A i \in Nat : \A type : Holds(w, x, type, i) =>
               \/ i = 1 /\ type = "data"
               \/ i > 1 /\ i - 1 \in Nat /\ Holds(v, x, type, i - 1) /\ v[i - 1] = w[i]
    BY Received
  <1>2. \A i \in Nat : Holds(w, x, "data", i) => w[i].unit \in Nat
    <2>1. \A i \in DOMAIN w : w[i] \in Frames
      OBVIOUS
    <2> QED
      BY <2>1 DEF Frames, Holds
  <1> HIDE DEF v
  <1>3. HasData(w, x)
    BY <1>1 DEF HasData
  <1>4. ~Introduced(w, x)
    <2>1. \A j \in Nat : ~(j < 1 /\ Holds(w, x, "syn", j))
      BY <1>1
    <2> QED
      BY <1>1, <2>1 DEF Introduced
  <1>5. HasSyn(v, x) <=> HasSyn(w, x)
    <2>1. \A i \in Nat : Holds(v, x, "syn", i) => i + 1 \in Nat /\ Holds(w, x, "syn", i + 1)
      BY <1>1
    <2>2. \A i \in Nat : Holds(w, x, "syn", i) => i - 1 \in Nat /\ Holds(v, x, "syn", i - 1)
      BY <1>1
    <2> QED
      BY <2>1, <2>2 DEF HasSyn
  <1>6. \A t \in Int : Below(w, x, t) => Head(w).unit <= t
    BY <1>1 DEF Below
  <1>7. ASSUME NEW n \in Int, Chain(w, x, n) PROVE Head(w).unit = n
    <2>1. Head(w).unit >= n
      BY <1>1, <1>7 DEF Chain
    <2>2. ~(Head(w).unit > n)
      <3>1. \A j \in Nat : ~(j < 1 /\ Holds(w, x, "data", j))
        BY <1>1
      <3> QED
        BY <1>1, <1>7, <3>1 DEF Chain
    <2> QED
      BY <1>1, <1>2, <2>1, <2>2
  <1>8. ASSUME NEW n \in Int, Chain(w, x, n) PROVE Chain(v, x, n + 1)
    <2> SUFFICES ASSUME NEW i \in Nat, Holds(v, x, "data", i)
                 PROVE  /\ v[i].unit >= n + 1
                        /\ v[i].unit > n + 1 => \E j \in Nat : /\ j < i /\ Holds(v, x, "data", j)
                                                               /\ v[j].unit = v[i].unit - 1
                        /\ \A j \in Nat : j < i /\ Holds(v, x, "data", j) => v[j].unit < v[i].unit
      BY DEF Chain
    <2>1. i + 1 \in Nat /\ 1 < i + 1 /\ Holds(w, x, "data", i + 1) /\ v[i] = w[i + 1]
      BY <1>1
    <2>2. w[1].unit < v[i].unit /\ w[1].unit = n
      BY <1>1, <1>7, <1>8, <2>1 DEF Chain
    <2>3. v[i].unit \in Nat
      BY <1>2, <2>1
    <2>4. v[i].unit >= n + 1
      BY <2>2, <2>3
    <2>5. ASSUME v[i].unit > n + 1
          PROVE  \E j \in Nat : j < i /\ Holds(v, x, "data", j) /\ v[j].unit = v[i].unit - 1
      <3>1. v[i].unit > n
        BY <2>3, <2>5
      <3>2. PICK k \in Nat : k < i + 1 /\ Holds(w, x, "data", k) /\ w[k].unit = v[i].unit - 1
        BY <1>8, <2>1, <3>1 DEF Chain
      <3>3. k # 1
        BY <2>2, <2>3, <2>5, <3>2
      <3>4. k - 1 \in Nat /\ Holds(v, x, "data", k - 1) /\ v[k - 1] = w[k]
        BY <1>1, <3>2, <3>3
      <3>5. k - 1 < i
        BY <3>2
      <3> QED
        BY <3>2, <3>4, <3>5
    <2>6. ASSUME NEW j \in Nat, j < i, Holds(v, x, "data", j) PROVE v[j].unit < v[i].unit
      <3>1. j + 1 \in Nat /\ j + 1 < i + 1 /\ Holds(w, x, "data", j + 1) /\ v[j] = w[j + 1]
        BY <1>1, <2>6
      <3> QED
        BY <1>8, <2>1, <3>1 DEF Chain
    <2> QED
      BY <2>4, <2>5, <2>6
  <1>9. ASSUME NEW n \in Int, NEW m \in Int, Chain(w, x, n), Ends(w, x, n, m)
        PROVE  Ends(v, x, n + 1, m)
    <2>1. Head(w).unit = n /\ w[1].unit = n /\ n < m
      BY <1>1, <1>7, <1>9 DEF Ends
    <2>2. \A i \in Nat : Holds(v, x, "data", i) => v[i].unit < m
      <3>1. \A i \in Nat : Holds(v, x, "data", i) =>
                i + 1 \in Nat /\ Holds(w, x, "data", i + 1) /\ v[i] = w[i + 1]
        BY <1>1
      <3> QED
        BY <1>9, <3>1 DEF Ends
    <2>3. ASSUME n + 1 < m PROVE \E i \in Nat : Holds(v, x, "data", i) /\ v[i].unit = m - 1
      <3>1. PICK k \in Nat : Holds(w, x, "data", k) /\ w[k].unit = m - 1
        BY <1>9, <2>1 DEF Ends
      <3>2. k # 1
        BY <2>1, <2>3, <3>1
      <3>3. k - 1 \in Nat /\ Holds(v, x, "data", k - 1) /\ v[k - 1] = w[k]
        BY <1>1, <3>1, <3>2
      <3> QED
        BY <3>1, <3>3
    <2>4. n + 1 <= m
      BY <2>1
    <2> QED
      BY <2>2, <2>3, <2>4 DEF Ends
  <1>10. \A n \in Int : Chain(w, x, n) =>
             /\ Head(w).unit = n /\ Chain(v, x, n + 1)
             /\ \A m \in Int : Ends(w, x, n, m) => Ends(v, x, n + 1, m)
    BY <1>7, <1>8, <1>9
  <1> QED
    BY <1>3, <1>4, <1>5, <1>6, <1>10 DEF v

\* A FIN that is received first had no data before it.
LEMMA ReceivedFin ==
    ASSUME NEW w \in Seq(Frames), w # <<>>, NEW x, Head(w).id = x, Head(w).type = "fin"
    PROVE  HasFin(w, x) /\ ~FinAfterData(w, x)
  <1>1. /\ Holds(w, x, "fin", 1)
        /\ \A i \in Nat : Holds(w, x, "data", i) => i > 1
    BY Received
  <1>2. \A j \in Nat : ~(j < 1 /\ Holds(w, x, "data", j))
    BY <1>1
  <1> QED
    BY <1>1, <1>2 DEF HasFin, FinAfterData

-----------------------------------------------------------------------------
(* The invariant *)

Types ==
    /\ up \in BOOLEAN /\ wire \in [Sides -> Seq(Frames)]
    /\ streams \in [Sides -> SUBSET Ids] /\ pending \in Ids \union {NoStream}
    /\ closed \in [Sides -> [Ids -> BOOLEAN]]
    /\ buf \in [Sides -> [Ids -> Seq(Nat)]] /\ got \in [Sides -> [Ids -> Seq(Nat)]]
    /\ pump \in [Sides -> [Ids -> Stages]] /\ taken \in [Sides -> [Ids -> Nat]]

\* A stream the origin knows is one the relay has opened: the relay introduces it
\* with one SYN, before its data, and no pump comes before that.
Known(x) ==
    /\ x \in streams[Origin] => x \in streams[Relay]
    /\ pump[Relay][x] \in {"none", "open"} => x \notin streams[Relay]
    /\ up /\ pump[Relay][x] \notin {"none", "open", "done"} =>
          x \in streams[Origin] \/ HasSyn(wire[Relay], x)
    /\ x \notin streams[Origin] => Introduced(wire[Relay], x)
    /\ HasSyn(wire[Relay], x) => x \in streams[Relay] /\ x \notin streams[Origin]
    /\ OneSyn(wire[Relay], x) /\ ~HasSyn(wire[Origin], x)
    /\ HasData(wire[Origin], x) => x \in streams[Relay]
    /\ pump[Origin][x] # "none" => x \in streams[Origin]
    /\ pending = x => x \in streams[Origin] /\ pump[Origin][x] = "none"

\* The destination line comes before any FIN of the relay, so that the origin
\* never takes the close of a stream for its destination line.
Waits(x) == pump[Origin][x] \in {"none", "dst"}
Fins(x) ==
    /\ HasFin(wire[Relay], x) => closed[Relay][x]
    /\ HasFin(wire[Origin], x) => closed[Relay][x] \/ ~Waits(x)
    /\ Waits(x) /\ buf[Origin][x] = <<>> =>
          /\ FinAfterData(wire[Relay], x) /\ ~closed[Origin][x]
          /\ up /\ ~closed[Relay][x] /\ pump[Relay][x] \notin {"none", "open", "dst", "done"} =>
                HasData(wire[Relay], x)
    /\ \/ pump[Relay][x] \in {"none", "open", "dst", "head"}
       \/ pump[Relay][x] = "done" /\ ~closed[Relay][x]
       => taken[Relay][x] = 0

\* The unit that side t sends next, and whether it still can.
NextUnit(t, x) ==
    IF pump[t][x] \in {"send", "sendhup"} THEN taken[t][x]
    ELSE IF t = Relay /\ pump[t][x] \in {"none", "open", "dst", "done"} THEN Dst
    ELSE taken[t][x] + 1
MaySend(t, x) ==
    /\ up /\ pump[t][x] # "end"
    /\ closed[t][x] => pump[t][x] \in {"send", "sendhup"}

\* The unit that side p reads next from the wire; the destination line is not
\* written to the socket.
Lag(p, x) == IF p = Origin /\ Waits(x) THEN 1 ELSE 0
Awaited(p, x) == Len(got[p][x]) + Len(buf[p][x]) + 1 - Lag(p, x)

\* The units from t to p: written, then buffered, then on the wire, with no gap
\* until the pump of p has ended.
Pumped(p, x) == pump[p][x] \notin {"end", "done"}
Written(t, p, x) ==
    /\ Len(got[p][x]) <= taken[t][x] /\ \A i \in DOMAIN got[p][x] : got[p][x][i] = i
Carried(t, p, x) ==
    /\ Awaited(p, x) <= taken[t][x] + 1
    /\ \A i \in DOMAIN buf[p][x] : buf[p][x][i] = Len(got[p][x]) + i - Lag(p, x)
    /\ Chain(wire[t], x, Awaited(p, x))
    /\ MaySend(t, x) => Ends(wire[t], x, Awaited(p, x), NextUnit(t, x))
Flow(t, x) ==
    /\ Below(wire[t], x, taken[t][x])
    /\ Written(t, Peer(t), x)
    /\ Pumped(Peer(t), x) => Carried(t, Peer(t), x)

Stream(x) == Known(x) /\ Fins(x) /\ Flow(Relay, x) /\ Flow(Origin, x)

MuxInv == Types /\ \A x \in Ids : Stream(x)

-----------------------------------------------------------------------------
(* What a step leaves alone *)

FrameTypes == {"syn", "data", "fin"}

\* An entry is changed in a table of streams, or of sides.
LEMMA Put ==
    ASSUME NEW S, NEW f \in [Sides -> [Ids -> S]], NEW a \in Sides, NEW b \in Ids, NEW v \in S
    PROVE  /\ [f EXCEPT ![a][b] = v] \in [Sides -> [Ids -> S]]
           /\ [f EXCEPT ![a][b] = v][a][b] = v
           /\ \A t \in Sides, x \in Ids : t # a \/ x # b => [f EXCEPT ![a][b] = v][t][x] = f[t][x]
  OBVIOUS

\* The same in a table of sides.
LEMMA PutWire ==
    ASSUME NEW S, NEW f \in [Sides -> S], NEW a \in Sides, NEW v \in S
    PROVE  /\ [f EXCEPT ![a] = v] \in [Sides -> S]
           /\ [f EXCEPT ![a] = v][a] = v
           /\ \A t \in Sides : t # a => [f EXCEPT ![a] = v][t] = f[t]
  OBVIOUS

\* A wire that is left alone.
LEMMA SameRefl == \A w, x, T : Same(w, w, x, T)
  <1> SUFFICES ASSUME NEW w, NEW x, NEW T PROVE Same(w, w, x, T)
    OBVIOUS
  <1>1. \A i \in Nat : i + 0 = i /\ i - 0 = i
    OBVIOUS
  <1> QED
    BY <1>1 DEF Same

\* Everything that is said of a wire stays true.
LEMMA SameAll ==
    ASSUME NEW w \in Seq(Frames), NEW v \in Seq(Frames), NEW x, Same(w, v, x, FrameTypes)
    PROVE  /\ HasSyn(v, x) <=> HasSyn(w, x)
           /\ HasData(v, x) <=> HasData(w, x)
           /\ HasFin(v, x) <=> HasFin(w, x)
           /\ OneSyn(w, x) => OneSyn(v, x)
           /\ Introduced(w, x) => Introduced(v, x)
           /\ FinAfterData(w, x) => FinAfterData(v, x)
           /\ \A n \in Int : Chain(w, x, n) => Chain(v, x, n)
           /\ \A n, m \in Int : Ends(w, x, n, m) => Ends(v, x, n, m)
           /\ \A t \in Int : Below(w, x, t) => Below(v, x, t)
  <1>1. "syn" \in FrameTypes /\ "data" \in FrameTypes /\ "fin" \in FrameTypes
    BY DEF FrameTypes
  <1> QED
    BY <1>1, SameSyn, SameFin, SameData, SameOrder

\* A step that is about other streams.
Spares(x) ==
    /\ \A t \in Sides :
          /\ closed'[t][x] = closed[t][x] /\ buf'[t][x] = buf[t][x] /\ pump'[t][x] = pump[t][x]
          /\ taken'[t][x] = taken[t][x] /\ got'[t][x] = got[t][x]
          /\ x \in streams'[t] <=> x \in streams[t]
          /\ Same(wire[t], wire'[t], x, FrameTypes)
    /\ pending' = x => pending = x
    /\ up' => up

\* The numbers of units are numbers.
LEMMA Numbers ==
    ASSUME Types, NEW t \in Sides, NEW x \in Ids
    PROVE  /\ Awaited(t, x) \in Int /\ NextUnit(t, x) \in Int /\ taken[t][x] \in Nat
           /\ Len(got[t][x]) \in Nat /\ Len(buf[t][x]) \in Nat /\ Lag(t, x) \in {0, 1}
           /\ wire[t] \in Seq(Frames) /\ pump[t][x] \in Stages
           /\ closed[t][x] \in BOOLEAN
  <1>1. /\ got[t][x] \in Seq(Nat) /\ buf[t][x] \in Seq(Nat) /\ taken[t][x] \in Nat
        /\ wire[t] \in Seq(Frames) /\ pump[t][x] \in Stages /\ closed[t][x] \in BOOLEAN
    BY DEF Types
  <1>2. Lag(t, x) \in {0, 1}
    BY DEF Lag
  <1>3. Len(got[t][x]) \in Nat /\ Len(buf[t][x]) \in Nat
    BY <1>1
  <1>4. Awaited(t, x) \in Int
    <2>1. \A a, b \in Nat, c \in {0, 1} : a + b + 1 - c \in Int
      OBVIOUS
    <2> QED
      BY <1>2, <1>3, <2>1, Zenon DEF Awaited
  <1>5. NextUnit(t, x) \in Int
    BY <1>1 DEF NextUnit, Dst
  <1> QED
    BY <1>1, <1>2, <1>3, <1>4, <1>5

\* The two sides are each other's peer.
LEMMA SidesAre == Relay \in Sides /\ Origin \in Sides /\ Relay # Origin /\ Peer(Relay) = Origin
                  /\ Peer(Origin) = Relay /\ Sides = {Relay, Origin}
                  /\ \A t \in Sides : Peer(t) \in Sides /\ Peer(t) # t /\ Peer(Peer(t)) = t
  BY DEF Sides, Relay, Origin, Peer

\* A direction whose ends and wire are spared is as it was.
LEMMA SparedFlow ==
    ASSUME Types, Types', NEW t \in Sides, NEW x \in Ids, Spares(x), Flow(t, x)
    PROVE  Flow(t, x)'
  <1> DEFINE p == Peer(t)
  <1>1. p \in Sides
    BY SidesAre
  <1>2. /\ closed'[t][x] = closed[t][x] /\ pump'[t][x] = pump[t][x] /\ taken'[t][x] = taken[t][x]
        /\ Same(wire[t], wire'[t], x, FrameTypes) /\ (up' => up)
        /\ buf'[p][x] = buf[p][x] /\ pump'[p][x] = pump[p][x] /\ got'[p][x] = got[p][x]
        /\ pump'[Origin][x] = pump[Origin][x]
    BY <1>1, SidesAre DEF Spares
  <1>3. Lag(p, x)' = Lag(p, x) /\ (Waits(x)' <=> Waits(x))
    BY <1>2 DEF Lag, Waits
  <1>4. Awaited(p, x)' = Awaited(p, x) /\ NextUnit(t, x)' = NextUnit(t, x)
    BY <1>2, <1>3 DEF Awaited, NextUnit
  <1>5. MaySend(t, x)' => MaySend(t, x)
    BY <1>2 DEF MaySend
  <1>6. /\ Awaited(p, x) \in Int /\ NextUnit(t, x) \in Int /\ taken[t][x] \in Int
        /\ wire[t] \in Seq(Frames) /\ wire'[t] \in Seq(Frames)
    <2>1. Awaited(p, x) \in Int /\ NextUnit(t, x) \in Int /\ taken[t][x] \in Nat
      BY <1>1, Numbers
    <2>2. wire[t] \in Seq(Frames) /\ wire'[t] \in Seq(Frames)
      BY DEF Types
    <2> QED
      BY <2>1, <2>2
  <1>7. Below(wire'[t], x, taken'[t][x])
    BY <1>2, <1>6, SameAll DEF Flow
  <1>8. Written(t, p, x)'
    BY <1>2 DEF Flow, Written
  <1>9. Pumped(p, x)' => Carried(t, p, x)'
    <2> SUFFICES ASSUME Pumped(p, x) PROVE Carried(t, p, x)'
      BY <1>2 DEF Pumped
    <2>1. Carried(t, p, x)
      BY DEF Flow
    <2>2. Chain(wire'[t], x, Awaited(p, x)')
      BY <1>2, <1>4, <1>6, <2>1, SameAll DEF Carried
    <2>3. MaySend(t, x)' => Ends(wire'[t], x, Awaited(p, x)', NextUnit(t, x)')
      BY <1>2, <1>4, <1>5, <1>6, <2>1, SameAll DEF Carried
    <2> QED
      BY <1>2, <1>3, <1>4, <2>1, <2>2, <2>3 DEF Carried
  <1> QED
    BY <1>7, <1>8, <1>9 DEF Flow

\* A stream that a step is not about is as it was.
LEMMA Spared ==
    ASSUME Types, Types', NEW x \in Ids, Spares(x), Stream(x)
    PROVE  Stream(x)'
  <1>1. Flow(Relay, x)' /\ Flow(Origin, x)'
    BY SparedFlow, SidesAre DEF Stream
  <1>2. \A t \in Sides :
          /\ closed'[t][x] = closed[t][x] /\ buf'[t][x] = buf[t][x] /\ pump'[t][x] = pump[t][x]
          /\ taken'[t][x] = taken[t][x] /\ (x \in streams'[t] <=> x \in streams[t])
    BY DEF Spares
  <1>3. \A t \in Sides :
          /\ HasSyn(wire'[t], x) <=> HasSyn(wire[t], x)
          /\ HasData(wire'[t], x) <=> HasData(wire[t], x)
          /\ HasFin(wire'[t], x) <=> HasFin(wire[t], x)
          /\ OneSyn(wire[t], x) => OneSyn(wire'[t], x)
          /\ Introduced(wire[t], x) => Introduced(wire'[t], x)
          /\ FinAfterData(wire[t], x) => FinAfterData(wire'[t], x)
    <2> TAKE t \in Sides
    <2>1. wire[t] \in Seq(Frames) /\ wire'[t] \in Seq(Frames) /\ Same(wire[t], wire'[t], x, FrameTypes)
      BY DEF Types, Spares
    <2> QED
      BY <2>1, SameAll
  <1>4. (pending' = x => pending = x) /\ (up' => up)
    BY DEF Spares
  <1>5. Known(x)'
    BY <1>2, <1>3, <1>4, SidesAre DEF Stream, Known
  <1>6. Fins(x)'
    BY <1>2, <1>3, <1>4, SidesAre DEF Stream, Fins, Waits
  <1> QED
    BY <1>1, <1>5, <1>6 DEF Stream

\* A direction whose numbers are as they were.
LEMMA SameFlow ==
    ASSUME NEW t \in Sides, NEW x \in Ids, Flow(t, x), wire'[t] = wire[t], taken'[t][x] = taken[t][x],
           buf'[Peer(t)][x] = buf[Peer(t)][x], got'[Peer(t)][x] = got[Peer(t)][x],
           Waits(x)' <=> Waits(x), Pumped(Peer(t), x)' => Pumped(Peer(t), x),
           NextUnit(t, x)' = NextUnit(t, x), MaySend(t, x)' => MaySend(t, x)
    PROVE  Flow(t, x)'
  <1> DEFINE p == Peer(t)
  <1>1. Lag(p, x)' = Lag(p, x)
    BY DEF Lag
  <1>2. Awaited(p, x)' = Awaited(p, x)
    BY <1>1 DEF Awaited
  <1>3. Written(t, p, x)' /\ Below(wire'[t], x, taken'[t][x])
    BY DEF Flow, Written
  <1>4. ASSUME Pumped(p, x)' PROVE Carried(t, p, x)'
    <2>1. Carried(t, p, x)
      BY <1>4 DEF Flow
    <2> QED
      BY <1>1, <1>2, <2>1 DEF Carried
  <1> QED
    BY <1>3, <1>4 DEF Flow

\* A step is about one stream.
LEMMA Whole ==
    ASSUME MuxInv, Types', NEW s \in Ids, \A x \in Ids \ {s} : Spares(x), Stream(s)'
    PROVE  MuxInv'
  <1> SUFFICES ASSUME NEW x \in Ids, x # s PROVE Stream(x)'
    BY DEF MuxInv
  <1> QED
    BY Spared DEF MuxInv

-----------------------------------------------------------------------------
(* The pumps, away from the wire *)

\* Pumps that go from one stage to another, and do nothing else.
MoveOk(side, a, b) ==
    \/ side = Relay /\ a = "none" /\ b \in {"open", "done"}
    \/ a \in {"connect", "poll", "drain", "check"} /\ b \in {"check", "end", "drain", "poll"}

\* A pump that only moves on keeps the invariant.
LEMMA MuxMoves ==
    ASSUME MuxInv, NEW side \in Sides, NEW s \in Ids, NEW b,
           MoveOk(side, pump[side][s], b), pump' = [pump EXCEPT ![side][s] = b],
           UNCHANGED <<up, wire, streams, pending, closed, buf, taken, got>>
    PROVE  MuxInv'
  <1>1. b \in Stages
    BY DEF MoveOk, Stages
  <1>2. /\ pump' \in [Sides -> [Ids -> Stages]] /\ pump'[side][s] = b
        /\ \A t \in Sides, x \in Ids : t # side \/ x # s => pump'[t][x] = pump[t][x]
    BY <1>1, Put DEF MuxInv, Types
  <1>3. Types'
    BY <1>2 DEF MuxInv, Types
  <1>4. \A x \in Ids \ {s} : Spares(x)
    BY <1>2, SameRefl DEF Spares
  <1>5. Stream(s)
    BY DEF MuxInv
  <1>6. Waits(s)' <=> Waits(s)
    BY <1>2, SidesAre DEF Waits, MoveOk
  <1>7. Known(s)'
    BY <1>2, <1>5, SidesAre DEF Stream, Known, MoveOk
  <1>8. Fins(s)'
    BY <1>2, <1>5, <1>6, SidesAre DEF Stream, Fins, MoveOk
  <1>9. ASSUME NEW t \in Sides, Flow(t, s) PROVE Flow(t, s)'
    <2>1. Pumped(Peer(t), s)' => Pumped(Peer(t), s)
      BY <1>2, SidesAre DEF Pumped, MoveOk
    <2>2. NextUnit(t, s)' = NextUnit(t, s)
      BY <1>2 DEF NextUnit, MoveOk
    <2>3. MaySend(t, s)' => MaySend(t, s)
      BY <1>2 DEF MaySend, MoveOk
    <2> QED
      BY <1>6, <1>9, <2>1, <2>2, <2>3, SameFlow
  <1>10. Stream(s)'
    BY <1>5, <1>7, <1>8, <1>9, SidesAre DEF Stream
  <1> QED
    BY <1>3, <1>4, <1>10, Whole

\* A unit is taken from the socket.
LEMMA MuxPollIn ==
    ASSUME MuxInv, NEW side \in Sides, NEW s \in Ids, NEW hup \in BOOLEAN, PollIn(side, s, hup)
    PROVE  MuxInv'
  <1> DEFINE b == IF closed[side][s] THEN "end" ELSE IF hup THEN "sendhup" ELSE "send"
  <1>1. /\ pump[side][s] = "poll" /\ pump' = [pump EXCEPT ![side][s] = b]
        /\ taken' = [taken EXCEPT ![side][s] = taken[side][s] + 1]
        /\ UNCHANGED <<up, wire, streams, pending, closed, buf, got>>
    BY DEF PollIn, At, Goto, link, mux, conn
  <1>2. /\ b \in Stages /\ b \in {"end", "send", "sendhup"} /\ (closed[side][s] => b = "end")
        /\ (~closed[side][s] => b # "end")
    BY DEF Stages
  <1> HIDE DEF b
  <1>3. taken[side][s] \in Nat /\ taken[side][s] + 1 \in Nat
    BY DEF MuxInv, Types
  <1>4. /\ pump' \in [Sides -> [Ids -> Stages]] /\ pump'[side][s] = b
        /\ \A t \in Sides, x \in Ids : t # side \/ x # s => pump'[t][x] = pump[t][x]
    BY <1>1, <1>2, Put DEF MuxInv, Types
  <1>5. /\ taken' \in [Sides -> [Ids -> Nat]] /\ taken'[side][s] = taken[side][s] + 1
        /\ \A t \in Sides, x \in Ids : t # side \/ x # s => taken'[t][x] = taken[t][x]
    BY <1>1, <1>3, Put DEF MuxInv, Types
  <1>6. Types'
    BY <1>1, <1>4, <1>5 DEF MuxInv, Types
  <1>7. \A x \in Ids \ {s} : Spares(x)
    BY <1>1, <1>4, <1>5, SameRefl DEF Spares
  <1>8. Stream(s)
    BY DEF MuxInv
  <1>9. Waits(s)' <=> Waits(s)
    BY <1>1, <1>2, <1>4, SidesAre DEF Waits
  <1>10. Known(s)'
    BY <1>1, <1>2, <1>4, <1>8, SidesAre DEF Stream, Known
  <1>11. Fins(s)'
    BY <1>1, <1>2, <1>4, <1>5, <1>8, <1>9, SidesAre DEF Stream, Fins
  <1>12. ASSUME NEW t \in Sides, t # side, Flow(t, s) PROVE Flow(t, s)'
    <2>1. Pumped(Peer(t), s)' => Pumped(Peer(t), s)
      BY <1>1, <1>4, SidesAre DEF Pumped
    <2>2. NextUnit(t, s)' = NextUnit(t, s)
      BY <1>4, <1>5, <1>12 DEF NextUnit
    <2>3. MaySend(t, s)' => MaySend(t, s)
      BY <1>1, <1>4, <1>12 DEF MaySend
    <2> QED
      BY <1>1, <1>5, <1>9, <1>12, <2>1, <2>2, <2>3, SameFlow
  <1>13. ASSUME Flow(side, s) PROVE Flow(side, s)'
    <2> DEFINE p == Peer(side)
    <2>0. p \in Sides /\ p # side /\ wire[side] \in Seq(Frames)
      BY SidesAre DEF MuxInv, Types
    <2>1. Lag(p, s)' = Lag(p, s) /\ (Pumped(p, s)' <=> Pumped(p, s))
      BY <1>4, <1>9, <2>0 DEF Lag, Pumped
    <2>2. Awaited(p, s)' = Awaited(p, s) /\ Awaited(p, s) \in Int /\ Len(got[p][s]) \in Nat
      BY <1>1, <2>0, <2>1, Numbers DEF Awaited, MuxInv
    <2>3. MaySend(side, s)' => MaySend(side, s) /\ NextUnit(side, s)' = NextUnit(side, s)
      BY <1>1, <1>2, <1>3, <1>4, <1>5 DEF MaySend, NextUnit
    <2>4. Below(wire'[side], s, taken'[side][s])
      <3>1. Below(wire[side], s, taken[side][s])
        BY <1>13 DEF Flow
      <3>2. \A i \in Nat : Holds(wire[side], s, "data", i) => wire[side][i].unit \in Nat
        <4>1. \A i \in DOMAIN wire[side] : wire[side][i] \in Frames
          BY <2>0
        <4> QED
          BY <4>1 DEF Frames, Holds
      <3> QED
        BY <1>1, <1>3, <1>5, <3>1, <3>2 DEF Below
    <2>5. Written(side, p, s)'
      BY <1>1, <1>3, <1>5, <1>13, <2>2 DEF Flow, Written
    <2>6. ASSUME Pumped(p, s)' PROVE Carried(side, p, s)'
      <3>1. Carried(side, p, s)
        BY <1>13, <2>1, <2>6 DEF Flow
      <3>2. Awaited(p, s)' <= taken'[side][s] + 1
        BY <1>3, <1>5, <2>2, <3>1 DEF Carried
      <3> QED
        BY <1>1, <2>1, <2>2, <2>3, <3>1, <3>2 DEF Carried
    <2> QED
      BY <2>4, <2>5, <2>6 DEF Flow
  <1>14. Stream(s)'
    BY <1>8, <1>10, <1>11, <1>12, <1>13, SidesAre DEF Stream
  <1> QED
    BY <1>6, <1>7, <1>14, Whole

\* Units put in the buffer, all of it written to the socket.
LEMMA Joined ==
    ASSUME NEW a \in Seq(Nat), NEW b \in Seq(Nat),
           \A i \in DOMAIN a : a[i] = i, \A i \in DOMAIN b : b[i] = Len(a) + i
    PROVE  /\ a \o b \in Seq(Nat) /\ Len(a \o b) = Len(a) + Len(b)
           /\ \A i \in DOMAIN (a \o b) : (a \o b)[i] = i
  <1>1. /\ a \o b \in Seq(Nat) /\ Len(a \o b) = Len(a) + Len(b) /\ Len(a) \in Nat /\ Len(b) \in Nat
        /\ DOMAIN (a \o b) = 1 .. Len(a) + Len(b) /\ DOMAIN a = 1 .. Len(a) /\ DOMAIN b = 1 .. Len(b)
        /\ \A i \in 1 .. Len(a) + Len(b) : (a \o b)[i] = IF i <= Len(a) THEN a[i] ELSE b[i - Len(a)]
    OBVIOUS
  <1> DEFINE c == a \o b
  <1>2. c \in Seq(Nat) /\ DOMAIN c = 1 .. Len(a) + Len(b)
        /\ \A i \in 1 .. Len(a) + Len(b) : c[i] = IF i <= Len(a) THEN a[i] ELSE b[i - Len(a)]
    BY <1>1
  <1> HIDE DEF c
  <1>3. ASSUME NEW i \in 1 .. Len(a) + Len(b) PROVE c[i] = i
    <2>1. CASE i <= Len(a)
      <3>1. i \in 1 .. Len(a)
        BY <1>1, <2>1
      <3>2. a[i] = i
        BY <1>1, <3>1
      <3> QED
        BY <1>2, <2>1, <3>2
    <2>2. CASE ~(i <= Len(a))
      <3>1. i - Len(a) \in 1 .. Len(b)
        BY <1>1, <2>2
      <3>2. b[i - Len(a)] = Len(a) + (i - Len(a)) /\ c[i] = b[i - Len(a)]
        BY <1>1, <1>2, <2>2, <3>1
      <3> QED
        BY <1>1, <3>2
    <2> QED
      BY <2>1, <2>2
  <1>4. \A i \in DOMAIN c : c[i] = i
    BY <1>2, <1>3
  <1> QED
    BY <1>1, <1>4 DEF c

\* Everything buffered is written to the socket.
LEMMA MuxDrain ==
    ASSUME MuxInv, NEW side \in Sides, NEW s \in Ids, Drain(side, s)
    PROVE  MuxInv'
  <1> DEFINE all == got[side][s] \o buf[side][s]
  <1>1. /\ pump[side][s] = "drain" /\ got' = [got EXCEPT ![side][s] = all]
        /\ buf' = [buf EXCEPT ![side][s] = <<>>]
        /\ UNCHANGED <<up, wire, streams, pending, closed, pump, taken>>
    BY DEF Drain, At, Unread, link, mux
  <1>2. got[side][s] \in Seq(Nat) /\ buf[side][s] \in Seq(Nat) /\ <<>> \in Seq(Nat)
    BY DEF MuxInv, Types
  <1>3. all \in Seq(Nat)
    BY <1>2
  <1> HIDE DEF all
  <1>4. /\ got' \in [Sides -> [Ids -> Seq(Nat)]] /\ got'[side][s] = all
        /\ \A t \in Sides, x \in Ids : t # side \/ x # s => got'[t][x] = got[t][x]
    BY <1>1, <1>3, Put DEF MuxInv, Types
  <1>5. /\ buf' \in [Sides -> [Ids -> Seq(Nat)]] /\ buf'[side][s] = <<>>
        /\ \A t \in Sides, x \in Ids : t # side \/ x # s => buf'[t][x] = buf[t][x]
    BY <1>1, <1>2, Put DEF MuxInv, Types
  <1>6. Types'
    BY <1>1, <1>4, <1>5 DEF MuxInv, Types
  <1>7. \A x \in Ids \ {s} : Spares(x)
    BY <1>1, <1>4, <1>5, SameRefl DEF Spares
  <1>8. Stream(s)
    BY DEF MuxInv
  <1>9. Waits(s)' <=> Waits(s)
    BY <1>1 DEF Waits
  <1>10. Known(s)'
    BY <1>1, <1>8 DEF Stream, Known
  <1>11. Fins(s)'
    <2>1. Waits(s) => buf'[Origin][s] = buf[Origin][s]
      BY <1>1, <1>5, SidesAre DEF Waits
    <2> QED
      BY <1>1, <1>8, <1>9, <2>1 DEF Stream, Fins
  <1>12. ASSUME NEW t \in Sides, Peer(t) # side, Flow(t, s) PROVE Flow(t, s)'
    <2>1. NextUnit(t, s)' = NextUnit(t, s) /\ (MaySend(t, s)' <=> MaySend(t, s))
          /\ (Pumped(Peer(t), s)' <=> Pumped(Peer(t), s))
      BY <1>1 DEF NextUnit, MaySend, Pumped
    <2> QED
      BY <1>1, <1>4, <1>5, <1>9, <1>12, <2>1, SidesAre, SameFlow
  <1>13. ASSUME NEW t \in Sides, Peer(t) = side, Flow(t, s) PROVE Flow(t, s)'
    <2>0. Pumped(side, s) /\ Lag(side, s) = 0 /\ Lag(side, s)' = 0
      BY <1>1 DEF Pumped, Lag, Waits
    <2>1. Carried(t, side, s) /\ Written(t, side, s)
      BY <1>13, <2>0 DEF Flow
    <2>2. /\ \A i \in DOMAIN got[side][s] : got[side][s][i] = i
          /\ \A i \in DOMAIN buf[side][s] : buf[side][s][i] = Len(got[side][s]) + i
      <3>1. \A i \in DOMAIN buf[side][s] : Len(got[side][s]) + i - 0 = Len(got[side][s]) + i
        BY <1>2
      <3> QED
        BY <2>0, <2>1, <3>1 DEF Written, Carried
    <2>3. Len(all) = Len(got[side][s]) + Len(buf[side][s]) /\ \A i \in DOMAIN all : all[i] = i
      BY <1>2, <2>2, Joined DEF all
    <2>4. /\ Len(got[side][s]) \in Nat /\ Len(buf[side][s]) \in Nat
          /\ taken[t][s] \in Nat /\ Len(all) \in Nat
      BY <1>2, <1>3, SMTT(30) DEF MuxInv, Types
    <2>5. Awaited(side, s) = Len(all) + 1 /\ Awaited(side, s)' = Len(all) + 1
      <3>1. Len(buf'[side][s]) = 0
        BY <1>5
      <3> QED
        BY <1>4, <2>0, <2>3, <2>4, <3>1 DEF Awaited
    <2>6. Written(t, side, s)'
      <3>1. Len(all) <= taken[t][s]
        BY <2>1, <2>4, <2>5 DEF Carried
      <3> QED
        BY <1>1, <1>4, <2>3, <3>1 DEF Written
    <2>7. Carried(t, side, s)'
      <3>1. DOMAIN buf'[side][s] = {}
        BY <1>5
      <3>2. NextUnit(t, s)' = NextUnit(t, s) /\ (MaySend(t, s)' <=> MaySend(t, s))
        BY <1>1 DEF NextUnit, MaySend
      <3> QED
        BY <1>1, <2>1, <2>5, <3>1, <3>2 DEF Carried
    <2> QED
      BY <1>1, <1>13, <2>6, <2>7 DEF Flow
  <1>14. Stream(s)'
    BY <1>8, <1>10, <1>11, <1>12, <1>13, SidesAre DEF Stream
  <1> QED
    BY <1>6, <1>7, <1>14, Whole

\* What was read is lost, and nothing more will be written.
LEMMA MuxDrainFails ==
    ASSUME MuxInv, NEW side \in Sides, NEW s \in Ids, DrainFails(side, s)
    PROVE  MuxInv'
  <1>1. /\ pump[side][s] = "drain" /\ pump' = [pump EXCEPT ![side][s] = "end"]
        /\ buf' = [buf EXCEPT ![side][s] = <<>>]
        /\ UNCHANGED <<up, wire, streams, pending, closed, taken, got>>
    BY DEF DrainFails, At, Goto, Unread, link, mux, sock
  <1>2. /\ pump' \in [Sides -> [Ids -> Stages]] /\ pump'[side][s] = "end"
        /\ \A t \in Sides, x \in Ids : t # side \/ x # s => pump'[t][x] = pump[t][x]
    <2>1. "end" \in Stages
      BY DEF Stages
    <2> QED
      BY <1>1, <2>1, Put DEF MuxInv, Types
  <1>3. /\ buf' \in [Sides -> [Ids -> Seq(Nat)]]
        /\ \A t \in Sides, x \in Ids : t # side \/ x # s => buf'[t][x] = buf[t][x]
    <2>1. <<>> \in Seq(Nat)
      OBVIOUS
    <2> QED
      BY <1>1, <2>1, Put DEF MuxInv, Types
  <1>4. Types'
    BY <1>1, <1>2, <1>3 DEF MuxInv, Types
  <1>5. \A x \in Ids \ {s} : Spares(x)
    BY <1>1, <1>2, <1>3, SameRefl DEF Spares
  <1>6. Stream(s)
    BY DEF MuxInv
  <1>7. Waits(s)' <=> Waits(s)
    BY <1>1, <1>2, SidesAre DEF Waits
  <1>8. Known(s)'
    BY <1>1, <1>2, <1>6, SidesAre DEF Stream, Known
  <1>9. Fins(s)'
    <2>1. Waits(s) => buf'[Origin][s] = buf[Origin][s]
      BY <1>1, <1>3, SidesAre DEF Waits
    <2> QED
      BY <1>1, <1>2, <1>6, <1>7, <2>1, SidesAre DEF Stream, Fins
  <1>10. ASSUME NEW t \in Sides, Peer(t) # side, Flow(t, s) PROVE Flow(t, s)'
    <2>0. t = side
      BY <1>10, SidesAre
    <2>1. NextUnit(t, s)' = NextUnit(t, s)
      BY <1>1, <1>2, <2>0 DEF NextUnit
    <2>2. ~MaySend(t, s)'
      BY <1>1, <1>2, <2>0 DEF MaySend
    <2>3. Pumped(Peer(t), s)' <=> Pumped(Peer(t), s)
      BY <1>2, <1>10, SidesAre DEF Pumped
    <2> QED
      BY <1>1, <1>3, <1>7, <1>10, <2>1, <2>2, <2>3, SidesAre, SameFlow
  <1>11. ASSUME NEW t \in Sides, Peer(t) = side, Flow(t, s) PROVE Flow(t, s)'
    <2>1. ~Pumped(side, s)'
      BY <1>2 DEF Pumped
    <2> QED
      BY <1>1, <1>11, <2>1 DEF Flow, Written
  <1>12. Stream(s)'
    BY <1>6, <1>8, <1>9, <1>10, <1>11, SidesAre DEF Stream
  <1> QED
    BY <1>4, <1>5, <1>12, Whole

\* The first line is taken off the buffer; a closed stream that waits has one.
LEMMA MuxReadDst ==
    ASSUME MuxInv, NEW s \in Ids, ReadDst(s)
    PROVE  MuxInv'
  <1> DEFINE b == buf[Origin][s]
  <1>1. Stream(s)
    BY DEF MuxInv
  <1>2. b # <<>>
    BY <1>1 DEF ReadDst, At, Stream, Fins, Waits
  <1>3. /\ pump[Origin][s] = "dst" /\ pump' = [pump EXCEPT ![Origin][s] = "connect"]
        /\ buf' = [buf EXCEPT ![Origin][s] = Tail(b)]
        /\ UNCHANGED <<up, wire, streams, pending, closed, taken, got>>
    BY <1>2 DEF ReadDst, At, Goto, link, mux, sock
  <1>4. b \in Seq(Nat)
    BY SidesAre DEF MuxInv, Types
  <1> HIDE DEF b
  <1>5. /\ Tail(b) \in Seq(Nat) /\ Len(b) \in Nat /\ Len(Tail(b)) = Len(b) - 1 /\ DOMAIN b = 1 .. Len(b)
        /\ DOMAIN Tail(b) = 1 .. Len(b) - 1 /\ \A i \in 1 .. Len(b) - 1 : Tail(b)[i] = b[i + 1]
    BY <1>2, <1>4
  <1>6. /\ pump' \in [Sides -> [Ids -> Stages]] /\ pump'[Origin][s] = "connect"
        /\ \A t \in Sides, x \in Ids : t # Origin \/ x # s => pump'[t][x] = pump[t][x]
    <2>1. "connect" \in Stages
      BY DEF Stages
    <2> QED
      BY <1>3, <2>1, Put, SidesAre DEF MuxInv, Types
  <1>7. /\ buf' \in [Sides -> [Ids -> Seq(Nat)]] /\ buf'[Origin][s] = Tail(b)
        /\ \A t \in Sides, x \in Ids : t # Origin \/ x # s => buf'[t][x] = buf[t][x]
    <2> PICK c \in Seq(Nat) : c = Tail(b)
      BY <1>5
    <2>1. buf' = [buf EXCEPT ![Origin][s] = c] /\ Origin \in Sides
      BY <1>3, SidesAre
    <2>2. /\ buf' \in [Sides -> [Ids -> Seq(Nat)]] /\ buf'[Origin][s] = c
          /\ \A t \in Sides, x \in Ids : t # Origin \/ x # s => buf'[t][x] = buf[t][x]
      BY <2>1, Put DEF MuxInv, Types
    <2> QED
      BY <2>2
  <1>8. Types'
    BY <1>3, <1>6, <1>7 DEF MuxInv, Types
  <1>9. \A x \in Ids \ {s} : Spares(x)
    BY <1>3, <1>6, <1>7, SameRefl DEF Spares
  <1>10. Waits(s) /\ ~Waits(s)'
    BY <1>3, <1>6 DEF Waits
  <1>11. Known(s)'
    BY <1>1, <1>3, <1>6, SidesAre DEF Stream, Known
  <1>12. Fins(s)'
    BY <1>1, <1>3, <1>6, <1>10, SidesAre DEF Stream, Fins
  <1>13. Flow(Origin, s)'
    <2>1. Flow(Origin, s)
      BY <1>1 DEF Stream
    <2>2. NextUnit(Origin, s)' = NextUnit(Origin, s)
      BY <1>3, <1>6, SidesAre DEF NextUnit
    <2>3. MaySend(Origin, s)' => MaySend(Origin, s)
      BY <1>3, <1>6 DEF MaySend
    <2>4. Lag(Relay, s)' = Lag(Relay, s) /\ (Pumped(Relay, s)' <=> Pumped(Relay, s))
      BY <1>6, SidesAre DEF Lag, Pumped
    <2>5. Awaited(Relay, s)' = Awaited(Relay, s)
      BY <1>3, <1>7, <2>4, SidesAre DEF Awaited
    <2>6. ASSUME Pumped(Relay, s)' PROVE Carried(Origin, Relay, s)'
      <3>1. Carried(Origin, Relay, s) /\ buf'[Relay][s] = buf[Relay][s]
        BY <1>7, <2>1, <2>4, <2>6, SidesAre DEF Flow
      <3> QED
        BY <1>3, <2>2, <2>3, <2>4, <2>5, <3>1 DEF Carried
    <2>7. Written(Origin, Relay, s)' /\ Below(wire'[Origin], s, taken'[Origin][s])
      BY <1>3, <2>1, SidesAre DEF Flow, Written
    <2> QED
      BY <2>6, <2>7, SidesAre DEF Flow
  <1>14. Flow(Relay, s)'
    <2>1. Flow(Relay, s)
      BY <1>1 DEF Stream
    <2>2. NextUnit(Relay, s)' = NextUnit(Relay, s) /\ (MaySend(Relay, s)' <=> MaySend(Relay, s))
      BY <1>3, <1>6, SidesAre DEF NextUnit, MaySend
    <2>3. Lag(Origin, s) = 1 /\ Lag(Origin, s)' = 0 /\ Pumped(Origin, s)
      BY <1>3, <1>10 DEF Lag, Pumped
    <2>4. Len(got[Origin][s]) \in Nat
      BY Numbers, SidesAre DEF MuxInv
    <2>5. Awaited(Origin, s)' = Awaited(Origin, s)
      BY <1>3, <1>5, <1>7, <2>3, <2>4 DEF Awaited, b
    <2>6. Carried(Origin, Origin, s) \/ Carried(Relay, Origin, s)
      BY <2>1, <2>3, SidesAre DEF Flow
    <2>7. Carried(Relay, Origin, s)
      BY <2>1, <2>3, SidesAre DEF Flow
    <2>8. \A i \in DOMAIN buf'[Origin][s] :
              buf'[Origin][s][i] = Len(got'[Origin][s]) + i - Lag(Origin, s)'
      <3> SUFFICES ASSUME NEW i \in 1 .. Len(b) - 1
                   PROVE  Tail(b)[i] = Len(got[Origin][s]) + i - 0
        BY <1>3, <1>5, <1>7, <2>3
      <3>1. i + 1 \in DOMAIN b /\ Tail(b)[i] = b[i + 1]
        BY <1>5
      <3>2. b[i + 1] = Len(got[Origin][s]) + (i + 1) - 1
        BY <2>3, <2>7, <3>1 DEF Carried, b
      <3> QED
        BY <2>4, <3>1, <3>2
    <2>9. Carried(Relay, Origin, s)'
      BY <1>3, <2>2, <2>5, <2>7, <2>8 DEF Carried
    <2>10. Written(Relay, Origin, s)' /\ Below(wire'[Relay], s, taken'[Relay][s])
      BY <1>3, <2>1, SidesAre DEF Flow, Written
    <2> QED
      BY <2>9, <2>10, SidesAre DEF Flow
  <1>15. Stream(s)'
    BY <1>11, <1>12, <1>13, <1>14 DEF Stream
  <1> QED
    BY <1>8, <1>9, <1>15, Whole

\* The pending stream gets its pump.
LEMMA MuxAccept ==
    ASSUME MuxInv, AcceptStream
    PROVE  MuxInv'
  <1>0. pending # NoStream
    BY DEF AcceptStream
  <1> PICK s \in Ids : s = pending
    BY <1>0 DEF MuxInv, Types
  <1>1. /\ pump' = [pump EXCEPT ![Origin][s] = "dst"] /\ pending' = NoStream
        /\ UNCHANGED <<up, wire, streams, closed, buf, taken, got>>
    BY DEF AcceptStream, link, conn, sock
  <1>2. NoStream \notin Ids
    BY TunnelAssumption
  <1>3. Stream(s) /\ pump[Origin][s] = "none" /\ s \in streams[Origin]
    BY DEF MuxInv, Stream, Known
  <1>4. /\ pump' \in [Sides -> [Ids -> Stages]] /\ pump'[Origin][s] = "dst"
        /\ \A t \in Sides, x \in Ids : t # Origin \/ x # s => pump'[t][x] = pump[t][x]
    <2>1. "dst" \in Stages
      BY DEF Stages
    <2> QED
      BY <1>1, <2>1, Put, SidesAre, SMTT(30) DEF MuxInv, Types
  <1>5. Types'
    BY <1>1, <1>4 DEF MuxInv, Types
  <1>6. \A x \in Ids \ {s} : Spares(x)
    BY <1>1, <1>2, <1>4, SameRefl DEF Spares
  <1>7. Waits(s) /\ Waits(s)'
    BY <1>3, <1>4 DEF Waits
  <1>8. Known(s)'
    BY <1>1, <1>2, <1>3, <1>4, SidesAre DEF Stream, Known
  <1>9. Fins(s)'
    BY <1>1, <1>2, <1>3, <1>4, <1>7, SidesAre DEF Stream, Fins
  <1>10. ASSUME NEW t \in Sides, Flow(t, s) PROVE Flow(t, s)'
    <2>1. NextUnit(t, s)' = NextUnit(t, s)
      BY <1>1, <1>2, <1>3, <1>4, SidesAre DEF NextUnit
    <2>2. MaySend(t, s)' => MaySend(t, s)
      BY <1>1, <1>2, <1>3, <1>4, SidesAre DEF MaySend
    <2>3. Pumped(Peer(t), s)' => Pumped(Peer(t), s)
      BY <1>2, <1>3, <1>4, SidesAre DEF Pumped
    <2> QED
      BY <1>1, <1>2, <1>7, <1>10, <2>1, <2>2, <2>3, SidesAre, SameFlow
  <1>11. Stream(s)'
    BY <1>3, <1>8, <1>9, <1>10, SidesAre DEF Stream
  <1> QED
    BY <1>2, <1>5, <1>6, <1>11, Whole

-----------------------------------------------------------------------------
(* The pumps, sending *)

\* The frame is on the wire, unless the connection was lost.
Sends(side, f) == wire' = IF up THEN [wire EXCEPT ![side] = Append(@, f)] ELSE wire

\* Whatever becomes of a send, the wire changes in one of two ways.
LEMMA Outcome ==
    ASSUME NEW side, NEW f, Send(side, f) \/ SendHoldingMu(side, f)
    PROVE  Sends(side, f)
  BY DEF Send, SendHoldingMu, SendOK, SendFails, SendFailsHoldingMu, Sends

\* What a send does to the wires.
LEMMA SendsFrame ==
    ASSUME Types, NEW side \in Sides, NEW f \in Frames, Sends(side, f)
    PROVE  /\ wire' \in [Sides -> Seq(Frames)]
           /\ \A t \in Sides : t # side => wire'[t] = wire[t]
           /\ up => wire'[side] = Append(wire[side], f)
           /\ ~up => wire'[side] = wire[side]
           /\ \A t \in Sides : \A x, T : t # side \/ x # f.id \/ f.type \notin T =>
                  Same(wire[t], wire'[t], x, T)
  <1>1. wire \in [Sides -> Seq(Frames)] /\ wire[side] \in Seq(Frames)
    BY DEF Types
  <1>2. CASE up
    <2>0. \A S : \A a \in Seq(S), b \in S : Append(a, b) \in Seq(S)
      OBVIOUS
    <2> PICK v \in Seq(Frames) : v = Append(wire[side], f)
      BY <1>1, <2>0, Zenon
    <2>1. wire' = [wire EXCEPT ![side] = v]
      BY <1>2 DEF Sends
    <2>2. /\ wire' \in [Sides -> Seq(Frames)] /\ wire'[side] = v
          /\ \A t \in Sides : t # side => wire'[t] = wire[t]
      BY <1>1, <2>1, PutWire
    <2>3. \A x, T : x # f.id \/ f.type \notin T => Same(wire[side], v, x, T)
      BY <1>1, SentOther
    <2> QED
      BY <1>2, <2>2, <2>3, SameRefl
  <1>3. CASE ~up
    BY <1>1, <1>3, SameRefl DEF Sends
  <1> QED
    BY <1>2, <1>3

\* The data of a direction after a step of its sender: as it was, or with the next
\* unit at its end.
LEMMA SentFlow ==
    ASSUME Types, Types', NEW t \in Sides, NEW x \in Ids, Flow(t, x),
           buf'[Peer(t)][x] = buf[Peer(t)][x], got'[Peer(t)][x] = got[Peer(t)][x],
           Waits(x)' <=> Waits(x), Pumped(Peer(t), x)' => Pumped(Peer(t), x),
           taken'[t][x] >= taken[t][x],
           \/ /\ Same(wire[t], wire'[t], x, {"data"})
              /\ MaySend(t, x)' => MaySend(t, x) /\ NextUnit(t, x)' = NextUnit(t, x)
           \/ \E f \in Frames :
                 /\ f.id = x /\ f.type = "data" /\ wire'[t] = Append(wire[t], f)
                 /\ MaySend(t, x) /\ f.unit = NextUnit(t, x) /\ f.unit <= taken'[t][x]
                 /\ MaySend(t, x)' => NextUnit(t, x)' = f.unit + 1
    PROVE  Flow(t, x)'
  <1> DEFINE p == Peer(t)
  <1>1. p \in Sides
    BY SidesAre
  <1>2. Lag(p, x)' = Lag(p, x)
    BY DEF Lag
  <1>3. Awaited(p, x)' = Awaited(p, x) /\ Awaited(p, x) \in Int
    BY <1>1, <1>2, Numbers DEF Awaited
  <1>4. /\ wire[t] \in Seq(Frames) /\ wire'[t] \in Seq(Frames) /\ taken[t][x] \in Nat
        /\ taken'[t][x] \in Nat /\ Len(got[p][x]) \in Nat /\ NextUnit(t, x) \in Int
    <2>1. Len(got[p][x]) \in Nat /\ NextUnit(t, x) \in Int
      BY <1>1, Numbers
    <2> QED
      BY <2>1 DEF Types
  <1>5. Written(t, p, x)'
    BY <1>4 DEF Flow, Written
  <1>6. Below(wire[t], x, taken'[t][x])
    <2>1. \A i \in Nat : Holds(wire[t], x, "data", i) => wire[t][i].unit \in Nat
      <3>1. \A i \in DOMAIN wire[t] : wire[t][i] \in Frames
        BY <1>4
      <3> QED
        BY <3>1 DEF Frames, Holds
    <2> QED
      BY <1>4, <2>1 DEF Flow, Below
  <1>7. CASE /\ Same(wire[t], wire'[t], x, {"data"})
             /\ MaySend(t, x)' => MaySend(t, x) /\ NextUnit(t, x)' = NextUnit(t, x)
    <2>1. "data" \in {"data"}
      OBVIOUS
    <2>2. /\ \A n \in Int : Chain(wire[t], x, n) => Chain(wire'[t], x, n)
          /\ \A n, m \in Int : Ends(wire[t], x, n, m) => Ends(wire'[t], x, n, m)
          /\ \A n \in Int : Below(wire[t], x, n) => Below(wire'[t], x, n)
      BY <1>4, <1>7, <2>1, SameData
    <2>3. Below(wire'[t], x, taken'[t][x])
      BY <1>4, <1>6, <2>2
    <2>4. ASSUME Pumped(p, x)' PROVE Carried(t, p, x)'
      <3>1. Carried(t, p, x)
        BY <2>4 DEF Flow
      <3>2. Awaited(p, x)' <= taken'[t][x] + 1
        BY <1>3, <1>4, <3>1 DEF Carried
      <3>3. Chain(wire'[t], x, Awaited(p, x)')
        BY <1>3, <2>2, <3>1 DEF Carried
      <3>4. MaySend(t, x)' => Ends(wire'[t], x, Awaited(p, x)', NextUnit(t, x)')
        BY <1>3, <1>4, <1>7, <2>2, <3>1 DEF Carried
      <3> QED
        BY <1>2, <3>1, <3>2, <3>3, <3>4 DEF Carried
    <2> QED
      BY <1>5, <2>3, <2>4 DEF Flow
  <1>8. CASE \E f \in Frames :
                 /\ f.id = x /\ f.type = "data" /\ wire'[t] = Append(wire[t], f)
                 /\ MaySend(t, x) /\ f.unit = NextUnit(t, x) /\ f.unit <= taken'[t][x]
                 /\ MaySend(t, x)' => NextUnit(t, x)' = f.unit + 1
    <2> PICK f \in Frames :
                 /\ f.id = x /\ f.type = "data" /\ wire'[t] = Append(wire[t], f)
                 /\ MaySend(t, x) /\ f.unit = NextUnit(t, x) /\ f.unit <= taken'[t][x]
                 /\ MaySend(t, x)' => NextUnit(t, x)' = f.unit + 1
      BY <1>8
    <2>1. /\ \A n \in Int : Below(wire[t], x, n) /\ f.unit <= n => Below(wire'[t], x, n)
          /\ \A n \in Int : Chain(wire[t], x, n) /\ Ends(wire[t], x, n, f.unit) =>
                  Chain(wire'[t], x, n) /\ Ends(wire'[t], x, n, f.unit + 1)
      BY <1>4, SentData
    <2>2. Below(wire'[t], x, taken'[t][x])
      BY <1>4, <1>6, <2>1
    <2>3. ASSUME Pumped(p, x)' PROVE Carried(t, p, x)'
      <3>1. Carried(t, p, x)
        BY <2>3 DEF Flow
      <3>2. Awaited(p, x)' <= taken'[t][x] + 1
        BY <1>3, <1>4, <3>1 DEF Carried
      <3>3. Chain(wire'[t], x, Awaited(p, x)') /\ Ends(wire'[t], x, Awaited(p, x)', f.unit + 1)
        BY <1>3, <2>1, <3>1 DEF Carried
      <3> QED
        BY <1>2, <3>1, <3>2, <3>3 DEF Carried
    <2> QED
      BY <1>5, <2>2, <2>3 DEF Flow
  <1> QED
    BY <1>7, <1>8

\* open_stream: the relay knows the stream and introduces it.
LEMMA MuxOpen ==
    ASSUME MuxInv, NEW s \in Ids, OpenStream(s)
    PROVE  MuxInv'
  <1> DEFINE f == Frame("syn", s, Dst)
  <1>1. /\ pump[Relay][s] = "open" /\ pump' = [pump EXCEPT ![Relay][s] = "dst"]
        /\ streams' = [streams EXCEPT ![Relay] = streams[Relay] \union {s}]
        /\ Sends(Relay, f)
        /\ UNCHANGED <<up, pending, closed, buf, taken, got>>
    BY Outcome DEF OpenStream, At, Goto, Registered, conn, sock
  <1>2. f \in Frames /\ f.id = s /\ f.type = "syn"
    BY DEF Frame, Frames, Dst
  <1> HIDE DEF f
  <1>3. Types /\ Stream(s) /\ Relay \in Sides /\ wire[Relay] \in Seq(Frames)
    BY SidesAre DEF MuxInv, Types
  <1>4. /\ wire' \in [Sides -> Seq(Frames)]
        /\ wire'[Origin] = wire[Origin]
        /\ up => wire'[Relay] = Append(wire[Relay], f)
        /\ ~up => wire'[Relay] = wire[Relay]
        /\ \A t \in Sides : \A x, T : x # f.id \/ f.type \notin T =>
                Same(wire[t], wire'[t], x, T)
    BY <1>1, <1>2, <1>3, SendsFrame, SidesAre
  <1>5. /\ pump' \in [Sides -> [Ids -> Stages]] /\ pump'[Relay][s] = "dst"
        /\ \A t \in Sides, x \in Ids : t # Relay \/ x # s => pump'[t][x] = pump[t][x]
    <2>1. "dst" \in Stages
      BY DEF Stages
    <2> QED
      BY <1>1, <1>3, <2>1, Put DEF Types
  <1>6. /\ streams' \in [Sides -> SUBSET Ids] /\ streams'[Relay] = streams[Relay] \union {s}
        /\ streams'[Origin] = streams[Origin]
    BY <1>1, <1>3, SidesAre DEF Types
  <1>7. Types'
    BY <1>1, <1>3, <1>4, <1>5, <1>6 DEF Types
  <1>8. \A x \in Ids \ {s} : Spares(x)
    BY <1>1, <1>2, <1>4, <1>5, <1>6, SidesAre DEF Spares
  <1>9. Waits(s)' <=> Waits(s)
    BY <1>5, SidesAre DEF Waits
  <1>10. s \notin streams[Relay] /\ s \notin streams[Origin] /\ ~HasSyn(wire[Relay], s)
         /\ Introduced(wire[Relay], s) /\ OneSyn(wire[Relay], s)
    BY <1>1, <1>3 DEF Stream, Known
  <1>11. /\ up => HasSyn(wire'[Relay], s)
         /\ OneSyn(wire'[Relay], s) /\ Introduced(wire'[Relay], s)
    <2>1. CASE up
      BY <1>2, <1>3, <1>4, <1>10, <2>1, SentSyn, SentSynOrder
    <2>2. CASE ~up
      BY <1>4, <1>10, <2>2
    <2> QED
      BY <2>1, <2>2
  <1>12. Same(wire[Relay], wire'[Relay], s, {"data", "fin"}) /\ Same(wire[Relay], wire'[Relay], s, {"data"})
    BY <1>2, <1>3, <1>4
  <1>13. /\ HasData(wire'[Relay], s) <=> HasData(wire[Relay], s)
         /\ HasFin(wire'[Relay], s) <=> HasFin(wire[Relay], s)
         /\ FinAfterData(wire[Relay], s) => FinAfterData(wire'[Relay], s)
    <2>1. "data" \in {"data", "fin"} /\ "fin" \in {"data", "fin"} /\ wire'[Relay] \in Seq(Frames)
      BY <1>3, <1>4
    <2> QED
      BY <1>3, <1>12, <2>1, SameData, SameFin, SameOrder
  <1>14. Known(s)'
    BY <1>1, <1>3, <1>4, <1>5, <1>6, <1>10, <1>11, SidesAre DEF Stream, Known
  <1>15. Fins(s)'
    BY <1>1, <1>3, <1>4, <1>5, <1>9, <1>13, SidesAre DEF Stream, Fins
  <1>16. ASSUME NEW t \in Sides, Flow(t, s) PROVE Flow(t, s)'
    <2>1. NextUnit(t, s)' = NextUnit(t, s)
      BY <1>1, <1>5, SidesAre DEF NextUnit
    <2>2. MaySend(t, s)' => MaySend(t, s)
      BY <1>1, <1>5, SidesAre DEF MaySend
    <2>3. Pumped(Peer(t), s)' => Pumped(Peer(t), s)
      BY <1>1, <1>5, SidesAre DEF Pumped
    <2>4. Same(wire[t], wire'[t], s, {"data"})
      BY <1>4, <1>12, SidesAre, SameRefl
    <2>5. taken'[t][s] >= taken[t][s]
      BY <1>1, <1>3 DEF Types
    <2> QED
      BY <1>1, <1>3, <1>7, <1>9, <1>16, <2>1, <2>2, <2>3, <2>4, <2>5, SentFlow
  <1>17. Stream(s)'
    BY <1>3, <1>14, <1>15, <1>16, SidesAre DEF Stream
  <1> QED
    BY <1>7, <1>8, <1>17, Whole

\* The destination line, the head and every unit: a frame of data, or none on a
\* stream that was closed.  The pump goes on, and the count of units may move.
LEMMA MuxSends ==
    ASSUME MuxInv, NEW side \in Sides, NEW s \in Ids, NEW b \in Stages, NEW n \in Nat, NEW k \in Nat,
           wire' = IF MaySend(side, s) THEN [wire EXCEPT ![side] = Append(@, Frame("data", s, k))]
                   ELSE wire,
           pump' = [pump EXCEPT ![side][s] = b],
           taken' = [taken EXCEPT ![side][s] = n],
           UNCHANGED <<up, streams, pending, closed, buf, got>>,
           \/ pump[side][s] = "dst" /\ side = Relay /\ b = "head" /\ k = Dst /\ n = taken[side][s]
           \/ pump[side][s] = "head" /\ side = Relay /\ b = "poll" /\ k = 1 /\ n = 1
           \/ pump[side][s] \in {"send", "sendhup"} /\ b \in {"drain", "end"} /\ k = taken[side][s] /\ n = k
    PROVE  MuxInv'
  <1> DEFINE f == Frame("data", s, k)
  <1>2. f \in Frames /\ f.id = s /\ f.type = "data" /\ f.unit = k
    BY DEF Frame, Frames
  <1>0. /\ MaySend(side, s) => up /\ Sends(side, f)
        /\ ~MaySend(side, s) => wire' = wire
    BY DEF MaySend, Sends
  <1>1. MaySend(side, s) <=> up /\ (closed[side][s] => pump[side][s] \in {"send", "sendhup"})
    BY DEF MaySend
  <1> HIDE DEF f
  <1>3. Types /\ Stream(s) /\ wire[side] \in Seq(Frames) /\ taken[side][s] \in Nat
    BY DEF MuxInv, Types
  <1>4. /\ wire' \in [Sides -> Seq(Frames)]
        /\ \A t \in Sides : t # side => wire'[t] = wire[t]
        /\ MaySend(side, s) => wire'[side] = Append(wire[side], f)
        /\ ~MaySend(side, s) => wire'[side] = wire[side]
        /\ \A t \in Sides : \A x, T : t # side \/ x # f.id \/ f.type \notin T =>
                Same(wire[t], wire'[t], x, T)
    <2>1. CASE MaySend(side, s)
      BY <1>0, <1>2, <1>3, <2>1, SendsFrame
    <2>2. CASE ~MaySend(side, s)
      BY <1>0, <1>3, <2>2, SameRefl DEF Types
    <2> QED
      BY <2>1, <2>2
  <1>5. /\ pump' \in [Sides -> [Ids -> Stages]] /\ pump'[side][s] = b
        /\ \A t \in Sides, x \in Ids : t # side \/ x # s => pump'[t][x] = pump[t][x]
    BY <1>3, Put DEF Types
  <1>6. /\ taken' \in [Sides -> [Ids -> Nat]] /\ taken'[side][s] = n
        /\ \A t \in Sides, x \in Ids : t # side \/ x # s => taken'[t][x] = taken[t][x]
    BY <1>3, Put DEF Types
  <1>7. Types'
    BY <1>3, <1>4, <1>5, <1>6 DEF Types
  <1>8. \A x \in Ids \ {s} : Spares(x)
    <2> SUFFICES ASSUME NEW x \in Ids \ {s} PROVE Spares(x)
      OBVIOUS
    <2>1. \A t \in Sides : Same(wire[t], wire'[t], x, FrameTypes)
      BY <1>2, <1>4
    <2> QED
      BY <1>5, <1>6, <2>1 DEF Spares
  <1>9. Waits(s)' <=> Waits(s)
    BY <1>5, SidesAre DEF Waits
  <1>10. \A t \in Sides : /\ HasSyn(wire'[t], s) <=> HasSyn(wire[t], s)
                          /\ HasFin(wire'[t], s) <=> HasFin(wire[t], s)
                          /\ OneSyn(wire[t], s) => OneSyn(wire'[t], s)
    <2> TAKE t \in Sides
    <2>1. Same(wire[t], wire'[t], s, {"syn", "fin"}) /\ "syn" \in {"syn", "fin"} /\ "fin" \in {"syn", "fin"}
      BY <1>2, <1>4
    <2> QED
      BY <2>1, SameSyn, SameFin
  <1>11. \A t \in Sides :
            /\ HasData(wire'[t], s) => HasData(wire[t], s) \/ t = side
            /\ HasData(wire[t], s) => HasData(wire'[t], s)
            /\ t = side /\ MaySend(side, s) => HasData(wire'[t], s)
            /\ FinAfterData(wire[t], s) => FinAfterData(wire'[t], s)
            /\ Introduced(wire[t], s) /\ HasSyn(wire[t], s) => Introduced(wire'[t], s)
            /\ Introduced(wire[t], s) /\ ~(t = side /\ MaySend(side, s)) => Introduced(wire'[t], s)
    <2> TAKE t \in Sides
    <2>1. CASE wire'[t] = wire[t] /\ ~(t = side /\ MaySend(side, s))
      BY <2>1
    <2>2. CASE t = side /\ MaySend(side, s)
      <3>1. wire'[t] = Append(wire[t], f)
        BY <1>4, <2>2
      <3>2. /\ HasData(wire'[t], s)
            /\ HasSyn(wire[t], s) /\ Introduced(wire[t], s) => Introduced(wire'[t], s)
            /\ FinAfterData(wire[t], s) => FinAfterData(wire'[t], s)
        BY <1>2, <1>3, <2>2, <3>1, SentData
      <3> QED
        BY <2>2, <3>2
    <2> QED
      BY <1>4, <2>1, <2>2
  <1>12. Known(s)'
    <2>1. Known(s)
      BY <1>3 DEF Stream
    <2>2. HasData(wire'[Origin], s) => s \in streams[Relay]
      <3>1. side = Origin => s \in streams[Relay]
        BY <2>1, SidesAre DEF Known
      <3> QED
        BY <1>11, <2>1, <3>1, SidesAre DEF Known
    <2>3. s \notin streams[Origin] => Introduced(wire'[Relay], s)
      <3>1. up /\ side = Relay /\ s \notin streams[Origin] => HasSyn(wire[Relay], s)
        BY <2>1 DEF Known
      <3> QED
        BY <1>1, <1>11, <2>1, <3>1, SidesAre DEF Known
    <2> QED
      BY <1>5, <1>10, <2>1, <2>2, <2>3, SidesAre DEF Known
  <1>13. Fins(s)'
    <2>1. Fins(s)
      BY <1>3 DEF Stream
    <2>2. up /\ ~closed[Relay][s] /\ pump'[Relay][s] \notin {"none", "open", "dst", "done"} =>
              \/ HasData(wire'[Relay], s)
              \/ pump[Relay][s] \notin {"none", "open", "dst", "done"}
      <3>1. up /\ ~closed[Relay][s] /\ side = Relay => MaySend(side, s)
        BY <1>1
      <3> QED
        BY <1>5, <1>11, <3>1, SidesAre
    <2>3. \/ pump'[Relay][s] \in {"none", "open", "dst", "head"}
          \/ pump'[Relay][s] = "done" /\ ~closed[Relay][s]
          => taken'[Relay][s] = 0
      BY <1>5, <1>6, <2>1, SidesAre DEF Fins
    <2> QED
      BY <1>9, <1>10, <1>11, <2>1, <2>2, <2>3, SidesAre DEF Fins
  <1>14. ASSUME NEW t \in Sides, Flow(t, s) PROVE Flow(t, s)'
    <2>1. Pumped(Peer(t), s)' => Pumped(Peer(t), s)
      BY <1>5, SidesAre DEF Pumped
    <2>2. taken'[t][s] >= taken[t][s]
      <3>1. taken[t][s] \in Nat
        BY <1>3 DEF Types
      <3>2. pump[Relay][s] = "head" => taken[Relay][s] = 0
        BY <1>3 DEF Stream, Fins
      <3> QED
        BY <1>6, <3>1, <3>2
    <2>3. CASE t # side
      <3>1. NextUnit(t, s)' = NextUnit(t, s)
        BY <1>5, <1>6, <2>3 DEF NextUnit
      <3>2. MaySend(t, s)' => MaySend(t, s)
        BY <1>5, <2>3 DEF MaySend
      <3>3. Same(wire[t], wire'[t], s, {"data"})
        BY <1>4, <2>3
      <3> QED
        BY <1>3, <1>7, <1>9, <1>14, <2>1, <2>2, <3>1, <3>2, <3>3, SentFlow
    <2>4. CASE t = side /\ MaySend(side, s)
      <3>0. pump[Relay][s] \in {"dst", "head"} => taken[Relay][s] = 0
        BY <1>3 DEF Stream, Fins
      <3>1. f.unit = NextUnit(t, s)
        BY <1>2, <2>4, <3>0, SidesAre DEF NextUnit, Dst
      <3>2. f.unit <= taken'[t][s]
        BY <1>2, <1>6, <2>4, <3>0 DEF Dst
      <3>3. NextUnit(t, s)' = f.unit + 1
        BY <1>2, <1>5, <1>6, <2>4, <3>0, SidesAre DEF NextUnit, Dst
      <3>4. wire'[t] = Append(wire[t], f)
        BY <1>4, <2>4
      <3> QED
        BY <1>2, <1>3, <1>7, <1>9, <1>14, <2>1, <2>2, <2>4, <3>1, <3>2, <3>3, <3>4, SentFlow
    <2>5. CASE t = side /\ ~MaySend(side, s)
      <3>1. ~MaySend(t, s)'
        BY <1>1, <1>5, <2>5 DEF MaySend
      <3>2. Same(wire[t], wire'[t], s, {"data"})
        BY <1>4, <2>5, SameRefl
      <3> QED
        BY <1>3, <1>7, <1>9, <1>14, <2>1, <2>2, <3>1, <3>2, SentFlow
    <2> QED
      BY <2>3, <2>4, <2>5
  <1>15. Stream(s)'
    BY <1>3, <1>12, <1>13, <1>14, SidesAre DEF Stream
  <1> QED
    BY <1>7, <1>8, <1>15, Whole

\* The destination line and the request head, if the stream is open.
LEMMA MuxFirstSends ==
    ASSUME MuxInv, NEW s \in Ids, SendDst(s) \/ SendHead(s)
    PROVE  MuxInv'
  <1>0. Types /\ Relay \in Sides /\ taken[Relay][s] \in Nat /\ Dst \in Nat /\ 1 \in Nat
        /\ "head" \in Stages /\ "poll" \in Stages
    BY SidesAre DEF MuxInv, Types, Dst, Stages
  <1>1. CASE SendDst(s)
    <2>1. /\ pump[Relay][s] = "dst" /\ pump' = [pump EXCEPT ![Relay][s] = "head"]
          /\ UNCHANGED <<up, streams, pending, closed, buf, taken, got>>
          /\ IF closed[Relay][s] THEN wire' = wire ELSE Sends(Relay, Frame("data", s, Dst))
      BY <1>1, Outcome DEF SendDst, At, Goto, conn, sock
    <2>2. taken' = [taken EXCEPT ![Relay][s] = taken[Relay][s]]
      BY <1>0, <2>1 DEF Types
    <2>3. wire' = IF MaySend(Relay, s) THEN [wire EXCEPT ![Relay] = Append(@, Frame("data", s, Dst))]
                  ELSE wire
      BY <2>1 DEF MaySend, Sends
    <2> QED
      BY <1>0, <2>1, <2>2, <2>3, MuxSends
  <1>2. CASE SendHead(s)
    <2>1. /\ pump[Relay][s] = "head" /\ pump' = [pump EXCEPT ![Relay][s] = "poll"]
          /\ taken' = [taken EXCEPT ![Relay][s] = 1]
          /\ UNCHANGED <<up, streams, pending, closed, buf, got>>
          /\ IF closed[Relay][s] THEN wire' = wire ELSE Sends(Relay, Frame("data", s, 1))
      BY <1>2, Outcome DEF SendHead, At, Goto, conn
    <2>2. wire' = IF MaySend(Relay, s) THEN [wire EXCEPT ![Relay] = Append(@, Frame("data", s, 1))]
                  ELSE wire
      BY <2>1 DEF MaySend, Sends
    <2> QED
      BY <1>0, <2>1, <2>2, MuxSends
  <1> QED
    BY <1>1, <1>2

\* The unit in hand, whatever became of the stream meanwhile.
LEMMA MuxSendUnit ==
    ASSUME MuxInv, NEW side \in Sides, NEW s \in Ids, SendUnit(side, s)
    PROVE  MuxInv'
  <1> DEFINE k == taken[side][s]
  <1>0. Types /\ k \in Nat /\ "drain" \in Stages /\ "end" \in Stages
    BY DEF MuxInv, Types, Stages
  <1>1. /\ pump[side][s] \in {"send", "sendhup"}
        /\ UNCHANGED <<up, streams, pending, closed, buf, taken, got>>
        /\ wire' = IF up THEN [wire EXCEPT ![side] = Append(@, Frame("data", s, k))] ELSE wire
    BY DEF SendUnit, SendOK, SendFails, conn, sock
  <1> PICK b \in {"drain", "end"} : pump' = [pump EXCEPT ![side][s] = b]
    BY DEF SendUnit, Goto
  <1>2. taken' = [taken EXCEPT ![side][s] = k]
    BY <1>0, <1>1 DEF Types
  <1>3. wire' = IF MaySend(side, s) THEN [wire EXCEPT ![side] = Append(@, Frame("data", s, k))] ELSE wire
    BY <1>1 DEF MaySend
  <1> QED
    BY <1>0, <1>1, <1>2, <1>3, MuxSends

\* A pump ends: its stream is closed, with a FIN if it was open.
LEMMA MuxPumpEnds ==
    ASSUME MuxInv, NEW side \in Sides, NEW s \in Ids, PumpEnds(side, s)
    PROVE  MuxInv'
  <1> DEFINE f == Frame("fin", s, Dst)
  <1>1. /\ pump[side][s] = "end" /\ pump' = [pump EXCEPT ![side][s] = "done"]
        /\ closed' = [closed EXCEPT ![side][s] = TRUE]
        /\ UNCHANGED <<up, streams, pending, buf, taken, got>>
        /\ IF closed[side][s] THEN wire' = wire ELSE Sends(side, f)
    <2>1. f # NoFrame
      BY DEF NoFrame, Frame
    <2> QED
      BY <2>1, Outcome DEF PumpEnds, At, Goto, Fin, sock
  <1>2. f \in Frames /\ f.id = s /\ f.type = "fin"
    BY DEF Frame, Frames, Dst
  <1> HIDE DEF f
  <1>3. Types /\ Stream(s) /\ wire[side] \in Seq(Frames)
    BY DEF MuxInv, Types
  <1>4. /\ wire' \in [Sides -> Seq(Frames)]
        /\ \A t \in Sides : t # side => wire'[t] = wire[t]
        /\ \/ wire'[side] = wire[side]
           \/ up /\ ~closed[side][s] /\ wire'[side] = Append(wire[side], f)
        /\ \A t \in Sides : \A x, T : t # side \/ x # f.id \/ f.type \notin T =>
                Same(wire[t], wire'[t], x, T)
    <2>1. CASE closed[side][s]
      BY <1>1, <1>3, <2>1, SameRefl DEF Types
    <2>2. CASE ~closed[side][s]
      BY <1>1, <1>2, <1>3, <2>2, SendsFrame
    <2> QED
      BY <2>1, <2>2
  <1>5. /\ pump' \in [Sides -> [Ids -> Stages]] /\ pump'[side][s] = "done"
        /\ \A t \in Sides, x \in Ids : t # side \/ x # s => pump'[t][x] = pump[t][x]
    <2>1. "done" \in Stages
      BY DEF Stages
    <2> QED
      BY <1>1, <1>3, <2>1, Put DEF Types
  <1>6. /\ closed' \in [Sides -> [Ids -> BOOLEAN]] /\ closed'[side][s] = TRUE
        /\ \A t \in Sides, x \in Ids : t # side \/ x # s => closed'[t][x] = closed[t][x]
    BY <1>1, <1>3 DEF Types
  <1>7. Types'
    BY <1>1, <1>3, <1>4, <1>5, <1>6 DEF Types
  <1>8. \A x \in Ids \ {s} : Spares(x)
    <2> SUFFICES ASSUME NEW x \in Ids \ {s} PROVE Spares(x)
      OBVIOUS
    <2>1. \A t \in Sides : Same(wire[t], wire'[t], x, FrameTypes)
      BY <1>2, <1>4
    <2> QED
      BY <1>1, <1>5, <1>6, <2>1 DEF Spares
  <1>9. Waits(s)' <=> Waits(s)
    BY <1>1, <1>5, SidesAre DEF Waits
  <1>10. \A t \in Sides : /\ HasSyn(wire'[t], s) <=> HasSyn(wire[t], s)
                          /\ HasData(wire'[t], s) <=> HasData(wire[t], s)
                          /\ OneSyn(wire[t], s) => OneSyn(wire'[t], s)
                          /\ Introduced(wire[t], s) => Introduced(wire'[t], s)
                          /\ Same(wire[t], wire'[t], s, {"data"})
    <2> TAKE t \in Sides
    <2>1. /\ Same(wire[t], wire'[t], s, {"syn", "data"}) /\ Same(wire[t], wire'[t], s, {"data"})
          /\ "syn" \in {"syn", "data"} /\ "data" \in {"syn", "data"}
          /\ wire[t] \in Seq(Frames) /\ wire'[t] \in Seq(Frames)
      BY <1>2, <1>3, <1>4 DEF Types
    <2> QED
      BY <2>1, SameSyn, SameData, SameOrder
  <1>11. Known(s)'
    BY <1>1, <1>3, <1>5, <1>10, SidesAre DEF Stream, Known
  <1>12. Fins(s)'
    <2>1. Fins(s)
      BY <1>3 DEF Stream
    <2>2. HasFin(wire'[Relay], s) => closed'[Relay][s]
      BY <1>4, <1>6, <2>1, SidesAre DEF Fins
    <2>3. HasFin(wire'[Origin], s) => closed'[Relay][s] \/ ~Waits(s)'
      BY <1>1, <1>4, <1>5, <1>6, <1>9, <2>1, SidesAre DEF Fins, Waits
    <2>4. ASSUME Waits(s)', buf'[Origin][s] = <<>>
          PROVE  /\ FinAfterData(wire'[Relay], s) /\ ~closed'[Origin][s]
      <3>1. side = Relay
        BY <1>1, <1>9, <2>4, SidesAre DEF Waits
      <3>2. up /\ ~closed[Relay][s] => HasData(wire[Relay], s)
        BY <1>1, <1>9, <2>1, <2>4, <3>1 DEF Fins
      <3>3. FinAfterData(wire[Relay], s)
        BY <1>1, <1>9, <2>1, <2>4 DEF Fins
      <3>4. FinAfterData(wire'[Relay], s)
        BY <1>2, <1>3, <1>4, <3>1, <3>2, <3>3, SentFin
      <3> QED
        BY <1>1, <1>6, <1>9, <2>1, <2>4, <3>1, <3>4, SidesAre DEF Fins
    <2>5. \/ pump'[Relay][s] \in {"none", "open", "dst", "head"}
          \/ pump'[Relay][s] = "done" /\ ~closed'[Relay][s]
          => taken'[Relay][s] = 0
      BY <1>1, <1>5, <1>6, <2>1, SidesAre DEF Fins
    <2>6. Waits(s)' /\ buf'[Origin][s] = <<>> => closed'[Relay][s]
      <3>1. Waits(s)' => side = Relay
        BY <1>1, <1>9, SidesAre DEF Waits
      <3> QED
        BY <1>6, <3>1
    <2> QED
      BY <2>2, <2>3, <2>4, <2>5, <2>6 DEF Fins
  <1>13. ASSUME NEW t \in Sides, Flow(t, s) PROVE Flow(t, s)'
    <2>1. Pumped(Peer(t), s)' => Pumped(Peer(t), s)
      BY <1>5, SidesAre DEF Pumped
    <2>2. MaySend(t, s)' => MaySend(t, s) /\ NextUnit(t, s)' = NextUnit(t, s)
      <3>1. CASE t = side
        BY <1>5, <1>6, <3>1 DEF MaySend
      <3>2. CASE t # side
        BY <1>1, <1>5, <1>6, <3>2 DEF MaySend, NextUnit
      <3> QED
        BY <3>1, <3>2
    <2>3. taken'[t][s] >= taken[t][s]
      BY <1>1, <1>3 DEF Types
    <2> QED
      BY <1>1, <1>3, <1>7, <1>9, <1>10, <1>13, <2>1, <2>2, <2>3, SentFlow
  <1>14. Stream(s)'
    BY <1>3, <1>11, <1>12, <1>13, SidesAre DEF Stream
  <1> QED
    BY <1>7, <1>8, <1>14, Whole

-----------------------------------------------------------------------------
(* The readers *)

\* A frame of the peer is taken off the wire, and may be one of another stream.
LEMMA ReadsFrame ==
    ASSUME Types, NEW p \in Sides, wire[p] # <<>>
    PROVE  /\ Head(wire[p]) \in Frames /\ Tail(wire[p]) \in Seq(Frames)
           /\ [wire EXCEPT ![p] = Tail(@)] \in [Sides -> Seq(Frames)]
           /\ [wire EXCEPT ![p] = Tail(@)][p] = Tail(wire[p])
           /\ \A t \in Sides : t # p => [wire EXCEPT ![p] = Tail(@)][t] = wire[t]
           /\ \A x, T : x # Head(wire[p]).id \/ Head(wire[p]).type \notin T =>
                  Same(wire[p], Tail(wire[p]), x, T)
  <1>1. wire \in [Sides -> Seq(Frames)] /\ wire[p] \in Seq(Frames)
    BY DEF Types
  <1>2. Head(wire[p]) \in Frames /\ Tail(wire[p]) \in Seq(Frames)
    BY <1>1
  <1>3. \A x, T : x # Head(wire[p]).id \/ Head(wire[p]).type \notin T =>
            Same(wire[p], Tail(wire[p]), x, T)
    BY <1>1, ReadOther
  <1> QED
    BY <1>1, <1>2, <1>3, PutWire

\* One more unit in the buffer.
LEMMA Buffered ==
    ASSUME NEW b \in Seq(Nat), NEW k \in Nat, NEW n \in Int,
           \A i \in DOMAIN b : b[i] = n + i, k = n + Len(b) + 1
    PROVE  /\ Append(b, k) \in Seq(Nat) /\ Len(Append(b, k)) = Len(b) + 1
           /\ \A i \in DOMAIN Append(b, k) : Append(b, k)[i] = n + i
  <1> DEFINE c == Append(b, k)
  <1>1. /\ c \in Seq(Nat) /\ Len(c) = Len(b) + 1 /\ Len(b) \in Nat
        /\ DOMAIN c = 1 .. Len(b) + 1 /\ DOMAIN b = 1 .. Len(b)
        /\ c[Len(b) + 1] = k /\ \A i \in 1 .. Len(b) : c[i] = b[i]
    OBVIOUS
  <1> HIDE DEF c
  <1>2. ASSUME NEW i \in DOMAIN c PROVE c[i] = n + i
    <2>1. CASE i \in 1 .. Len(b)
      BY <1>1, <2>1
    <2>2. CASE i = Len(b) + 1
      BY <1>1, <2>2
    <2> QED
      BY <1>1, <2>1, <2>2
  <1> QED
    BY <1>1, <1>2 DEF c

\* What one more unit does to the sums.
LEMMA Sums ==
    ASSUME NEW g \in Nat, NEW m \in Nat, NEW l \in {0, 1}
    PROVE  /\ g - l \in Int /\ g + m + 1 - l \in Int
           /\ g + (m + 1) + 1 - l = (g + m + 1 - l) + 1
           /\ (g - l) + m + 1 = g + m + 1 - l
           /\ \A i \in Int : g + i - l = (g - l) + i
  OBVIOUS

\* A unit arrives: the stream is known, and the unit is the one awaited.
LEMMA MuxReadData ==
    ASSUME MuxInv, NEW side \in Sides, ReadData(side)
    PROVE  MuxInv'
  <1> DEFINE p == Peer(side)
             w == wire[p]
             f == Head(w)
  <1>1. p \in Sides /\ p # side /\ Peer(p) = side /\ w # <<>> /\ f.type = "data"
    BY SidesAre DEF ReadData, NextFrame
  <1>2. /\ f \in Frames /\ w \in Seq(Frames) /\ Tail(w) \in Seq(Frames)
        /\ wire' \in [Sides -> Seq(Frames)] /\ wire'[p] = Tail(w)
        /\ \A t \in Sides : t # p => wire'[t] = wire[t]
        /\ \A x, T : x # f.id \/ f.type \notin T => Same(w, Tail(w), x, T)
    <2>1. wire' = [wire EXCEPT ![p] = Tail(@)]
      BY DEF ReadData, Consumed
    <2> QED
      BY <1>1, <2>1, ReadsFrame DEF MuxInv, Types
  <1> PICK s \in Ids : s = f.id
    BY <1>2 DEF Frames
  <1> PICK k \in Nat : k = f.unit
    BY <1>2 DEF Frames
  <1>3. Types /\ Stream(s)
    BY DEF MuxInv
  <1>4. /\ HasData(w, s) /\ ~Introduced(w, s)
        /\ HasSyn(Tail(w), s) <=> HasSyn(w, s)
        /\ \A t \in Int : Below(w, s, t) => k <= t
        /\ \A n \in Int : Chain(w, s, n) =>
               /\ k = n /\ Chain(Tail(w), s, n + 1)
               /\ \A m \in Int : Ends(w, s, n, m) => Ends(Tail(w), s, n + 1, m)
    <2> HIDE DEF p, w
    <2>1. w \in Seq(Frames) /\ w # <<>> /\ Head(w).id = s /\ Head(w).type = "data" /\ Head(w).unit = k
      BY <1>1, <1>2
    <2> HIDE DEF f
    <2> QED
      BY <2>1, ReceivedData
  <1>5. /\ HasData(Tail(w), s) => HasData(w, s)
        /\ HasFin(Tail(w), s) => HasFin(w, s)
        /\ OneSyn(w, s) => OneSyn(Tail(w), s)
        /\ \A t \in Int : Below(w, s, t) => Below(Tail(w), s, t)
    BY <1>1, <1>2, ReceivedLess
  <1>6. s \in streams[side]
    <2>1. CASE side = Origin
      BY <1>3, <1>4, <2>1, SidesAre DEF Stream, Known
    <2>2. CASE side = Relay
      BY <1>3, <1>4, <2>2, SidesAre DEF Stream, Known
    <2> QED
      BY <2>1, <2>2, SidesAre
  <1>7. /\ buf' = [buf EXCEPT ![side][s] = Append(buf[side][s], k)]
        /\ UNCHANGED <<up, streams, pending, closed, pump, taken, got>>
    BY <1>6 DEF ReadData, Pushed, mux, sock
  <1> DEFINE b == buf[side][s]
             c == Append(b, k)
  <1>8. b \in Seq(Nat) /\ Len(b) \in Nat /\ Len(got[side][s]) \in Nat /\ taken[p][s] \in Nat
        /\ Lag(side, s) \in {0, 1}
    <2>1. b \in Seq(Nat)
      BY <1>3 DEF Types
    <2>2. Len(b) \in Nat /\ Len(got[side][s]) \in Nat /\ taken[p][s] \in Nat /\ Lag(side, s) \in {0, 1}
      BY <1>1, <1>3, Numbers
    <2> QED
      BY <2>1, <2>2
  <1>9. c \in Seq(Nat) /\ c # <<>> /\ Len(c) = Len(b) + 1
    <2>1. \A a \in Seq(Nat), j \in Nat :
              Append(a, j) \in Seq(Nat) /\ Append(a, j) # <<>> /\ Len(Append(a, j)) = Len(a) + 1
      OBVIOUS
    <2> QED
      BY <1>8, <2>1, Zenon
  <1> HIDE DEF f, w, c
  <1>10. /\ buf' \in [Sides -> [Ids -> Seq(Nat)]] /\ buf'[side][s] = c
         /\ \A t \in Sides, x \in Ids : t # side \/ x # s => buf'[t][x] = buf[t][x]
    <2>1. buf' = [buf EXCEPT ![side][s] = c]
      BY <1>7 DEF c
    <2> QED
      BY <1>3, <1>9, <2>1, Put DEF Types
  <1>11. Types'
    BY <1>2, <1>3, <1>7, <1>10 DEF Types
  <1>12. \A x \in Ids \ {s} : Spares(x)
    <2> SUFFICES ASSUME NEW x \in Ids \ {s} PROVE Spares(x)
      OBVIOUS
    <2>1. \A t \in Sides : Same(wire[t], wire'[t], x, FrameTypes)
      BY <1>1, <1>2, SameRefl DEF w
    <2> QED
      BY <1>7, <1>10, <2>1 DEF Spares
  <1>13. Waits(s)' <=> Waits(s)
    BY <1>7 DEF Waits
  <1>14. Known(s)'
    BY <1>1, <1>2, <1>3, <1>4, <1>5, <1>6, <1>7, SidesAre DEF Stream, Known, w
  <1>15. Fins(s)'
    <2>1. side = Origin => buf'[Origin][s] # <<>>
      BY <1>9, <1>10
    <2>2. side = Relay => buf'[Origin][s] = buf[Origin][s] /\ wire'[Relay] = wire[Relay]
      BY <1>1, <1>2, <1>10, SidesAre
    <2> QED
      BY <1>1, <1>2, <1>3, <1>5, <1>7, <1>13, <2>1, <2>2, SidesAre DEF Stream, Fins, w
  <1>16. ASSUME Flow(side, s) PROVE Flow(side, s)'
    <2>1. NextUnit(side, s)' = NextUnit(side, s) /\ (MaySend(side, s)' => MaySend(side, s))
          /\ (Pumped(p, s)' => Pumped(p, s))
      BY <1>7 DEF NextUnit, MaySend, Pumped
    <2>2. wire'[side] = wire[side] /\ buf'[p][s] = buf[p][s]
      BY <1>1, <1>2, <1>10
    <2> QED
      BY <1>7, <1>13, <1>16, <2>1, <2>2, SameFlow
  <1>17. ASSUME Flow(p, s) PROVE Flow(p, s)'
    <2>1. Below(wire'[p], s, taken'[p][s]) /\ k <= taken[p][s]
      <3>1. Below(w, s, taken[p][s])
        BY <1>17 DEF Flow, w
      <3> QED
        BY <1>2, <1>4, <1>5, <1>7, <1>8, <3>1
    <2>2. Written(p, side, s)'
      BY <1>1, <1>7, <1>17 DEF Flow, Written
    <2>3. ASSUME Pumped(side, s)' PROVE Carried(p, side, s)'
      <3>1. Carried(p, side, s)
        BY <1>1, <1>7, <1>17, <2>3 DEF Flow, Pumped
      <3> PICK g \in Nat : g = Len(got[side][s])
        BY <1>8
      <3> PICK l \in {0, 1} : l = Lag(side, s)
        BY <1>8
      <3> PICK m \in Nat : m = Len(b)
        BY <1>8
      <3> DEFINE n == g + m + 1 - l
      <3>2. Awaited(side, s) = n /\ n \in Int
        BY Sums, Zenon DEF Awaited
      <3>3. Lag(side, s)' = l
        BY <1>13 DEF Lag
      <3>4. Awaited(side, s)' = n + 1
        <4>1. Len(got'[side][s]) = g /\ Len(buf'[side][s]) = m + 1
          BY <1>7, <1>9, <1>10
        <4>2. Awaited(side, s)' = g + (m + 1) + 1 - l
          BY <3>3, <4>1 DEF Awaited
        <4>3. g + (m + 1) + 1 - l = (g + m + 1 - l) + 1
          BY ONLY Sums, g \in Nat, m \in Nat, l \in {0, 1}
        <4> QED
          BY <4>2, <4>3
      <3>5. k = n /\ Chain(wire'[p], s, n + 1)
        BY <1>2, <1>4, <3>1, <3>2 DEF Carried, w
      <3>6. \A i \in DOMAIN buf'[side][s] : buf'[side][s][i] = g + i - l
        <4>0. DOMAIN b \subseteq Int /\ DOMAIN c \subseteq Int
          BY <1>8, <1>9
        <4>1. \A i \in DOMAIN b : b[i] = g + i - l
          BY <3>1 DEF Carried
        <4> HIDE DEF b
        <4>2. g - l \in Int /\ \A i \in DOMAIN b : b[i] = (g - l) + i
          <5>1. g - l \in Int /\ \A i \in Int : g + i - l = (g - l) + i
            BY ONLY Sums, g \in Nat, m \in Nat, l \in {0, 1}
          <5> QED
            BY <4>0, <4>1, <5>1, Zenon
        <4>3. k = (g - l) + Len(b) + 1
          <5>1. (g - l) + m + 1 = n
            BY ONLY Sums, g \in Nat, m \in Nat, l \in {0, 1}
          <5> HIDE DEF n
          <5> QED
            BY <3>5, <5>1, Zenon
        <4>4. \A i \in DOMAIN c : c[i] = (g - l) + i
          BY <1>8, <4>2, <4>3, Buffered DEF c
        <4> HIDE DEF n
        <4>5. \A i \in DOMAIN c : c[i] = g + i - l
          <5>1. \A i \in Int : g + i - l = (g - l) + i
            BY Sums
          <5> QED
            BY <4>0, <4>4, <5>1, Zenon
        <4> QED
          BY <1>10, <4>5
      <3>7. n + 1 <= taken[p][s] + 1
        <4>1. \A a, j, c0 \in Nat : a = j /\ a <= c0 => j + 1 <= c0 + 1
          OBVIOUS
        <4>2. n \in Nat
          BY <3>5
        <4> QED
          BY <1>8, <2>1, <3>5, <4>1, <4>2, Zenon
      <3>8. MaySend(p, s)' => Ends(wire'[p], s, n + 1, NextUnit(p, s)')
        <4>1. (MaySend(p, s)' <=> MaySend(p, s)) /\ NextUnit(p, s)' = NextUnit(p, s)
              /\ NextUnit(p, s) \in Int
          BY <1>1, <1>3, <1>7, Numbers DEF MaySend, NextUnit
        <4>2. MaySend(p, s) => Ends(w, s, n, NextUnit(p, s))
          BY <3>1, <3>2 DEF Carried, w
        <4>3. Chain(w, s, n)
          BY <3>1, <3>2 DEF Carried, w
        <4> HIDE DEF n
        <4> QED
          BY <1>2, <1>4, <3>2, <4>1, <4>2, <4>3
      <3> QED
        BY <1>7, <3>3, <3>4, <3>5, <3>6, <3>7, <3>8 DEF Carried
    <2> QED
      BY <1>1, <2>1, <2>2, <2>3 DEF Flow
  <1>18. Stream(s)'
    BY <1>1, <1>3, <1>14, <1>15, <1>16, <1>17, SidesAre DEF Stream
  <1> QED
    BY <1>11, <1>12, <1>18, Whole

\* A SYN arrives, at the origin: the stream is new there.
LEMMA MuxReadSyn ==
    ASSUME MuxInv, NEW side \in Sides, ReadSyn(side)
    PROVE  MuxInv'
  <1> DEFINE p == Peer(side)
             w == wire[p]
             f == Head(w)
  <1>1. p \in Sides /\ p # side /\ Peer(p) = side /\ w # <<>> /\ f.type = "syn"
    BY SidesAre DEF ReadSyn, NextFrame
  <1>2. /\ f \in Frames /\ w \in Seq(Frames) /\ Tail(w) \in Seq(Frames)
        /\ wire' \in [Sides -> Seq(Frames)] /\ wire'[p] = Tail(w)
        /\ \A t \in Sides : t # p => wire'[t] = wire[t]
        /\ \A x, T : x # f.id \/ f.type \notin T => Same(w, Tail(w), x, T)
    <2>1. wire' = [wire EXCEPT ![p] = Tail(@)]
      BY DEF ReadSyn, Consumed
    <2> QED
      BY <1>1, <2>1, ReadsFrame DEF MuxInv, Types
  <1> PICK s \in Ids : s = f.id
    BY <1>2 DEF Frames
  <1>3. Types /\ Stream(s)
    BY DEF MuxInv
  <1>4. HasSyn(w, s)
    <2>1. Holds(w, s, "syn", 1)
      BY <1>1, <1>2, Received
    <2> QED
      BY <2>1 DEF HasSyn
  <1>5. side = Origin /\ p = Relay
    <2>1. ~HasSyn(wire[Origin], s)
      BY <1>3 DEF Stream, Known
    <2> QED
      BY <1>1, <1>4, <2>1, SidesAre
  <1>6. /\ s \in streams[Relay] /\ s \notin streams[Origin] /\ pump[Origin][s] = "none"
        /\ pending # s /\ OneSyn(w, s)
    BY <1>3, <1>4, <1>5, SidesAre DEF Stream, Known
  <1>7. ~HasSyn(Tail(w), s)
    BY <1>1, <1>2, <1>6, ReceivedSyn
  <1>8. OneSyn(Tail(w), s)
    BY <1>1, <1>2, <1>6, ReceivedLess
  <1>9. /\ streams' = [streams EXCEPT ![side] = streams[side] \union {s}]
        /\ pending' \in {s, pending}
        /\ UNCHANGED <<up, closed, buf, pump, taken, got>>
    BY DEF ReadSyn, Registered, conn, sock
  <1>10. /\ Same(w, Tail(w), s, {"data", "fin"}) /\ Same(w, Tail(w), s, {"data"})
         /\ HasData(Tail(w), s) <=> HasData(w, s)
         /\ HasFin(Tail(w), s) <=> HasFin(w, s)
         /\ FinAfterData(w, s) => FinAfterData(Tail(w), s)
    <2>1. /\ Same(w, Tail(w), s, {"data", "fin"}) /\ Same(w, Tail(w), s, {"data"})
          /\ "data" \in {"data", "fin"} /\ "fin" \in {"data", "fin"}
      BY <1>1, <1>2
    <2>2. w \in Seq(Frames) /\ Tail(w) \in Seq(Frames)
      BY <1>2
    <2> HIDE DEF w
    <2> QED
      BY <2>1, <2>2, SameData, SameFin, SameOrder
  <1> HIDE DEF f, w
  <1>11. /\ streams' \in [Sides -> SUBSET Ids] /\ streams'[Origin] = streams[Origin] \union {s}
         /\ streams'[Relay] = streams[Relay]
    BY <1>3, <1>5, <1>9, SidesAre DEF Types
  <1>12. Types'
    BY <1>2, <1>3, <1>9, <1>11 DEF Types
  <1>13. \A x \in Ids \ {s} : Spares(x)
    <2> SUFFICES ASSUME NEW x \in Ids \ {s} PROVE Spares(x)
      OBVIOUS
    <2>1. \A t \in Sides : Same(wire[t], wire'[t], x, FrameTypes)
      BY <1>1, <1>2, SameRefl DEF w
    <2> QED
      BY <1>9, <1>11, <2>1, SidesAre DEF Spares
  <1>14. Waits(s)' <=> Waits(s)
    BY <1>9 DEF Waits
  <1>15. wire'[Origin] = wire[Origin] /\ wire'[Relay] = Tail(w)
    BY <1>1, <1>2, <1>5, SidesAre
  <1>16. Known(s)'
    BY <1>3, <1>6, <1>7, <1>8, <1>9, <1>11, <1>15 DEF Stream, Known
  <1>17. Fins(s)'
    BY <1>3, <1>5, <1>9, <1>10, <1>14, <1>15 DEF Stream, Fins, w
  <1>18. ASSUME NEW t \in Sides, Flow(t, s) PROVE Flow(t, s)'
    <2>1. NextUnit(t, s)' = NextUnit(t, s) /\ (MaySend(t, s)' => MaySend(t, s))
          /\ (Pumped(Peer(t), s)' => Pumped(Peer(t), s))
      BY <1>9 DEF NextUnit, MaySend, Pumped
    <2>2. Same(wire[t], wire'[t], s, {"data"})
      BY <1>5, <1>10, <1>15, SidesAre, SameRefl DEF w
    <2>3. taken'[t][s] >= taken[t][s]
      BY <1>3, <1>9 DEF Types
    <2> QED
      BY <1>3, <1>9, <1>12, <1>14, <1>18, <2>1, <2>2, <2>3, SentFlow
  <1>19. Stream(s)'
    BY <1>3, <1>16, <1>17, <1>18, SidesAre DEF Stream
  <1> QED
    BY <1>12, <1>13, <1>19, Whole

\* A FIN arrives: the stream closes here, with a FIN if it was open.  At the origin
\* the destination line has come before; at the relay a FIN that comes before the
\* origin has read it finds the stream closed.
LEMMA MuxReadFin ==
    ASSUME MuxInv, NEW side \in Sides, ReadFin(side)
    PROVE  MuxInv'
  <1> DEFINE p == Peer(side)
             w == wire[p]
             f == Head(w)
  <1>1. p \in Sides /\ p # side /\ Peer(p) = side /\ w # <<>> /\ f.type = "fin"
    BY SidesAre DEF ReadFin, NextFrame
  <1>2. /\ f \in Frames /\ w \in Seq(Frames) /\ Tail(w) \in Seq(Frames)
        /\ Consumed(side) \in [Sides -> Seq(Frames)] /\ Consumed(side)[p] = Tail(w)
        /\ \A t \in Sides : t # p => Consumed(side)[t] = wire[t]
        /\ \A x, T : x # f.id \/ f.type \notin T => Same(w, Tail(w), x, T)
    BY <1>1, ReadsFrame DEF MuxInv, Types, Consumed
  <1> PICK s \in Ids : s = f.id
    BY <1>2 DEF Frames
  <1> PICK g \in Frames : g = Frame("fin", s, Dst)
    BY DEF Frame, Frames, Dst
  <1>3. Types /\ Stream(s) /\ wire[side] \in Seq(Frames)
    BY DEF MuxInv, Types
  <1>4. /\ closed' = IF s \in streams[side] THEN [closed EXCEPT ![side][s] = TRUE] ELSE closed
        /\ UNCHANGED <<up, streams, pending, buf, pump, taken, got>>
        /\ \/ wire' = [Consumed(side) EXCEPT ![side] = wire[side]]
           \/ /\ up /\ ~closed[side][s] /\ s \in streams[side]
              /\ wire' = [Consumed(side) EXCEPT ![side] = Append(wire[side], g)]
    <2>1. Fin(side, s) = IF closed[side][s] THEN NoFrame ELSE g
      BY DEF Fin
    <2>2. Consumed(side)[side] = wire[side] /\ [Consumed(side) EXCEPT ![side] = wire[side]] = Consumed(side)
      BY <1>1, <1>2
    <2> QED
      BY <2>1, <2>2 DEF ReadFin, sock
  <1> HIDE DEF f
  <1>5. /\ wire' \in [Sides -> Seq(Frames)] /\ wire'[p] = Tail(w)
        /\ \/ wire'[side] = wire[side]
           \/ /\ up /\ ~closed[side][s] /\ s \in streams[side]
              /\ wire'[side] = Append(wire[side], g)
    <2>1. \A S : \A a \in Seq(S), b \in S : Append(a, b) \in Seq(S)
      OBVIOUS
    <2> PICK v \in Seq(Frames) : v = Append(wire[side], g)
      BY <1>3, <2>1, Zenon
    <2> PICK c \in [Sides -> Seq(Frames)] : c = Consumed(side)
      BY <1>2
    <2>2. c[p] = Tail(w) /\ \A t \in Sides : t # p => c[t] = wire[t]
      BY <1>2
    <2>3. CASE wire' = [c EXCEPT ![side] = wire[side]]
      BY <1>1, <1>3, <2>2, <2>3, PutWire
    <2>4. CASE up /\ ~closed[side][s] /\ s \in streams[side] /\ wire' = [c EXCEPT ![side] = v]
      BY <1>1, <1>3, <2>2, <2>4, PutWire
    <2> QED
      BY <1>4, <2>3, <2>4
  <1>6. \A t \in Sides : \A x, T : x # s \/ "fin" \notin T => Same(wire[t], wire'[t], x, T)
    <2>1. g.id = s /\ g.type = "fin"
      BY DEF Frame
    <2>2. \A x, T : x # s \/ "fin" \notin T => Same(wire[side], Append(wire[side], g), x, T)
      BY <1>3, <2>1, SentOther
    <2>3. \A x, T : x # s \/ "fin" \notin T => Same(wire[side], wire'[side], x, T)
      BY <1>5, <2>2, SameRefl
    <2>4. \A x, T : x # s \/ "fin" \notin T => Same(wire[p], wire'[p], x, T)
      BY <1>1, <1>2, <1>5
    <2> QED
      BY <1>1, <2>3, <2>4, SidesAre
  <1>7. HasFin(w, s) /\ ~FinAfterData(w, s) /\ (HasFin(Tail(w), s) => HasFin(w, s))
    BY <1>1, <1>2, ReceivedFin, ReceivedLess DEF f
  <1> HIDE DEF w
  <1>8. /\ closed' \in [Sides -> [Ids -> BOOLEAN]]
        /\ s \in streams[side] => closed'[side][s]
        /\ s \notin streams[side] => closed'[side][s] = closed[side][s]
        /\ closed[side][s] => closed'[side][s]
        /\ \A t \in Sides, x \in Ids : t # side \/ x # s => closed'[t][x] = closed[t][x]
    BY <1>3, <1>4 DEF Types
  <1>9. Types'
    BY <1>3, <1>4, <1>5, <1>8 DEF Types
  <1>10. \A x \in Ids \ {s} : Spares(x)
    <2> SUFFICES ASSUME NEW x \in Ids \ {s} PROVE Spares(x)
      OBVIOUS
    <2>1. \A t \in Sides : Same(wire[t], wire'[t], x, FrameTypes)
      BY <1>6
    <2> QED
      BY <1>4, <1>8, <2>1 DEF Spares
  <1>11. Waits(s)' <=> Waits(s)
    BY <1>4 DEF Waits
  <1>12. \A t \in Sides : /\ HasSyn(wire'[t], s) <=> HasSyn(wire[t], s)
                          /\ HasData(wire'[t], s) <=> HasData(wire[t], s)
                          /\ OneSyn(wire[t], s) => OneSyn(wire'[t], s)
                          /\ Introduced(wire[t], s) => Introduced(wire'[t], s)
                          /\ Same(wire[t], wire'[t], s, {"data"})
    <2> TAKE t \in Sides
    <2>1. /\ Same(wire[t], wire'[t], s, {"syn", "data"}) /\ Same(wire[t], wire'[t], s, {"data"})
          /\ "syn" \in {"syn", "data"} /\ "data" \in {"syn", "data"}
          /\ wire[t] \in Seq(Frames) /\ wire'[t] \in Seq(Frames)
      BY <1>3, <1>5, <1>6 DEF Types
    <2> QED
      BY <2>1, SameSyn, SameData, SameOrder
  <1>13. Known(s)'
    BY <1>3, <1>4, <1>12, SidesAre DEF Stream, Known
  <1>14. Fins(s)'
    <2>0. Fins(s)
      BY <1>3 DEF Stream
    <2>1. CASE side = Origin
      <3>1. p = Relay /\ w = wire[Relay]
        BY <2>1, SidesAre DEF w
      <3>2. closed'[Relay][s] /\ closed[Relay][s]
        BY <1>7, <1>8, <2>0, <2>1, <3>1, SidesAre DEF Fins
      <3>3. ~(Waits(s)' /\ buf'[Origin][s] = <<>>)
        BY <1>4, <1>7, <1>11, <2>0, <3>1 DEF Fins
      <3> QED
        BY <1>4, <2>0, <3>2, <3>3 DEF Fins
    <2>2. CASE side = Relay
      <3>1. p = Origin /\ w = wire[Origin] /\ closed'[Origin][s] = closed[Origin][s]
            /\ wire'[Origin] = Tail(w)
        BY <1>5, <1>8, <2>2, SidesAre DEF w
      <3>2. Waits(s) => closed[Relay][s] /\ closed'[Relay][s] /\ wire'[Relay] = wire[Relay]
        BY <1>5, <1>7, <1>8, <2>0, <2>2, <3>1 DEF Fins
      <3>3. HasFin(wire'[Relay], s) => closed'[Relay][s]
        BY <1>5, <1>8, <2>0, <2>2 DEF Fins
      <3>4. HasFin(wire'[Origin], s) => closed'[Relay][s] \/ ~Waits(s)'
        BY <1>11, <3>2
      <3>5. Waits(s)' /\ buf'[Origin][s] = <<>> =>
                FinAfterData(wire'[Relay], s) /\ ~closed'[Origin][s] /\ closed'[Relay][s]
        BY <1>4, <1>11, <2>0, <3>1, <3>2 DEF Fins
      <3>6. \/ pump'[Relay][s] \in {"none", "open", "dst", "head"}
            \/ pump'[Relay][s] = "done" /\ ~closed'[Relay][s]
            => taken'[Relay][s] = 0
        BY <1>4, <1>8, <2>0, <2>2 DEF Fins
      <3> QED
        BY <3>3, <3>4, <3>5, <3>6 DEF Fins
    <2> QED
      BY <2>1, <2>2, SidesAre
  <1>15. ASSUME NEW t \in Sides, Flow(t, s) PROVE Flow(t, s)'
    <2>1. NextUnit(t, s)' = NextUnit(t, s) /\ (Pumped(Peer(t), s)' => Pumped(Peer(t), s))
      BY <1>4 DEF NextUnit, Pumped
    <2>2. MaySend(t, s)' => MaySend(t, s)
      BY <1>4, <1>8 DEF MaySend
    <2>3. taken'[t][s] >= taken[t][s]
      BY <1>3, <1>4, SMTT(30) DEF Types
    <2> QED
      BY <1>3, <1>4, <1>9, <1>11, <1>12, <1>15, <2>1, <2>2, <2>3, SentFlow
  <1>16. Stream(s)'
    BY <1>3, <1>13, <1>14, <1>15, SidesAre DEF Stream
  <1> QED
    BY <1>9, <1>10, <1>16, Whole

-----------------------------------------------------------------------------
(* Every step *)

\* What the owners of the muxes, the sockets' peers and the loss of the connection
\* do changes nothing the invariant is about, but for the connection itself.
LEMMA MuxElsewhere ==
    ASSUME MuxInv, UNCHANGED <<wire, streams, pending, closed, buf, pump, taken, got>>,
           up' \in BOOLEAN, up' => up
    PROVE  MuxInv'
  <1>1. Types'
    BY DEF MuxInv, Types
  <1>2. ASSUME NEW x \in Ids PROVE Stream(x)'
    <2>1. Spares(x)
      BY SameRefl DEF Spares
    <2> QED
      BY <1>1, <2>1, Spared DEF MuxInv
  <1> QED
    BY <1>1, <1>2 DEF MuxInv

\* Nothing is open and nothing is in flight at first.
LEMMA MuxInit == Init => MuxInv
  <1> SUFFICES ASSUME Init PROVE MuxInv
    OBVIOUS
  <1>1. /\ up = TRUE /\ pending = NoStream
        /\ \A t \in Sides : wire[t] = <<>> /\ streams[t] = {}
        /\ \A t \in Sides, x \in Ids :
              /\ closed[t][x] = FALSE /\ buf[t][x] = <<>> /\ got[t][x] = <<>>
              /\ pump[t][x] = "none" /\ taken[t][x] = 0
    BY DEF Init
  <1>2. Types
    <2>1. <<>> \in Seq(Frames) /\ <<>> \in Seq(Nat) /\ "none" \in Stages
      BY DEF Stages
    <2> QED
      BY <2>1 DEF Init, Types
  <1>3. NoStream \notin Ids
    BY TunnelAssumption
  <1>4. ASSUME NEW x \in Ids PROVE Stream(x)
    <2>1. \A t \in Sides : \A i, type : ~Holds(wire[t], x, type, i)
      BY <1>1 DEF Holds
    <2>2. Known(x)
      BY <1>1, <1>3, <1>4, <2>1, SidesAre DEF Known, HasSyn, HasData, OneSyn, Introduced
    <2>3. Fins(x)
      BY <1>1, <2>1, SidesAre DEF Fins, HasFin, FinAfterData
    <2>4. ASSUME NEW t \in Sides PROVE Flow(t, x)
      <3> DEFINE p == Peer(t)
      <3>1. p \in Sides
        BY SidesAre
      <3>2. got[p][x] = <<>> /\ buf[p][x] = <<>> /\ Waits(x) /\ pump[t][x] = "none" /\ taken[t][x] = 0
        BY <1>1, <3>1, SidesAre DEF Waits
      <3>3. Len(<<>>) = 0 /\ DOMAIN <<>> = {}
        OBVIOUS
      <3>4. Awaited(p, x) = IF p = Origin THEN 0 ELSE 1
        BY <3>2, <3>3 DEF Awaited, Lag
      <3>5. NextUnit(t, x) = IF t = Relay THEN 0 ELSE 1
        BY <3>2 DEF NextUnit, Dst
      <3>6. Awaited(p, x) = NextUnit(t, x) /\ Awaited(p, x) \in {0, 1}
        BY <3>4, <3>5, SidesAre
      <3>7. Ends(wire[t], x, Awaited(p, x), NextUnit(t, x)) /\ Chain(wire[t], x, Awaited(p, x))
            /\ Below(wire[t], x, taken[t][x])
        BY <2>1, <3>6 DEF Ends, Chain, Below
      <3>8. Written(t, p, x)
        BY <3>2, <3>3 DEF Written
      <3>9. Carried(t, p, x)
        BY <3>2, <3>3, <3>6, <3>7 DEF Carried
      <3> QED
        BY <3>7, <3>8, <3>9 DEF Flow
    <2> QED
      BY <2>2, <2>3, <2>4, SidesAre DEF Stream
  <1> QED
    BY <1>2, <1>4 DEF MuxInv

\* The steps of a pump that both sides have.
LEMMA MuxPump ==
    ASSUME MuxInv, NEW side \in Sides, NEW s \in Ids, Pump(side, s)
    PROVE  MuxInv'
  <1>1. CASE \E hup \in BOOLEAN : PollIn(side, s, hup)
    BY <1>1, MuxPollIn
  <1>2. CASE SendUnit(side, s)
    BY <1>2, MuxSendUnit
  <1>3. CASE PollEof(side, s)
    <2>1. /\ pump[side][s] = "poll" /\ pump' = [pump EXCEPT ![side][s] = "end"]
          /\ UNCHANGED <<up, wire, streams, pending, closed, buf, taken, got>>
      BY <1>3 DEF PollEof, At, Goto, link, mux, conn, sock
    <2>2. MoveOk(side, pump[side][s], "end")
      BY <2>1 DEF MoveOk
    <2> QED
      BY <2>1, <2>2, MuxMoves
  <1>4. CASE PollTimeout(side, s)
    <2>1. /\ pump[side][s] = "poll" /\ pump' = [pump EXCEPT ![side][s] = "drain"]
          /\ UNCHANGED <<up, wire, streams, pending, closed, buf, taken, got>>
      BY <1>4 DEF PollTimeout, At, Goto, link, mux, conn, sock
    <2>2. MoveOk(side, pump[side][s], "drain")
      BY <2>1 DEF MoveOk
    <2> QED
      BY <2>1, <2>2, MuxMoves
  <1>5. CASE Drain(side, s)
    BY <1>5, MuxDrain
  <1>6. CASE DrainFails(side, s)
    BY <1>6, MuxDrainFails
  <1>7. CASE Drained(side, s)
    <2>1. /\ pump[side][s] = "drain" /\ pump' = [pump EXCEPT ![side][s] = "check"]
          /\ UNCHANGED <<up, wire, streams, pending, closed, buf, taken, got>>
      BY <1>7 DEF Drained, At, Goto, link, mux, conn, sock
    <2>2. MoveOk(side, pump[side][s], "check")
      BY <2>1 DEF MoveOk
    <2> QED
      BY <2>1, <2>2, MuxMoves
  <1>8. CASE Check(side, s)
    <2> PICK b \in {"end", "poll"} : pump' = [pump EXCEPT ![side][s] = b]
      BY <1>8 DEF Check, Goto
    <2>1. /\ pump[side][s] = "check"
          /\ UNCHANGED <<up, wire, streams, pending, closed, buf, taken, got>>
      BY <1>8 DEF Check, At, link, mux, conn, sock
    <2>2. MoveOk(side, pump[side][s], b)
      BY <2>1 DEF MoveOk
    <2> QED
      BY <2>1, <2>2, MuxMoves
  <1>9. CASE PumpEnds(side, s)
    BY <1>9, MuxPumpEnds
  <1> QED
    BY <1>1, <1>2, <1>3, <1>4, <1>5, <1>6, <1>7, <1>8, <1>9 DEF Pump

\* The steps of serve_public and of bridge_stream.
LEMMA MuxServes ==
    ASSUME MuxInv, NEW s \in Ids, ServePublic(s) \/ LookupMux(s) \/ BadGateway(s)
    PROVE  MuxInv'
  <1>1. CASE OpenStream(s)
    BY <1>1, MuxOpen
  <1>2. CASE SendDst(s) \/ SendHead(s)
    BY <1>2, MuxFirstSends
  <1>3. CASE Pump(Relay, s)
    BY <1>3, MuxPump, SidesAre
  <1>4. CASE LookupMux(s) \/ BadGateway(s)
    <2> PICK b \in {"open", "done"} : pump' = [pump EXCEPT ![Relay][s] = b]
      BY <1>4 DEF LookupMux, BadGateway, Goto
    <2>1. /\ pump[Relay][s] = "none"
          /\ UNCHANGED <<up, wire, streams, pending, closed, buf, taken, got>>
      BY <1>4 DEF LookupMux, BadGateway, At, link, mux, conn, sock
    <2>2. MoveOk(Relay, pump[Relay][s], b)
      BY <2>1 DEF MoveOk
    <2> QED
      BY <2>1, <2>2, MuxMoves, SidesAre
  <1> QED
    BY <1>1, <1>2, <1>3, <1>4 DEF ServePublic

\* The same for bridge_stream.
LEMMA MuxBridges ==
    ASSUME MuxInv, NEW s \in Ids, BridgeStream(s)
    PROVE  MuxInv'
  <1>1. CASE ReadDst(s)
    BY <1>1, MuxReadDst
  <1>2. CASE Connect(s) \/ ConnectFails(s)
    <2> PICK b \in {"check", "end"} : pump' = [pump EXCEPT ![Origin][s] = b]
      BY <1>2 DEF Connect, ConnectFails, Goto
    <2>1. /\ pump[Origin][s] = "connect"
          /\ UNCHANGED <<up, wire, streams, pending, closed, buf, taken, got>>
      BY <1>2 DEF Connect, ConnectFails, At, link, mux, conn, sock
    <2>2. MoveOk(Origin, pump[Origin][s], b)
      BY <2>1 DEF MoveOk
    <2> QED
      BY <2>1, <2>2, MuxMoves, SidesAre
  <1>3. CASE Pump(Origin, s)
    BY <1>3, MuxPump, SidesAre
  <1> QED
    BY <1>1, <1>2, <1>3 DEF BridgeStream

\* The invariant is inductive.
LEMMA MuxStep ==
    ASSUME MuxInv, [Next]_<<vars, load>>
    PROVE  MuxInv'
  <1>0. up \in BOOLEAN
    BY DEF MuxInv, Types
  <1>1. ASSUME NEW side \in Sides, Reader(side) PROVE MuxInv'
    <2>1. CASE ReadData(side)
      BY <2>1, MuxReadData
    <2>2. CASE ReadSyn(side)
      BY <2>2, MuxReadSyn
    <2>3. CASE ReadFin(side)
      BY <2>3, MuxReadFin
    <2>4. CASE ReaderExits(side)
      <3>1. UNCHANGED <<up, wire, streams, pending, closed, buf, pump, taken, got>>
        BY <2>4 DEF ReaderExits, link, conn, sock
      <3> QED
        BY <1>0, <3>1, MuxElsewhere
    <2> QED
      BY <1>1, <2>1, <2>2, <2>3, <2>4 DEF Reader
  <1>2. ASSUME NEW s \in Ids, ServePublic(s) \/ BridgeStream(s) PROVE MuxInv'
    BY <1>2, MuxServes, MuxBridges
  <1>3. CASE TunnelRun \/ RelayLeaves
    <2>1. CASE AcceptStream
      BY <2>1, MuxAccept
    <2>2. CASE AcceptNull \/ DestroyMux \/ CloseStreams \/ RelayLeaves
      <3>1. /\ UNCHANGED <<wire, streams, pending, closed, buf, pump, taken, got>>
            /\ up' = up \/ up' = FALSE
        BY <2>2 DEF AcceptNull, DestroyMux, CloseStreams, RelayLeaves, link, mux, conn, sock
      <3>2. CASE up' = up
        BY <1>0, <3>1, <3>2, MuxElsewhere
      <3>3. CASE up' = FALSE
        <4>1. up' \in BOOLEAN /\ (up' => up)
          BY <3>3
        <4> QED
          BY <3>1, <4>1, MuxElsewhere
      <3> QED
        BY <3>1, <3>2, <3>3
    <2> QED
      BY <1>3, <2>1, <2>2 DEF TunnelRun
  <1>4. CASE Environment
    <2>1. CASE \E s \in load.ids : LookupMux(s) \/ BadGateway(s)
      <3> PICK s \in load.ids : LookupMux(s) \/ BadGateway(s)
        BY <2>1
      <3>1. CASE s \in Ids
        BY <3>1, MuxServes
      <3>2. CASE s \notin Ids
        <4>1. /\ \A t \in Sides : [pump[t] EXCEPT ![s] = "open"] = pump[t]
              /\ \A t \in Sides : [pump[t] EXCEPT ![s] = "done"] = pump[t]
          BY <3>2 DEF MuxInv, Types
        <4>2. pump' = pump
          BY <4>1, SidesAre DEF MuxInv, Types, LookupMux, BadGateway, Goto
        <4>3. UNCHANGED <<up, wire, streams, pending, closed, buf, taken, got>>
          BY DEF LookupMux, BadGateway, link, mux, conn, sock
        <4> QED
          BY <1>0, <4>2, <4>3, MuxElsewhere
      <3> QED
        BY <3>1, <3>2
    <2>2. CASE \E side \in Sides, s \in Ids : PeerSends(side, s) \/ PeerCloses(side, s)
      <3>1. UNCHANGED <<up, wire, streams, pending, closed, buf, pump, taken, got>>
        BY <2>2 DEF PeerSends, PeerCloses, link, mux, conn
      <3> QED
        BY <1>0, <3>1, MuxElsewhere
    <2>3. CASE LinkLost \/ Interrupt
      <3>1. /\ UNCHANGED <<wire, streams, pending, closed, buf, pump, taken, got>>
            /\ up' = up \/ up' = FALSE
        BY <2>3 DEF LinkLost, Interrupt, link, mux, conn, sock
      <3>2. CASE up' = up
        BY <1>0, <3>1, <3>2, MuxElsewhere
      <3>3. CASE up' = FALSE
        <4>1. up' \in BOOLEAN /\ (up' => up)
          BY <3>3
        <4> QED
          BY <3>1, <4>1, MuxElsewhere
      <3> QED
        BY <3>1, <3>2, <3>3
    <2> QED
      BY <1>4, <2>1, <2>2, <2>3 DEF Environment
  <1>5. CASE UNCHANGED <<vars, load>>
    <2>1. UNCHANGED <<up, wire, streams, pending, closed, buf, pump, taken, got>>
      BY <1>5 DEF vars, link, mux, conn, sock
    <2> QED
      BY <1>0, <2>1, MuxElsewhere
  <1> QED
    BY <1>1, <1>2, <1>3, <1>4, <1>5 DEF Next, Step

\* A socket receives the units 1, 2, 3 ... of the other end and never more of
\* them than were sent there.
THEOREM UnitsArriveInOrder == Spec => []DeliveredInOrder
  <1>1. MuxInv => DeliveredInOrder
    <2> SUFFICES ASSUME MuxInv, NEW side \in Sides, NEW s \in Ids
                 PROVE  /\ got[Peer(side)][s] = Counting(Len(got[Peer(side)][s]))
                        /\ Len(got[Peer(side)][s]) <= taken[side][s]
      BY DEF DeliveredInOrder
    <2> DEFINE g == got[Peer(side)][s]
    <2>1. Flow(side, s) /\ Written(side, Peer(side), s)
      BY SidesAre DEF MuxInv, Stream, Flow
    <2>2. g \in Seq(Nat)
      BY SidesAre DEF MuxInv, Types
    <2>3. Len(g) <= taken[side][s] /\ \A i \in DOMAIN g : g[i] = i
      BY <2>1 DEF Written
    <2> HIDE DEF g
    <2>4. g = Counting(Len(g))
      BY <2>2, <2>3 DEF Counting
    <2> QED
      BY <2>3, <2>4 DEF g
  <1> QED
    BY <1>1, MuxInit, MuxStep, PTL DEF Spec

-----------------------------------------------------------------------------
(* Nothing is lost *)

\* A set of natural numbers that is not empty has a least element.
LEMMA LeastNatural ==
    ASSUME NEW X \in SUBSET Nat, X # {}
    PROVE  \E n \in X : \A m \in X : n <= m
  <1> DEFINE T == {0 .. n : n \in X}
             R == StrictSubsetOrdering(Nat)
  <1>1. IsWellFoundedOn(R, FiniteSubsetsOf(Nat))
    BY FS_StrictSubsetOrderingWellFounded, Zenon
  <1>2. T \subseteq FiniteSubsetsOf(Nat)
    <2> SUFFICES ASSUME NEW n \in X PROVE 0 .. n \in FiniteSubsetsOf(Nat)
      OBVIOUS
    <2>1. IsFiniteSet(0 .. n)
      BY FS_Interval, 0 \in Int, n \in Int
    <2> QED
      BY <2>1 DEF FiniteSubsetsOf
  <1>3. PICK t \in T : \A u \in T : ~(<<u, t>> \in R)
    <2>1. T # {}
      OBVIOUS
    <2> HIDE DEF T, R
    <2> QED
      BY <1>1, <1>2, <2>1, WFMin, Zenon
  <1>4. PICK n \in X : t = 0 .. n
    OBVIOUS
  <1> WITNESS n \in X
  <1> TAKE m \in X
  <1>5. SUFFICES ASSUME m < n PROVE FALSE
    OBVIOUS
  <1>6. <<0 .. m, 0 .. n>> \in R
    <2>1. 0 .. m \subseteq 0 .. n /\ n \in 0 .. n /\ n \notin 0 .. m
      BY <1>5
    <2> QED
      BY <2>1 DEF StrictSubsetOrdering
  <1> QED
    BY <1>3, <1>4, <1>6

\* Between the unit awaited and the next one to be sent, every unit is on the wire.
LEMMA Unbroken ==
    ASSUME NEW w \in Seq(Frames), NEW x, NEW n \in Int, NEW m \in Int, Chain(w, x, n), Ends(w, x, n, m),
           NEW k \in Nat, n <= k, k < m
    PROVE  \E i \in Nat : Holds(w, x, "data", i) /\ w[i].unit = k
  <1> DEFINE U == {u \in Nat : k <= u /\ \E i \in Nat : Holds(w, x, "data", i) /\ w[i].unit = u}
  <1>1. \A i \in Nat : Holds(w, x, "data", i) => w[i].unit \in Nat
    <2>1. \A i \in DOMAIN w : w[i] \in Frames
      OBVIOUS
    <2> QED
      BY <2>1 DEF Frames, Holds
  <1>2. m - 1 \in U
    <2>1. PICK i \in Nat : Holds(w, x, "data", i) /\ w[i].unit = m - 1
      BY DEF Ends
    <2> QED
      BY <2>1
  <1>3. U \in SUBSET Nat /\ U # {}
    BY <1>2
  <1> PICK u \in U : \A v \in U : u <= v
    <2> HIDE DEF U
    <2> QED
      BY <1>3, LeastNatural
  <1>4. PICK i \in Nat : Holds(w, x, "data", i) /\ w[i].unit = u
    OBVIOUS
  <1>5. ASSUME u # k PROVE FALSE
    <2>1. w[i].unit > n /\ u \in Nat /\ k <= u
      BY <1>4, <1>5
    <2>2. PICK j \in Nat : Holds(w, x, "data", j) /\ w[j].unit = w[i].unit - 1
      BY <1>4, <2>1 DEF Chain
    <2>3. w[j].unit \in U
      BY <1>1, <1>4, <1>5, <2>1, <2>2
    <2> QED
      BY <1>4, <2>1, <2>2, <2>3
  <1> QED
    BY <1>4, <1>5

\* What is written and what is buffered count on from one to the other.
LEMMA HeldCounts ==
    ASSUME NEW g \in Seq(Nat), NEW b \in Seq(Nat), NEW l \in {0, 1}, l = 1 => g = <<>>,
           \A i \in DOMAIN g : g[i] = i, \A i \in DOMAIN b : b[i] = Len(g) + i - l
    PROVE  /\ DOMAIN (g \o b) = 1 .. Len(g) + Len(b)
           /\ \A i \in DOMAIN (g \o b) : (g \o b)[i] = i - l
  <1> DEFINE c == g \o b
  <1>1. /\ Len(g) \in Nat /\ Len(b) \in Nat /\ DOMAIN g = 1 .. Len(g) /\ DOMAIN b = 1 .. Len(b)
        /\ DOMAIN c = 1 .. Len(g) + Len(b)
        /\ \A i \in 1 .. Len(g) + Len(b) : c[i] = IF i <= Len(g) THEN g[i] ELSE b[i - Len(g)]
    OBVIOUS
  <1>2. l = 1 => Len(g) = 0
    OBVIOUS
  <1> HIDE DEF c
  <1>3. ASSUME NEW i \in 1 .. Len(g) + Len(b) PROVE c[i] = i - l
    <2>1. CASE i <= Len(g)
      <3>1. i \in DOMAIN g /\ l = 0
        BY <1>1, <1>2, <2>1
      <3> QED
        BY <1>1, <2>1, <3>1
    <2>2. CASE ~(i <= Len(g))
      <3>1. i - Len(g) \in DOMAIN b /\ c[i] = b[i - Len(g)]
        BY <1>1, <2>2
      <3>2. c[i] = Len(g) + (i - Len(g)) - l
        BY <3>1
      <3> QED
        BY <1>1, <3>2
    <2> QED
      BY <2>1, <2>2
  <1> QED
    BY <1>1, <1>3 DEF c

\* No unit is written before the destination line has been read.
NoneYet == \A x \in Ids : Waits(x) => got[Origin][x] = <<>>

\* Nothing has been written at first.
LEMMA NoneYetInit == Init => NoneYet
  BY SidesAre DEF Init, NoneYet

\* Only a pump that drains writes, and no pump waits for its first line again.
LEMMA NoneYetStep ==
    ASSUME MuxInv, NoneYet, [Next]_<<vars, load>>
    PROVE  NoneYet'
  <1>0. /\ pump \in [Sides -> [Ids -> Stages]] /\ got \in [Sides -> [Ids -> Seq(Nat)]]
        /\ \A x \in Ids : pending = x => pump[Origin][x] = "none"
    BY DEF MuxInv, Types, Stream, Known
  <1> SUFFICES ASSUME NEW x \in Ids, Waits(x)' PROVE got'[Origin][x] = <<>>
    BY DEF NoneYet
  <1>1. CASE \E side \in Sides, s \in Ids : Drain(side, s)
    <2> PICK side \in Sides, s \in Ids : Drain(side, s)
      BY <1>1
    <2>1. /\ pump' = pump /\ pump[side][s] = "drain"
          /\ got' = [got EXCEPT ![side][s] = @ \o buf[side][s]]
      BY DEF Drain, At
    <2>2. ~(side = Origin /\ s = x) /\ Waits(x)
      BY <2>1 DEF Waits
    <2>3. got'[Origin][x] = got[Origin][x]
      BY <1>0, <2>1, <2>2, SidesAre
    <2> QED
      BY <2>2, <2>3 DEF NoneYet
  <1>2. CASE got' = got /\ Waits(x)
    BY <1>2 DEF NoneYet
  <1>3. CASE AcceptStream
    <2>1. got' = got /\ pump' = [pump EXCEPT ![Origin][pending] = "dst"]
      BY <1>3 DEF AcceptStream, sock
    <2>2. Waits(x)
      BY <1>0, <2>1, SidesAre DEF Waits
    <2> QED
      BY <2>1, <2>2 DEF NoneYet
  <1> DEFINE Moves == \E side \in Sides : \E s, b :
                          /\ pump' = [pump EXCEPT ![side][s] = b]
                          /\ side = Relay \/ b \notin {"none", "dst"}
  <1>4. ASSUME got' = got, pump' = pump \/ Moves PROVE Waits(x)
    <2>1. CASE pump' = pump
      BY <2>1 DEF Waits
    <2>2. CASE Moves
      <3> PICK side \in Sides : \E s, b : /\ pump' = [pump EXCEPT ![side][s] = b]
                                          /\ side = Relay \/ b \notin {"none", "dst"}
        BY <2>2
      <3> PICK s, b : /\ pump' = [pump EXCEPT ![side][s] = b]
                      /\ side = Relay \/ b \notin {"none", "dst"}
        OBVIOUS
      <3>1. CASE side = Origin /\ s = x
        BY <1>0, <3>1, SidesAre DEF Waits
      <3>2. CASE ~(side = Origin /\ s = x)
        <4>1. pump'[Origin][x] = pump[Origin][x]
          BY <1>0, <3>2, SidesAre
        <4> QED
          BY <4>1 DEF Waits
      <3> QED
        BY <3>1, <3>2
    <2> QED
      BY <1>4, <2>1, <2>2
  <1>5. ASSUME NEW side \in Sides, Reader(side) PROVE got' = got /\ pump' = pump
    BY <1>5 DEF Reader, ReadData, ReadSyn, ReadFin, ReaderExits, sock
  <1>6. ASSUME NEW side \in Sides, NEW s \in Ids, Pump(side, s), ~Drain(side, s) PROVE got' = got /\ Moves
    <2>1. got' = got
      BY <1>6 DEF Pump, PollIn, SendUnit, PollEof, PollTimeout, DrainFails, Drained, Check, PumpEnds, sock
    <2>2. \E b : pump' = [pump EXCEPT ![side][s] = b] /\ b \notin {"none", "dst"}
      <3>1. CASE \E hup \in BOOLEAN : PollIn(side, s, hup)
        <4> PICK b \in {"end", "send", "sendhup"} : pump' = [pump EXCEPT ![side][s] = b]
          BY <3>1 DEF PollIn, Goto
        <4> QED
          OBVIOUS
      <3>2. CASE SendUnit(side, s) \/ PollEof(side, s) \/ PollTimeout(side, s)
        <4> PICK b \in {"drain", "end"} : pump' = [pump EXCEPT ![side][s] = b]
          BY <3>2 DEF SendUnit, PollEof, PollTimeout, Goto
        <4> QED
          OBVIOUS
      <3>3. CASE DrainFails(side, s) \/ Drained(side, s) \/ Check(side, s) \/ PumpEnds(side, s)
        <4> PICK b \in {"check", "end", "poll", "done"} : pump' = [pump EXCEPT ![side][s] = b]
          <5>1. CASE DrainFails(side, s) \/ Drained(side, s) \/ PumpEnds(side, s)
            BY <5>1 DEF DrainFails, Drained, PumpEnds, Goto
          <5>2. CASE Check(side, s)
            BY <5>2 DEF Check, Goto
          <5> QED
            BY <3>3, <5>1, <5>2
        <4> QED
          OBVIOUS
      <3> QED
        BY <1>6, <3>1, <3>2, <3>3 DEF Pump
    <2> QED
      BY <2>1, <2>2
  <1>7. ASSUME NEW s, OpenStream(s) \/ SendDst(s) \/ SendHead(s) \/ LookupMux(s) \/ BadGateway(s)
        PROVE  got' = got /\ Moves
    <2>1. got' = got
      BY <1>7 DEF OpenStream, SendDst, SendHead, LookupMux, BadGateway, sock
    <2>2. \E b : pump' = [pump EXCEPT ![Relay][s] = b]
      BY <1>7 DEF OpenStream, SendDst, SendHead, LookupMux, BadGateway, Goto
    <2> QED
      BY <2>1, <2>2, SidesAre
  <1>8. ASSUME NEW s \in Ids, ReadDst(s) \/ Connect(s) \/ ConnectFails(s) PROVE got' = got /\ Moves
    <2>1. got' = got
      BY <1>8 DEF ReadDst, Connect, ConnectFails, sock
    <2>2. \E b : pump' = [pump EXCEPT ![Origin][s] = b] /\ b \notin {"none", "dst"}
      BY <1>8 DEF ReadDst, Connect, ConnectFails, Goto
    <2> QED
      BY <2>1, <2>2, SidesAre
  <1>9. ASSUME \/ AcceptNull \/ DestroyMux \/ CloseStreams \/ RelayLeaves \/ LinkLost \/ Interrupt
               \/ \E side \in Sides, s \in Ids : PeerSends(side, s) \/ PeerCloses(side, s)
               \/ UNCHANGED <<vars, load>>
        PROVE  got' = got /\ pump' = pump
    BY <1>9 DEF AcceptNull, DestroyMux, CloseStreams, RelayLeaves, LinkLost, Interrupt,
                PeerSends, PeerCloses, vars, sock
  <1> HIDE DEF Moves
  <1>10. \/ \E side \in Sides, s \in Ids : Drain(side, s)
         \/ AcceptStream
         \/ got' = got /\ (pump' = pump \/ Moves)
    BY <1>5, <1>6, <1>7, <1>8, <1>9, SidesAre
       DEF Next, Step, Environment, TunnelRun, ServePublic, BridgeStream
  <1> QED
    BY <1>1, <1>2, <1>3, <1>4, <1>10

\* Where a wire has units of x.
DataOf(w, x) == {i \in DOMAIN w : w[i].type = "data" /\ w[i].id = x}

\* Units held in c, then units of x on w, are the units 1 .. n in order.
Numbered(c, w, x, n) ==
    /\ ({c[i] : i \in DOMAIN c} \union {w[i].unit : i \in DataOf(w, x)}) \ {Dst} = 1 .. n
    /\ \A i, j \in DOMAIN c : i < j => c[i] < c[j]
    /\ \A i, j \in DataOf(w, x) : i < j => w[i].unit < w[j].unit
    /\ \A i \in DOMAIN c, j \in DataOf(w, x) : c[i] < w[j].unit

\* Held units up to a, and units on the wire from a on, are the units up to n.
LEMMA OneAfterAnother ==
    ASSUME NEW c, NEW w \in Seq(Frames), NEW x, NEW h \in Nat, NEW l \in {0, 1},
           NEW n \in Int, NEW m \in Int,
           DOMAIN c = 1 .. h, \A i \in DOMAIN c : c[i] = i - l, m = n + 1 \/ (m = 0 /\ n = 0),
           Chain(w, x, h + 1 - l), Ends(w, x, h + 1 - l, m)
    PROVE  Numbered(c, w, x, n)
  <1> DEFINE a == h + 1 - l
             D == DataOf(w, x)
  <1>0. a \in Int
    OBVIOUS
  <1>1. \A i : i \in D <=> i \in Nat /\ Holds(w, x, "data", i)
    <2>1. DOMAIN w \subseteq Nat
      OBVIOUS
    <2> QED
      BY <2>1 DEF Holds, DataOf
  <1>2. \A i \in D : w[i].unit \in Nat
    <2>1. \A i \in DOMAIN w : w[i] \in Frames
      OBVIOUS
    <2> QED
      BY <2>1 DEF Frames, DataOf
  <1> HIDE DEF D
  <1>3. Chain(w, x, a) /\ Ends(w, x, a, m)
    OBVIOUS
  <1>4. \A i \in D : a <= w[i].unit /\ w[i].unit < m
    BY ONLY <1>1, <1>3 DEF Chain, Ends
  <1>5. \A i, j \in D : i < j => w[i].unit < w[j].unit
    BY ONLY <1>1, <1>3 DEF Chain
  <1>6. \A k \in Nat : a <= k /\ k < m => \E i \in D : w[i].unit = k
    <2> SUFFICES ASSUME NEW k \in Nat, a <= k, k < m PROVE \E i \in D : w[i].unit = k
      OBVIOUS
    <2> HIDE DEF a
    <2>1. \E i \in Nat : Holds(w, x, "data", i) /\ w[i].unit = k
      BY <1>0, <1>3, Unbroken
    <2> QED
      BY ONLY <1>1, <2>1
  <1>7. a <= m
    BY <1>3 DEF Ends
  <1>8. \A i, j \in DOMAIN c : i < j => c[i] < c[j]
    OBVIOUS
  <1>9. ASSUME NEW i \in DOMAIN c PROVE c[i] \in Nat /\ c[i] < a
    <2>1. i \in 1 .. h /\ c[i] = i - l
      OBVIOUS
    <2>2. i - l \in Nat /\ i - l < a
      BY ONLY <2>1, h \in Nat, l \in {0, 1}
    <2> QED
      BY ONLY <2>1, <2>2
  <1>10. ASSUME NEW k \in Nat, k # 0, k < a PROVE k \in {c[i] : i \in DOMAIN c}
    <2>1. k + l \in 1 .. h /\ (k + l) - l = k
      BY ONLY <1>10, k \in Nat, h \in Nat, l \in {0, 1}
    <2>2. k + l \in DOMAIN c /\ c[k + l] = (k + l) - l
      BY <2>1
    <2> QED
      BY ONLY <2>1, <2>2
  <1> HIDE DEF a
  <1>11. \A i \in DOMAIN c, j \in D : c[i] < w[j].unit
    <2> TAKE i \in DOMAIN c, j \in D
    <2> PICK u \in Nat : u = w[j].unit
      BY <1>2
    <2> PICK v \in Nat : v = c[i]
      BY <1>9
    <2>1. v < a /\ a <= u
      BY <1>4, <1>9
    <2>2. v < u
      BY ONLY <1>0, <2>1, u \in Nat, v \in Nat
    <2> QED
      BY <2>2
  <1>12. ASSUME NEW k \in Nat, k # 0, k < a \/ k < m PROVE k \in 1 .. n
    BY ONLY <1>0, <1>7, <1>12, k \in Nat, n \in Int, m \in Int, m = n + 1 \/ (m = 0 /\ n = 0)
  <1>13. ASSUME NEW k \in 1 .. n PROVE k \in Nat /\ k # 0 /\ k < m
    BY ONLY k \in 1 .. n, n \in Int, m \in Int, m = n + 1 \/ (m = 0 /\ n = 0)
  <1>14. \A k \in Nat : k < a \/ a <= k
    BY ONLY <1>0
  <1>15. ({c[i] : i \in DOMAIN c} \union {w[i].unit : i \in D}) \ {0} = 1 .. n
    <2>1. \A i \in DOMAIN c : c[i] # 0 => c[i] \in 1 .. n
      BY ONLY <1>9, <1>12
    <2>2. \A i \in D : w[i].unit # 0 => w[i].unit \in 1 .. n
      BY ONLY <1>2, <1>4, <1>12
    <2>3. \A k \in 1 .. n : k # 0 /\ (k \in {c[i] : i \in DOMAIN c} \/ k \in {w[i].unit : i \in D})
      BY ONLY <1>6, <1>10, <1>13, <1>14
    <2> QED
      BY ONLY <2>1, <2>2, <2>3
  <1> QED
    BY <1>5, <1>8, <1>11, <1>15 DEF D, Numbered, Dst

\* What has left an open stream is written, buffered or on the wire.
LEMMA NothingLost ==
    ASSUME MuxInv, NoneYet
    PROVE  NothingLostWhileOpen
  <1> SUFFICES ASSUME NEW side \in Sides, NEW s \in Ids, up, ~closed[side][s], pump[side][s] # "end",
                      pump[Peer(side)][s] \notin {"end", "done"}
               PROVE  OnTheWay(side, s, taken[side][s] -
                                           (IF pump[side][s] \in {"send", "sendhup"} THEN 1 ELSE 0))
    BY DEF NothingLostWhileOpen
  <1> DEFINE p == Peer(side)
             g == got[p][s]
             b == buf[p][s]
             w == wire[side]
             l == Lag(p, s)
             t == taken[side][s]
             n == t - (IF pump[side][s] \in {"send", "sendhup"} THEN 1 ELSE 0)
             m == NextUnit(side, s)
  <1>1. p \in Sides /\ p # side
    BY SidesAre
  <1>2. Types /\ Stream(s) /\ Flow(side, s) /\ Written(side, p, s) /\ Carried(side, p, s) /\ MaySend(side, s)
    <2>1. Types /\ Stream(s) /\ Flow(side, s)
      BY SidesAre DEF MuxInv, Stream
    <2> QED
      BY <2>1 DEF Flow, Pumped, MaySend
  <1>3. /\ g \in Seq(Nat) /\ b \in Seq(Nat) /\ w \in Seq(Frames) /\ l \in {0, 1}
        /\ Len(g) \in Nat /\ Len(b) \in Nat /\ m \in Int
    <2>1. g \in Seq(Nat) /\ b \in Seq(Nat) /\ w \in Seq(Frames)
      BY <1>1, <1>2 DEF Types
    <2>2. l \in {0, 1} /\ Len(g) \in Nat /\ Len(b) \in Nat /\ m \in Int
      BY <1>1, <1>2, Numbers
    <2> QED
      BY <2>1, <2>2
  <1>4. DOMAIN (g \o b) = 1 .. Len(g) + Len(b) /\ \A i \in DOMAIN (g \o b) : (g \o b)[i] = i - l
    <2>1. l = 1 => g = <<>>
      BY DEF Lag, NoneYet
    <2>2. \A i \in DOMAIN g : g[i] = i
      BY <1>2 DEF Written
    <2>3. \A i \in DOMAIN b : b[i] = Len(g) + i - l
      BY <1>2 DEF Carried
    <2> HIDE DEF g, b, l
    <2> QED
      BY ONLY <1>3, <2>1, <2>2, <2>3, HeldCounts
  <1>5. Chain(w, s, Len(g) + Len(b) + 1 - l) /\ Ends(w, s, Len(g) + Len(b) + 1 - l, m)
    BY <1>2 DEF Carried, Awaited
  <1>6. n \in Int /\ (m = n + 1 \/ (m = 0 /\ n = 0))
    <2>1. t \in Nat
      BY <1>2 DEF Types
    <2>2. CASE pump[side][s] \in {"send", "sendhup"}
      <3>1. m = t /\ n = t - 1
        BY <2>2 DEF NextUnit
      <3> HIDE DEF m, n, t
      <3> QED
        BY ONLY <2>1, <3>1
    <2>3. CASE /\ pump[side][s] \notin {"send", "sendhup"}
               /\ side = Relay /\ pump[side][s] \in {"none", "open", "dst", "done"}
      <3>1. t = 0
        BY <1>2, <2>3 DEF Stream, Fins
      <3>2. m = 0 /\ n = t - 0
        BY <2>3 DEF NextUnit, Dst
      <3> HIDE DEF m, n, t
      <3> QED
        BY ONLY <3>1, <3>2
    <2>4. CASE /\ pump[side][s] \notin {"send", "sendhup"}
               /\ ~(side = Relay /\ pump[side][s] \in {"none", "open", "dst", "done"})
      <3>1. m = t + 1 /\ n = t - 0
        BY <2>4 DEF NextUnit
      <3> HIDE DEF m, n, t
      <3> QED
        BY ONLY <2>1, <3>1
    <2> QED
      BY <2>2, <2>3, <2>4
  <1> DEFINE c == g \o b
  <1>7. OnTheWay(side, s, n) <=> Numbered(c, w, s, n)
    BY Zenon DEF OnTheWay, Held, Wired, DataOf, Numbered
  <1> DEFINE h == Len(g) + Len(b)
  <1>8. h \in Nat /\ DOMAIN c = 1 .. h /\ Chain(w, s, h + 1 - l) /\ Ends(w, s, h + 1 - l, m)
    <2> HIDE DEF g, b, l, m, w
    <2> QED
      BY ONLY <1>3, <1>4, <1>5
  <1>9. \A i \in DOMAIN c : c[i] = i - l
    BY <1>4
  <1> HIDE DEF c, w, n, m, h, l
  <1>10. m \in Int /\ l \in {0, 1} /\ w \in Seq(Frames)
    BY <1>3
  <1>11. Numbered(c, w, s, n)
    BY ONLY <1>6, <1>8, <1>9, <1>10, OneAfterAnother
  <1> QED
    BY <1>7, <1>11, Zenon DEF n, t

\* While a stream is open at the sender and pumped at the receiver, the units taken
\* from the socket are written, buffered, on the wire or in the pump's hands.
THEOREM OpenStreamsLoseNothing == Spec => []NothingLostWhileOpen
  <1>1. Init => MuxInv /\ NoneYet
    BY MuxInit, NoneYetInit
  <1>2. MuxInv /\ NoneYet /\ [Next]_<<vars, load>> => MuxInv' /\ NoneYet'
    BY MuxStep, NoneYetStep
  <1> QED
    BY <1>1, <1>2, NothingLost, PTL DEF Spec
===============================================================================
