-------------------------- MODULE AppReconcileProofs --------------------------
(***************************************************************************)
(* Proofs about AppReconcile and TopoSort.                                 *)
(*                                                                         *)
(* The first part proves that topo_sort sorts, for every list of services  *)
(* and all dependencies.  The recursion counts down the services that are  *)
(* not on the path, the loop over depends_on counts up its names; each     *)
(* induction is the choice of a least counterexample.                      *)
(*                                                                         *)
(* The second part proves that app up, stop and rm keep AppInv.  Filed is  *)
(* StateFileTrue.  Progress says how far a running app_up is: the services *)
(* it has been through (Done) have their container and, in the state built *)
(* so far, their record; those it has still to visit (Waiting) come after  *)
(* what they depend on.  Ports says that the ports given are claimed.      *)
(***************************************************************************)
EXTENDS AppReconcileProps, FiniteSetTheorems, WellFoundedInduction, TLAPS

\* A set of natural numbers that is not empty has a least element.
LEMMA LeastNatural ==
    ASSUME NEW X \in SUBSET Nat, X # {}
    PROVE  \E n \in X : \A m \in X : n <= m
  <1> DEFINE T == {0 .. n : n \in X}
             R == StrictSubsetOrdering(Nat)
  <1>1. IsWellFoundedOn(R, FiniteSubsetsOf(Nat))
    BY FS_StrictSubsetOrderingWellFounded, Zenon
  <1>2. T \subseteq FiniteSubsetsOf(Nat)
    <2> SUFFICES ASSUME NEW n \in X PROVE 0 .. n \in FiniteSubsetsOf(Nat)
      OBVIOUS
    <2>1. IsFiniteSet(0 .. n)
      BY FS_Interval, 0 \in Int, n \in Int
    <2> QED
      BY <2>1 DEF FiniteSubsetsOf
  <1>3. PICK t \in T : \A u \in T : ~(<<u, t>> \in R)
    <2>1. T # {}
      OBVIOUS
    <2> HIDE DEF T, R
    <2> QED
      BY <1>1, <1>2, <2>1, WFMin, Zenon
  <1>4. PICK n \in X : t = 0 .. n
    OBVIOUS
  <1> WITNESS n \in X
  <1> TAKE m \in X
  <1>5. SUFFICES ASSUME m < n PROVE FALSE
    OBVIOUS
  <1>6. <<0 .. m, 0 .. n>> \in R
    <2>1. 0 .. m \subseteq 0 .. n /\ n \in 0 .. n /\ n \notin 0 .. m
      BY <1>5
    <2> QED
      BY <2>1 DEF StrictSubsetOrdering
  <1> QED
    BY <1>3, <1>4, <1>6

-----------------------------------------------------------------------------
(* topo_sort: the loop over names *)

\* The loop of visit after n names, as a function of n.
RunsTo(g, n, names, begin, visit, known, path) ==
    g = [i \in 0 .. n |->
            IF i = 0 THEN begin
            ELSE IF ~g[i - 1].ok THEN g[i - 1]
            ELSE IF names[i] \in known THEN visit[<<g[i - 1], names[i], path>>]
            ELSE [g[i - 1] EXCEPT !.ok = FALSE]]

\* One pass of the loop.
Pass(a, d, visit, known, path) ==
    IF ~a.ok THEN a
    ELSE IF d \in known THEN visit[<<a, d, path>>]
    ELSE [a EXCEPT !.ok = FALSE]

\* The loop can be run over any number of names.
LEMMA RunsExist ==
    ASSUME NEW names, NEW begin, NEW visit, NEW known, NEW path, NEW n \in Nat
    PROVE  \E g : RunsTo(g, n, names, begin, visit, known, path)
  <1> DEFINE R(g, k) == RunsTo(g, k, names, begin, visit, known, path)
             X == {m \in Nat : ~ \E g : R(g, m)}
  <1> SUFFICES ASSUME X # {} PROVE FALSE
    OBVIOUS
  <1>1. PICK m \in X : \A k \in X : m <= k
    <2> HIDE DEF X
    <2>1. X \subseteq Nat
      BY DEF X
    <2> QED BY <2>1, LeastNatural
  <1>2. m # 0
    <2>1. R([i \in 0 .. 0 |-> begin], 0)
      BY DEF RunsTo
    <2> QED BY <2>1
  <1>3. PICK g : R(g, m - 1)
    BY <1>1, <1>2
  <1> DEFINE last == Pass(g[m - 1], names[m], visit, known, path)
             f == [i \in 0 .. m |-> IF i < m THEN g[i] ELSE last]
  <1>4. R(f, m)
    <2>1. \A i \in 0 .. m : i < m => f[i] = g[i]
      OBVIOUS
    <2>2. f[m] = last
      OBVIOUS
    <2>3. ASSUME NEW i \in 0 .. m
          PROVE  f[i] = IF i = 0 THEN begin
                        ELSE Pass(f[i - 1], names[i], visit, known, path)
      <3>1. CASE i = m
        <4>1. f[m - 1] = g[m - 1]
          BY <1>2, <2>1
        <4> HIDE DEF f
        <4> QED BY <1>2, <2>2, <3>1, <4>1
      <3>2. CASE i < m
        <4>1. i \in 0 .. m - 1
          BY <3>2
        <4>2. g[i] = IF i = 0 THEN begin
                     ELSE Pass(g[i - 1], names[i], visit, known, path)
          BY <1>3, <4>1 DEF RunsTo, Pass
        <4>3. i # 0 => f[i - 1] = g[i - 1]
          BY <2>1, <4>1
        <4> HIDE DEF f
        <4> QED BY <2>1, <3>2, <4>2, <4>3
      <3> QED BY <3>1, <3>2
    <2>4. f = [i \in 0 .. m |-> f[i]]
      OBVIOUS
    <2> HIDE DEF f, last
    <2> QED BY <2>3, <2>4 DEF RunsTo, Pass
  <1> QED BY <1>4

\* The outcome after each name.
Outcomes(names, begin, visit, known, path) ==
    CHOOSE g : RunsTo(g, Len(names), names, begin, visit, known, path)

\* What VisitAll computes, pass by pass.
LEMMA VisitAllPasses ==
    ASSUME NEW names, Len(names) \in Nat, NEW begin, NEW visit, NEW known, NEW path,
           NEW g, g = Outcomes(names, begin, visit, known, path)
    PROVE  /\ g[0] = begin
           /\ \A i \in 1 .. Len(names) :
                  g[i] = Pass(g[i - 1], names[i], visit, known, path)
           /\ VisitAll(names, begin, visit, known, path) = g[Len(names)]
  <1>1. RunsTo(g, Len(names), names, begin, visit, known, path)
    BY RunsExist DEF Outcomes
  <1>2. VisitAll(names, begin, visit, known, path) = g[Len(names)]
    BY Zenon DEF VisitAll, RunsTo, Outcomes
  <1>3. \A i \in 0 .. Len(names) :
            g[i] = IF i = 0 THEN begin ELSE Pass(g[i - 1], names[i], visit, known, path)
    BY <1>1 DEF RunsTo, Pass
  <1> QED BY <1>2, <1>3

\* A property of the loop that each pass keeps, as an induction over the passes:
\* Holds is the set of the positions and outcomes that have it.
LEMMA VisitAllInduction ==
    ASSUME NEW names, Len(names) \in Nat, NEW begin, NEW visit, NEW known, NEW path,
           NEW Holds, <<0, begin>> \in Holds,
           \A i \in 1 .. Len(names) : \A a :
               <<i - 1, a>> \in Holds => <<i, Pass(a, names[i], visit, known, path)>> \in Holds
    PROVE  <<Len(names), VisitAll(names, begin, visit, known, path)>> \in Holds
  <1> DEFINE g == Outcomes(names, begin, visit, known, path)
  <1>1.          /\ g[0] = begin
                 /\ \A i \in 1 .. Len(names) :
                        g[i] = Pass(g[i - 1], names[i], visit, known, path)
                 /\ VisitAll(names, begin, visit, known, path) = g[Len(names)]
    BY VisitAllPasses
  <1> HIDE DEF g
  <1> DEFINE X == {i \in 0 .. Len(names) : <<i, g[i]>> \notin Holds}
  <1>2. SUFFICES ASSUME X # {} PROVE FALSE
    BY <1>1
  <1>3. PICK m \in X : \A k \in X : m <= k
    <2>1. X \subseteq Nat
      OBVIOUS
    <2> HIDE DEF X
    <2> QED BY <1>2, <2>1, LeastNatural
  <1>4. m # 0
    BY <1>1
  <1>5. m \in 1 .. Len(names) /\ m - 1 \in 0 .. Len(names) /\ m - 1 \notin X
    BY <1>3, <1>4
  <1>6. <<m - 1, g[m - 1]>> \in Holds
    BY <1>5
  <1> QED BY <1>1, <1>5, <1>6

\* Two functions that agree on the calls of the loop give the same outcome.
LEMMA VisitAllAgree ==
    ASSUME NEW names, Len(names) \in Nat, NEW services, NEW begin \in SortResult(services),
           NEW known, NEW path, NEW f, NEW h,
           \A a \in SortResult(services), d \in known :
               /\ f[<<a, d, path>>] = h[<<a, d, path>>]
               /\ f[<<a, d, path>>] \in SortResult(services)
    PROVE  /\ VisitAll(names, begin, f, known, path) = VisitAll(names, begin, h, known, path)
           /\ VisitAll(names, begin, f, known, path) \in SortResult(services)
  <1> DEFINE g == Outcomes(names, begin, f, known, path)
  <1>1.          /\ g[0] = begin
                 /\ \A i \in 1 .. Len(names) :
                        g[i] = Pass(g[i - 1], names[i], f, known, path)
                 /\ VisitAll(names, begin, f, known, path) = g[Len(names)]
    BY VisitAllPasses
  <1> HIDE DEF g
  <1> DEFINE Holds == {p \in Nat \X SortResult(services) : p[2] = g[p[1]]}
  <1>2. <<0, begin>> \in Holds
    BY <1>1
  <1>3. ASSUME NEW i \in 1 .. Len(names), NEW a, <<i - 1, a>> \in Holds
        PROVE  <<i, Pass(a, names[i], h, known, path)>> \in Holds
    <2>1. a \in SortResult(services) /\ a = g[i - 1]
      BY <1>3
    <2>2. Pass(a, names[i], h, known, path) = Pass(a, names[i], f, known, path)
      BY <2>1 DEF Pass
    <2>3. Pass(a, names[i], f, known, path) \in SortResult(services)
      BY <2>1 DEF Pass, SortResult
    <2>4. Pass(a, names[i], f, known, path) = g[i]
      BY <1>1, <2>1
    <2> QED BY <2>2, <2>3, <2>4
  <1> HIDE DEF Holds
  <1>4. <<Len(names), VisitAll(names, begin, h, known, path)>> \in Holds
    BY <1>2, <1>3, VisitAllInduction
  <1> QED BY <1>1, <1>4 DEF Holds

-----------------------------------------------------------------------------
(* topo_sort: the recursion *)

\* What visit may be called with.
Calls(services) == SortResult(services) \X ToSet(services) \X SUBSET ToSet(services)

\* The body of visit, with f for the recursive calls.
Visit(f, x, services, deps) ==
    LET acc   == x[1]
        s     == x[2]
        below == VisitAll(deps[s], acc, f, ToSet(services), x[3] \union {s})
    IN  IF s \in ToSet(acc.out) THEN acc
        ELSE IF s \in x[3] THEN [acc EXCEPT !.ok = FALSE]
        ELSE IF below.ok THEN [below EXCEPT !.out = Append(@, s)]
        ELSE below

IsVisit(f, services, deps) == f = [x \in Calls(services) |-> Visit(f, x, services, deps)]

\* How many services are not on the path: what the recursion counts down.
Left(x, services) == Cardinality(ToSet(services) \ x[3])

\* It is finite, and falls with every recursive call.
LEMMA LeftFalls ==
    ASSUME NEW S, NEW services \in Seq(S)
    PROVE  /\ \A x \in Calls(services) : Left(x, services) \in Nat
           /\ \A x \in Calls(services) : \A a \in SortResult(services), d \in ToSet(services) :
                 /\ <<a, d, x[3] \union {x[2]}>> \in Calls(services)
                 /\ x[2] \notin x[3] =>
                       Left(<<a, d, x[3] \union {x[2]}>>, services) = Left(x, services) - 1
           /\ \E n \in Nat : \A x \in Calls(services) : Left(x, services) < n
  <1> DEFINE known == ToSet(services)
  <1>1. IsFiniteSet(known)
    <2>1. services \in Surjection(1 .. Len(services), known)
      BY DEF ToSet, Surjection
    <2>2. IsFiniteSet(1 .. Len(services))
      BY FS_Interval, 1 \in Int, Len(services) \in Int
    <2> QED BY <2>1, <2>2, FS_Surjection
  <1> HIDE DEF known
  <1>2. \A T \in SUBSET known : /\ IsFiniteSet(T) /\ Cardinality(T) \in Nat
                                /\ Cardinality(T) <= Cardinality(known)
    BY <1>1, FS_Subset, FS_CardinalityType
  <1>3. \A x \in Calls(services) : known \ x[3] \in SUBSET known
    OBVIOUS
  <1>4. \A x \in Calls(services) : Left(x, services) \in Nat
    BY <1>2, <1>3 DEF Left, known
  <1>5. ASSUME NEW x \in Calls(services), NEW a \in SortResult(services), NEW d \in known
        PROVE  /\ <<a, d, x[3] \union {x[2]}>> \in Calls(services)
               /\ x[2] \notin x[3] =>
                     Left(<<a, d, x[3] \union {x[2]}>>, services) = Left(x, services) - 1
    <2>1. x[2] \in known /\ x[3] \in SUBSET known
      BY DEF Calls, known
    <2>2. <<a, d, x[3] \union {x[2]}>> \in Calls(services)
      BY <2>1 DEF Calls, known
    <2>3. ASSUME x[2] \notin x[3]
          PROVE  Cardinality(known \ (x[3] \union {x[2]})) = Cardinality(known \ x[3]) - 1
      <3>1. known \ (x[3] \union {x[2]}) = (known \ x[3]) \ {x[2]} /\ x[2] \in known \ x[3]
        BY <2>1, <2>3
      <3>2. IsFiniteSet(known \ x[3])
        BY <1>2, <1>3
      <3>3. Cardinality((known \ x[3]) \ {x[2]}) = Cardinality(known \ x[3]) - 1
        BY <3>1, <3>2, FS_RemoveElement
      <3> QED BY <3>1, <3>3
    <2> QED BY <2>2, <2>3 DEF Left, known
  <1>6. Cardinality(known) + 1 \in Nat
    BY <1>2
  <1>7. \A x \in Calls(services) : Left(x, services) < Cardinality(known) + 1
    BY <1>2, <1>3, <1>4 DEF Left, known
  <1> QED BY <1>4, <1>5, <1>6, <1>7 DEF known

\* The body stays within the results, and looks at f only where less is left.
LEMMA VisitAgree ==
    ASSUME NEW S, NEW services \in Seq(S), NEW deps,
           \A s \in ToSet(services) : Len(deps[s]) \in Nat,
           NEW f, NEW h, NEW x \in Calls(services),
           \A y \in Calls(services) : Left(y, services) < Left(x, services) =>
               f[y] = h[y] /\ f[y] \in SortResult(services)
    PROVE  /\ Visit(f, x, services, deps) = Visit(h, x, services, deps)
           /\ Visit(f, x, services, deps) \in SortResult(services)
  <1> DEFINE acc  == x[1]
             s    == x[2]
             path == x[3] \union {s}
             known == ToSet(services)
             b1 == VisitAll(deps[s], acc, f, known, path)
             b2 == VisitAll(deps[s], acc, h, known, path)
  <1>1. acc \in SortResult(services) /\ s \in known
    BY DEF Calls
  <1>2. CASE s \in ToSet(acc.out) \/ s \in x[3]
    BY <1>1, <1>2 DEF Visit, SortResult
  <1>3. CASE s \notin ToSet(acc.out) /\ s \notin x[3]
    <2>1. b1 = b2 /\ b1 \in SortResult(services)
      <3>1. ASSUME NEW a \in SortResult(services), NEW d \in known
            PROVE  /\ f[<<a, d, path>>] = h[<<a, d, path>>]
                   /\ f[<<a, d, path>>] \in SortResult(services)
        <4>1. /\ <<a, d, path>> \in Calls(services) /\ Left(x, services) \in Nat
              /\ Left(<<a, d, path>>, services) = Left(x, services) - 1
          BY <1>3, LeftFalls
        <4> QED BY <4>1
      <3>2. Len(deps[s]) \in Nat
        BY <1>1
      <3> HIDE DEF acc, s, path, known
      <3> QED BY <1>1, <3>1, <3>2, VisitAllAgree
    <2>2. b1.ok => [b1 EXCEPT !.out = Append(@, s)] \in SortResult(services)
      <3> SUFFICES ASSUME b1.ok PROVE [b1 EXCEPT !.out = Append(@, s)] \in SortResult(services)
        OBVIOUS
      <3> HIDE DEF b1, s
      <3>1. b1 \in [out : Seq(known), ok : BOOLEAN] /\ s \in known
        BY <1>1, <2>1 DEF SortResult
      <3>2. Append(b1.out, s) \in Seq(known)
        BY <3>1
      <3> HIDE DEF known
      <3>3. [b1 EXCEPT !.out = Append(@, s)] \in [out : Seq(known), ok : BOOLEAN]
        BY <3>1, <3>2
      <3> QED BY <3>3 DEF SortResult, known
    <2>3. /\ Visit(f, x, services, deps) =
                IF b1.ok THEN [b1 EXCEPT !.out = Append(@, s)] ELSE b1
          /\ Visit(h, x, services, deps) =
                IF b2.ok THEN [b2 EXCEPT !.out = Append(@, s)] ELSE b2
      BY <1>3 DEF Visit
    <2> HIDE DEF b1, b2
    <2> QED BY <2>1, <2>2, <2>3
  <1> QED BY <1>2, <1>3

\* visit is a function: it can be defined on the calls with less than n left,
\* for every n.
LEMMA VisitExists ==
    ASSUME NEW S, NEW services \in Seq(S), NEW deps,
           \A s \in ToSet(services) : Len(deps[s]) \in Nat
    PROVE  \E f \in [Calls(services) -> SortResult(services)] : IsVisit(f, services, deps)
  <1> DEFINE F == [Calls(services) -> SortResult(services)]
             DefinedTo(f, n) == \A x \in Calls(services) :
                            Left(x, services) < n => f[x] = Visit(f, x, services, deps)
             X == {n \in Nat : ~ \E f \in F : DefinedTo(f, n)}
  <1>1. \A x \in Calls(services) : Left(x, services) \in Nat
    BY LeftFalls
  <1>2. X = {}
    <2>1. SUFFICES ASSUME X # {} PROVE FALSE
      OBVIOUS
    <2>2. PICK m \in X : \A k \in X : m <= k
      <3>1. X \subseteq Nat
        OBVIOUS
      <3> HIDE DEF X
      <3> QED BY <2>1, <3>1, LeastNatural
    <2>3. m # 0
      <3>1. [x \in Calls(services) |-> x[1]] \in F
        BY DEF Calls
      <3>2. DefinedTo([x \in Calls(services) |-> x[1]], 0)
        BY <1>1
      <3> HIDE DEF F, DefinedTo
      <3> QED BY <3>1, <3>2
    <2>4. PICK f \in F : DefinedTo(f, m - 1)
      <3>1. m - 1 \in Nat /\ m - 1 \notin X
        BY <2>2, <2>3
      <3> QED BY <3>1
    <2> DEFINE h == [x \in Calls(services) |->
                       IF Left(x, services) = m - 1 THEN Visit(f, x, services, deps) ELSE f[x]]
    <2>5. \A x \in Calls(services) : Left(x, services) < m - 1 => h[x] = f[x]
      BY <1>1
    <2>6. ASSUME NEW x \in Calls(services), Left(x, services) < m
          PROVE  /\ Visit(f, x, services, deps) = Visit(h, x, services, deps)
                 /\ Visit(f, x, services, deps) \in SortResult(services)
      <3>1. \A y \in Calls(services) : Left(y, services) < Left(x, services) =>
               f[y] = h[y] /\ f[y] \in SortResult(services)
        <4>1. m \in Nat /\ Left(x, services) \in Nat /\ Left(x, services) <= m - 1
          BY <1>1, <2>6
        <4> HIDE DEF h, X
        <4> QED BY <4>1, <1>1, <2>5
      <3> HIDE DEF h
      <3> QED BY <3>1, VisitAgree
    <2>7. h \in F
      <3>1. \A x \in Calls(services) : h[x] \in SortResult(services)
        <4> SUFFICES ASSUME NEW x \in Calls(services) PROVE h[x] \in SortResult(services)
          OBVIOUS
        <4>1. CASE Left(x, services) = m - 1
          <5>1. Left(x, services) < m
            BY <1>1, <4>1
          <5>2. h[x] = Visit(f, x, services, deps)
            BY <4>1
          <5> HIDE DEF h
          <5> QED BY <2>6, <5>1, <5>2
        <4>2. CASE Left(x, services) # m - 1
          BY <2>4, <4>2
        <4> QED BY <4>1, <4>2
      <3>2. h = [x \in Calls(services) |-> h[x]]
        OBVIOUS
      <3> HIDE DEF h
      <3> QED BY <3>1, <3>2
    <2>8. DefinedTo(h, m)
      <3> SUFFICES ASSUME NEW x \in Calls(services), Left(x, services) < m
                   PROVE  h[x] = Visit(h, x, services, deps)
        OBVIOUS
      <3>1. Left(x, services) = m - 1 \/ Left(x, services) < m - 1
        BY <1>1
      <3>2. h[x] = Visit(f, x, services, deps)
        BY <2>4, <2>5, <3>1
      <3> QED BY <2>6, <3>2
    <2> HIDE DEF F, DefinedTo, h
    <2> QED BY <2>7, <2>8
  <1>3. PICK n \in Nat : \A x \in Calls(services) : Left(x, services) < n
    BY LeftFalls
  <1>4. PICK f \in F : DefinedTo(f, n)
    BY <1>2
  <1>5. f = [x \in Calls(services) |-> Visit(f, x, services, deps)]
    BY <1>3, <1>4
  <1> QED BY <1>4, <1>5 DEF IsVisit

\* There is only one.
LEMMA VisitUnique ==
    ASSUME NEW S, NEW services \in Seq(S), NEW deps,
           \A s \in ToSet(services) : Len(deps[s]) \in Nat,
           NEW f \in [Calls(services) -> SortResult(services)], IsVisit(f, services, deps),
           NEW h, IsVisit(h, services, deps)
    PROVE  h = f
  <1> DEFINE X == {Left(x, services) : x \in {y \in Calls(services) : h[y] # f[y]}}
  <1>1. \A x \in Calls(services) : Left(x, services) \in Nat
    BY LeftFalls
  <1>2. ASSUME X # {} PROVE FALSE
    <2>1. PICK m \in X : \A k \in X : m <= k
      <3>1. X \subseteq Nat
        BY <1>1
      <3> HIDE DEF X
      <3> QED BY <1>2, <3>1, LeastNatural
    <2>2. PICK x \in Calls(services) : m = Left(x, services) /\ h[x] # f[x]
      OBVIOUS
    <2>3. ASSUME NEW y \in Calls(services), Left(y, services) < m PROVE h[y] = f[y]
      <3>1. SUFFICES ASSUME h[y] # f[y] PROVE FALSE
        OBVIOUS
      <3>2. Left(y, services) \in X
        BY <3>1
      <3> HIDE DEF X
      <3> QED BY <1>1, <2>1, <2>2, <2>3, <3>2
    <2>4. \A y \in Calls(services) : Left(y, services) < Left(x, services) =>
               f[y] = h[y] /\ f[y] \in SortResult(services)
      BY <2>2, <2>3
    <2>5. Visit(f, x, services, deps) = Visit(h, x, services, deps)
      BY <2>4, VisitAgree
    <2> QED BY <2>2, <2>5 DEF IsVisit
  <1>3. \A x \in Calls(services) : h[x] = f[x]
    BY <1>2
  <1> QED BY <1>3 DEF IsVisit

-----------------------------------------------------------------------------
(* topo_sort: a result that is ok is in order *)

\* No service twice.
NoRepeat(names) == \A i, j \in DOMAIN names : names[i] = names[j] => i = j

\* Every service once, after the services it depends on.
InOrder(out, deps) ==
    /\ NoRepeat(out)
    /\ \A i \in DOMAIN out : \A d \in ToSet(deps[out[i]]) : \E j \in 1 .. i - 1 : out[j] = d

\* What a call makes of the outcome a: nothing that is on the path is added.
Grown(a, b, path, deps) ==
    b.ok => /\ InOrder(b.out, deps) /\ ToSet(a.out) \subseteq ToSet(b.out)
            /\ (ToSet(b.out) \ ToSet(a.out)) \intersect path = {}

\* The loop keeps what each of its calls keeps, and adds all of its names.
LEMMA VisitAllGrows ==
    ASSUME NEW names, Len(names) \in Nat, NEW services, NEW deps, NEW path, NEW f,
           NEW begin \in SortResult(services), InOrder(begin.out, deps),
           \A a \in SortResult(services), d \in ToSet(services) :
               LET r == f[<<a, d, path>>]
               IN  /\ r \in SortResult(services)
                   /\ a.ok /\ InOrder(a.out, deps) =>
                          Grown(a, r, path, deps) /\ (r.ok => d \in ToSet(r.out)),
           NEW r, r = VisitAll(names, begin, f, ToSet(services), path)
    PROVE  /\ r \in SortResult(services) /\ Grown(begin, r, path, deps)
           /\ r.ok => \A i \in 1 .. Len(names) : names[i] \in ToSet(r.out)
  <1> DEFINE Ok(i, b) == /\ Grown(begin, b, path, deps)
                         /\ b.ok => \A j \in 1 .. i : names[j] \in ToSet(b.out)
             Holds == {p \in Nat \X SortResult(services) : Ok(p[1], p[2])}
             known == ToSet(services)
  <1>1. <<0, begin>> \in Holds
    BY DEF Grown
  <1>2. ASSUME NEW i \in 1 .. Len(names), NEW a, <<i - 1, a>> \in Holds
        PROVE  <<i, Pass(a, names[i], f, known, path)>> \in Holds
    <2> DEFINE b == Pass(a, names[i], f, known, path)
    <2>1. a \in SortResult(services) /\ Ok(i - 1, a)
      BY <1>2
    <2>2. b \in SortResult(services)
      BY <2>1 DEF Pass, SortResult
    <2>3. Ok(i, b)
      <3>1. CASE ~a.ok \/ names[i] \notin known
        <4>1. ~b.ok
          BY <2>1, <3>1 DEF Pass, SortResult
        <4> HIDE DEF b
        <4> QED BY <4>1 DEF Grown
      <3>2. CASE a.ok /\ names[i] \in known
        <4>1. b = f[<<a, names[i], path>>]
          BY <3>2 DEF Pass
        <4>2. InOrder(a.out, deps) /\ Grown(begin, a, path, deps)
          BY <2>1, <3>2 DEF Grown
        <4>3. Grown(a, b, path, deps) /\ (b.ok => names[i] \in ToSet(b.out))
          BY <2>1, <3>2, <4>1, <4>2
        <4> HIDE DEF b, known
        <4>4. Grown(begin, b, path, deps)
          BY <3>2, <4>2, <4>3 DEF Grown
        <4>5. ASSUME b.ok, NEW j \in 1 .. i PROVE names[j] \in ToSet(b.out)
          <5>1. CASE j = i
            BY <4>3, <4>5, <5>1
          <5>2. CASE j # i
            <6>1. j \in 1 .. i - 1
              BY <5>2
            <6>2. names[j] \in ToSet(a.out)
              BY <2>1, <3>2, <6>1
            <6> QED BY <4>3, <4>5, <6>2 DEF Grown
          <5> QED BY <5>1, <5>2
        <4> QED BY <4>4, <4>5
      <3> QED BY <3>1, <3>2
    <2>4. i \in Nat
      OBVIOUS
    <2> HIDE DEF b, Ok
    <2> DEFINE p == <<i, b>>
    <2>5. p \in Nat \X SortResult(services) /\ p[1] = i /\ p[2] = b
      BY <2>2, <2>4
    <2> HIDE DEF p
    <2>6. Ok(p[1], p[2])
      BY <2>3, <2>5
    <2>7. p \in Holds
      BY <2>5, <2>6
    <2> QED BY <2>7 DEF p, b
  <1> HIDE DEF Holds, known
  <1>3. <<Len(names), VisitAll(names, begin, f, known, path)>> \in Holds
    BY <1>1, <1>2, VisitAllInduction
  <1> QED BY <1>3 DEF Holds, known

\* A service is added after those it depends on.
LEMMA AppendInOrder ==
    ASSUME NEW S, NEW out \in Seq(S), NEW deps, NEW s \in S, InOrder(out, deps),
           s \notin ToSet(out), ToSet(deps[s]) \subseteq ToSet(out)
    PROVE  /\ InOrder(Append(out, s), deps)
           /\ ToSet(Append(out, s)) = ToSet(out) \union {s}
  <1> DEFINE new == Append(out, s)
             n   == Len(out)
  <1>1. /\ n \in Nat /\ DOMAIN out = 1 .. n /\ DOMAIN new = 1 .. n + 1
        /\ \A i \in 1 .. n : new[i] = out[i] /\ new[n + 1] = s
    OBVIOUS
  <1>2. new[n + 1] = s
    OBVIOUS
  <1> HIDE DEF new, n
  <1>3. \A i \in 1 .. n : out[i] # s
    BY <1>1 DEF ToSet
  <1>4. NoRepeat(new)
    BY <1>1, <1>2, <1>3 DEF InOrder, NoRepeat
  <1>5. ASSUME NEW i \in 1 .. n + 1, NEW d \in ToSet(deps[new[i]])
        PROVE  \E j \in 1 .. i - 1 : new[j] = d
    <2>1. CASE i = n + 1
      <3>1. d \in ToSet(out)
        BY <1>2, <1>5, <2>1
      <3>2. PICK j \in 1 .. n : out[j] = d
        BY <1>1, <3>1 DEF ToSet
      <3> QED BY <1>1, <2>1, <3>2
    <2>2. CASE i # n + 1
      <3>1. i \in 1 .. n /\ new[i] = out[i]
        BY <1>1, <2>2
      <3>2. PICK j \in 1 .. i - 1 : out[j] = d
        BY <1>1, <1>5, <3>1 DEF InOrder
      <3> QED BY <1>1, <3>1, <3>2
    <2> QED BY <2>1, <2>2
  <1>6. ToSet(new) = ToSet(out) \union {s}
    <2>1. /\ \A i \in DOMAIN out : i \in DOMAIN new /\ new[i] = out[i]
          /\ \A i \in DOMAIN new : i \in DOMAIN out \/ i = n + 1
          /\ n + 1 \in DOMAIN new
      BY <1>1
    <2> QED BY <2>1, <1>2 DEF ToSet
  <1> QED BY <1>1, <1>4, <1>5, <1>6 DEF InOrder, new

\* What visit promises.
Kept(f, x, deps) ==
    x[1].ok /\ InOrder(x[1].out, deps) =>
        Grown(x[1], f[x], x[3], deps) /\ (f[x].ok => x[2] \in ToSet(f[x].out))

\* It holds: by induction over what is left.
LEMMA VisitGrows ==
    ASSUME NEW S, NEW services \in Seq(S), NEW deps,
           \A s \in ToSet(services) : Len(deps[s]) \in Nat /\ DOMAIN deps[s] = 1 .. Len(deps[s]),
           NEW f \in [Calls(services) -> SortResult(services)], IsVisit(f, services, deps)
    PROVE  \A x \in Calls(services) : Kept(f, x, deps)
  <1> DEFINE X == {Left(x, services) : x \in {y \in Calls(services) : ~Kept(f, y, deps)}}
  <1>1. \A x \in Calls(services) : Left(x, services) \in Nat
    BY LeftFalls
  <1>2. SUFFICES ASSUME X # {} PROVE FALSE
    OBVIOUS
  <1>3. PICK m \in X : \A k \in X : m <= k
    <2>1. X \subseteq Nat
      BY <1>1
    <2> HIDE DEF X
    <2> QED BY <1>2, <2>1, LeastNatural
  <1>4. PICK x \in Calls(services) : m = Left(x, services) /\ ~Kept(f, x, deps)
    OBVIOUS
  <1>5. \A y \in Calls(services) : Left(y, services) < m => Kept(f, y, deps)
    <2> SUFFICES ASSUME NEW y \in Calls(services), Left(y, services) < m, ~Kept(f, y, deps)
                 PROVE  FALSE
      OBVIOUS
    <2>1. Left(y, services) \in X
      OBVIOUS
    <2> HIDE DEF X
    <2> QED BY <1>1, <1>3, <1>4, <2>1
  <1> HIDE DEF X
  <1> DEFINE acc   == x[1]
             s     == x[2]
             known == ToSet(services)
             path  == x[3] \union {s}
             b     == VisitAll(deps[s], acc, f, known, path)
  <1>6. acc \in SortResult(services) /\ s \in known /\ x[3] \subseteq known
    BY DEF Calls
  <1>7. f[x] = Visit(f, x, services, deps)
    BY DEF IsVisit
  <1>8. acc.ok /\ InOrder(acc.out, deps)
    BY <1>4 DEF Kept
  <1>9. CASE s \in ToSet(acc.out)
    <2>1. f[x] = acc
      BY <1>7, <1>9 DEF Visit
    <2> QED BY <1>4, <1>8, <1>9, <2>1 DEF Kept, Grown
  <1>10. CASE s \notin ToSet(acc.out) /\ s \in x[3]
    <2>1. f[x] = [acc EXCEPT !.ok = FALSE]
      BY <1>7, <1>10 DEF Visit
    <2>2. ~f[x].ok
      BY <1>6, <2>1 DEF SortResult
    <2> QED BY <1>4, <2>2 DEF Kept, Grown
  <1>11. CASE s \notin ToSet(acc.out) /\ s \notin x[3]
    <2>1. ASSUME NEW a \in SortResult(services), NEW d \in known
          PROVE  LET r == f[<<a, d, path>>]
                 IN  /\ r \in SortResult(services)
                     /\ a.ok /\ InOrder(a.out, deps) =>
                          Grown(a, r, path, deps) /\ (r.ok => d \in ToSet(r.out))
      <3>1. /\ <<a, d, path>> \in Calls(services) /\ Left(x, services) \in Nat
            /\ Left(<<a, d, path>>, services) = Left(x, services) - 1
        BY <1>11, LeftFalls
      <3>2. Kept(f, <<a, d, path>>, deps)
        BY <1>4, <1>5, <3>1
      <3> HIDE DEF path, known
      <3> QED BY <3>1, <3>2 DEF Kept
    <2>2. /\ b \in SortResult(services) /\ Grown(acc, b, path, deps)
          /\ b.ok => \A i \in 1 .. Len(deps[s]) : deps[s][i] \in ToSet(b.out)
      <3>1. Len(deps[s]) \in Nat
        BY <1>6
      <3> HIDE DEF acc, s, path
      <3> QED BY <1>6, <1>8, <2>1, <3>1, VisitAllGrows
    <2>3. f[x] = IF b.ok THEN [b EXCEPT !.out = Append(@, s)] ELSE b
      BY <1>7, <1>11 DEF Visit
    <2>4. CASE ~b.ok
      <3> HIDE DEF b
      <3>1. ~f[x].ok
        BY <2>3, <2>4
      <3> QED BY <1>4, <3>1 DEF Kept, Grown
    <2>5. CASE b.ok
      <3>0. s \in path
        OBVIOUS
      <3> HIDE DEF b, acc, s, known
      <3>1. b.out \in Seq(known)
        BY <2>2 DEF SortResult, known
      <3>2. s \notin ToSet(b.out) /\ InOrder(b.out, deps)
        BY <1>11, <2>2, <2>5, <3>0 DEF Grown
      <3>3. ToSet(deps[s]) \subseteq ToSet(b.out)
        <4>1. DOMAIN deps[s] = 1 .. Len(deps[s])
          BY <1>6 DEF known
        <4> QED BY <2>2, <2>5, <4>1 DEF ToSet
      <3>4. /\ InOrder(Append(b.out, s), deps)
            /\ ToSet(Append(b.out, s)) = ToSet(b.out) \union {s}
        BY <1>6, <3>1, <3>2, <3>3, AppendInOrder
      <3>5. f[x].out = Append(b.out, s)
        BY <2>2, <2>3, <2>5 DEF SortResult
      <3>6. Grown(acc, f[x], x[3], deps) /\ s \in ToSet(f[x].out)
        BY <1>11, <2>2, <2>5, <3>4, <3>5 DEF Grown
      <3> QED BY <1>4, <3>6 DEF Kept, acc, s
    <2> QED BY <2>4, <2>5
  <1> QED BY <1>9, <1>10, <1>11

\* TopoSort is the loop over all services.
LEMMA TopoSortIs ==
    ASSUME NEW S, NEW services \in Seq(S), NEW deps,
           \A s \in ToSet(services) : Len(deps[s]) \in Nat,
           NEW f \in [Calls(services) -> SortResult(services)], IsVisit(f, services, deps)
    PROVE  TopoSort(services, deps) =
               VisitAll(services, [out |-> <<>>, ok |-> TRUE], f, ToSet(services), {})
  <1> DEFINE h == CHOOSE g : IsVisit(g, services, deps)
  <1>1. TopoSort(services, deps) =
            VisitAll(services, [out |-> <<>>, ok |-> TRUE], h, ToSet(services), {})
    BY Zenon DEF TopoSort, IsVisit, Visit, Calls
  <1>2. IsVisit(h, services, deps)
    OBVIOUS
  <1> HIDE DEF h
  <1>3. h = f
    BY <1>2, VisitUnique
  <1> QED BY <1>1, <1>3

\* When TopoSort succeeds its list has every service, in order.
LEMMA SortedInOrder ==
    ASSUME NEW S, NEW services \in Seq(S), NEW deps,
           \A s \in ToSet(services) : Len(deps[s]) \in Nat /\ DOMAIN deps[s] = 1 .. Len(deps[s]),
           TopoSort(services, deps).ok
    PROVE  LET out == TopoSort(services, deps).out
           IN  /\ out \in Seq(ToSet(services)) /\ ToSet(services) \subseteq ToSet(out)
               /\ InOrder(out, deps)
  <1> DEFINE known == ToSet(services)
             begin == [out |-> <<>>, ok |-> TRUE]
  <1>1. PICK f \in [Calls(services) -> SortResult(services)] : IsVisit(f, services, deps)
    BY VisitExists
  <1> DEFINE r == VisitAll(services, begin, f, known, {})
  <1>2. TopoSort(services, deps) = r
    BY <1>1, TopoSortIs
  <1>3. \A x \in Calls(services) : Kept(f, x, deps)
    BY <1>1, VisitGrows
  <1>4. begin \in SortResult(services) /\ InOrder(begin.out, deps) /\ ToSet(begin.out) = {}
    BY DEF SortResult, InOrder, NoRepeat, ToSet
  <1>5. ASSUME NEW a \in SortResult(services), NEW d \in known
        PROVE  LET c == f[<<a, d, {}>>]
               IN  /\ c \in SortResult(services)
                   /\ a.ok /\ InOrder(a.out, deps) =>
                          Grown(a, c, {}, deps) /\ (c.ok => d \in ToSet(c.out))
    <2>1. <<a, d, {}>> \in Calls(services)
      BY DEF Calls
    <2>2. Kept(f, <<a, d, {}>>, deps)
      BY <1>3, <2>1
    <2> HIDE DEF known
    <2> QED BY <1>1, <2>1, <2>2 DEF Kept
  <1>6. /\ r \in SortResult(services) /\ Grown(begin, r, {}, deps)
        /\ r.ok => \A i \in 1 .. Len(services) : services[i] \in ToSet(r.out)
    <2>1. Len(services) \in Nat
      OBVIOUS
    <2> HIDE DEF begin
    <2> QED BY <1>4, <1>5, <2>1, VisitAllGrows
  <1> HIDE DEF r
  <1>7. r.ok
    BY <1>2
  <1>8. ToSet(services) \subseteq ToSet(r.out)
    BY <1>6, <1>7 DEF ToSet
  <1> QED BY <1>2, <1>6, <1>7, <1>8 DEF Grown, SortResult

-----------------------------------------------------------------------------
(* topo_sort: the result is ok when there is an order *)

\* Every dependency is known, and no set of services waits only on itself.
Sortable(services, deps) ==
    /\ \A s \in ToSet(services) : ToSet(deps[s]) \subseteq ToSet(services)
    /\ \A W \in (SUBSET ToSet(services)) \ {{}} :
           \E s \in W : ToSet(deps[s]) \intersect W = {}

\* Each service on the path waits on another one of it, or on the present one.
Chained(x, deps) ==
    \A p \in x[3] : ToSet(deps[p]) \intersect (x[3] \union {x[2]}) # {}

\* The loop fails only in one of its calls.
LEMMA VisitAllSucceeds ==
    ASSUME NEW names, Len(names) \in Nat, NEW services, NEW known, NEW path, NEW f,
           NEW begin \in SortResult(services), begin.ok,
           \A i \in 1 .. Len(names) : names[i] \in known,
           \A a \in SortResult(services), i \in 1 .. Len(names) :
               a.ok => /\ f[<<a, names[i], path>>] \in SortResult(services)
                       /\ f[<<a, names[i], path>>].ok
    PROVE  VisitAll(names, begin, f, known, path).ok
  <1> DEFINE Holds == Nat \X {a \in SortResult(services) : a.ok}
  <1>1. <<0, begin>> \in Holds
    OBVIOUS
  <1>2. ASSUME NEW i \in 1 .. Len(names), NEW a, <<i - 1, a>> \in Holds
        PROVE  <<i, Pass(a, names[i], f, known, path)>> \in Holds
    <2>1. a \in SortResult(services) /\ a.ok
      BY <1>2
    <2>2. Pass(a, names[i], f, known, path) = f[<<a, names[i], path>>]
      BY <2>1 DEF Pass
    <2>3. f[<<a, names[i], path>>] \in SortResult(services) /\ f[<<a, names[i], path>>].ok
      BY <2>1
    <2> QED BY <2>2, <2>3
  <1> HIDE DEF Holds
  <1>3. <<Len(names), VisitAll(names, begin, f, known, path)>> \in Holds
    BY <1>1, <1>2, VisitAllInduction
  <1> QED BY <1>3 DEF Holds

\* A call fails only on a set of services that wait on one another.
LEMMA VisitSucceeds ==
    ASSUME NEW S, NEW services \in Seq(S), NEW deps, Sortable(services, deps),
           \A s \in ToSet(services) : Len(deps[s]) \in Nat /\ DOMAIN deps[s] = 1 .. Len(deps[s]),
           NEW f \in [Calls(services) -> SortResult(services)], IsVisit(f, services, deps)
    PROVE  \A x \in Calls(services) : x[1].ok /\ Chained(x, deps) => f[x].ok
  <1> DEFINE Fails(x) == x[1].ok /\ Chained(x, deps) /\ ~f[x].ok
             X == {Left(x, services) : x \in {y \in Calls(services) : Fails(y)}}
  <1>1. \A x \in Calls(services) : Left(x, services) \in Nat
    BY LeftFalls
  <1>2. SUFFICES ASSUME X # {} PROVE FALSE
    OBVIOUS
  <1>3. PICK m \in X : \A k \in X : m <= k
    <2>1. X \subseteq Nat
      BY <1>1
    <2> HIDE DEF X
    <2> QED BY <1>2, <2>1, LeastNatural
  <1>4. PICK x \in Calls(services) : m = Left(x, services) /\ Fails(x)
    OBVIOUS
  <1>5. \A y \in Calls(services) : Left(y, services) < m => ~Fails(y)
    <2> SUFFICES ASSUME NEW y \in Calls(services), Left(y, services) < m, Fails(y)
                 PROVE  FALSE
      OBVIOUS
    <2>1. Left(y, services) \in X
      OBVIOUS
    <2> HIDE DEF X
    <2> QED BY <1>1, <1>3, <1>4, <2>1
  <1> HIDE DEF X
  <1> DEFINE acc   == x[1]
             s     == x[2]
             known == ToSet(services)
             path  == x[3] \union {s}
             b     == VisitAll(deps[s], acc, f, known, path)
  <1>6. acc \in SortResult(services) /\ s \in known /\ x[3] \subseteq known /\ acc.ok
    BY <1>4 DEF Calls
  <1>7. f[x] = Visit(f, x, services, deps)
    BY DEF IsVisit
  <1>8. s \notin ToSet(acc.out)
    BY <1>4, <1>7 DEF Visit
  <1>9. s \notin x[3]
    <2>1. SUFFICES ASSUME s \in x[3] PROVE FALSE
      OBVIOUS
    <2>2. x[3] \in (SUBSET known) \ {{}} /\ x[3] \union {s} = x[3]
      BY <1>6, <2>1
    <2>3. PICK p \in x[3] : ToSet(deps[p]) \intersect x[3] = {}
      BY <2>2 DEF Sortable
    <2> QED BY <1>4, <2>2, <2>3 DEF Chained
  <1>10. Len(deps[s]) \in Nat /\ ToSet(deps[s]) = {deps[s][i] : i \in 1 .. Len(deps[s])}
    BY <1>6 DEF ToSet
  <1>11. \A i \in 1 .. Len(deps[s]) : deps[s][i] \in known
    <2>1. ToSet(deps[s]) \subseteq known
      BY <1>6 DEF Sortable
    <2> HIDE DEF known
    <2> QED BY <1>10, <2>1
  <1>12. ASSUME NEW a \in SortResult(services), NEW i \in 1 .. Len(deps[s]), a.ok
         PROVE  /\ f[<<a, deps[s][i], path>>] \in SortResult(services)
                /\ f[<<a, deps[s][i], path>>].ok
    <2> DEFINE y == <<a, deps[s][i], path>>
    <2>1. y \in Calls(services) /\ Left(y, services) = Left(x, services) - 1
      BY <1>9, <1>11, LeftFalls
    <2>2. y[1] = a /\ y[2] = deps[s][i] /\ y[3] = path
      OBVIOUS
    <2> HIDE DEF y
    <2>3. Chained(y, deps)
      <3> SUFFICES ASSUME NEW p \in path
                   PROVE  ToSet(deps[p]) \intersect (path \union {deps[s][i]}) # {}
        BY <2>2 DEF Chained
      <3>1. CASE p = s
        <4>1. deps[s][i] \in ToSet(deps[s])
          BY <1>10
        <4> QED BY <3>1, <4>1
      <3>2. CASE p # s
        <4>1. p \in x[3]
          BY <3>2
        <4>2. ToSet(deps[p]) \intersect path # {}
          BY <1>4, <4>1 DEF Chained
        <4> QED BY <4>2
      <3> QED BY <3>1, <3>2
    <2>4. Left(y, services) < m
      BY <1>1, <1>4, <2>1
    <2>5. f[y].ok
      BY <1>5, <1>12, <2>1, <2>2, <2>3, <2>4
    <2> QED BY <2>1, <2>5 DEF y
  <1>13. b.ok
    <2> HIDE DEF acc, s, path, known
    <2> QED BY <1>6, <1>10, <1>11, <1>12, VisitAllSucceeds
  <1>14. f[x] = [b EXCEPT !.out = Append(@, s)]
    BY <1>7, <1>8, <1>9, <1>13 DEF Visit
  <1>15. f[x] \in SortResult(services) /\ b \in SortResult(services)
    <2>1. /\ Visit(f, x, services, deps) \in SortResult(services)
      BY <1>7
    <2>2. b \in SortResult(services)
      <3> HIDE DEF path
      <3>1. \A a \in SortResult(services), d \in known : f[<<a, d, path>>] \in SortResult(services)
        BY <1>9, LeftFalls DEF path
      <3>2. Len(deps[s]) \in Nat
        BY <1>10
      <3> HIDE DEF known, acc, s
      <3> QED BY <1>6, <3>1, <3>2, VisitAllAgree
    <2> QED BY <1>7, <2>1, <2>2
  <1>16. f[x].ok
    <2> HIDE DEF b
    <2> QED BY <1>13, <1>14, <1>15 DEF SortResult
  <1> QED BY <1>4, <1>16

\* topo_sort sorts: for every list of services and all dependencies.
THEOREM TopoSortSorts ==
    ASSUME NEW S, NEW services \in Seq(S), NEW deps,
           \A s \in ToSet(services) : Len(deps[s]) \in Nat /\ DOMAIN deps[s] = 1 .. Len(deps[s])
    PROVE  IsSortOf(TopoSort(services, deps), services, deps)
  <1> DEFINE r     == TopoSort(services, deps)
             known == ToSet(services)
  <1>1. ASSUME r.ok
        PROVE  /\ r.out \in Seq(known) /\ ToSet(r.out) = known /\ InOrder(r.out, deps)
    <2>1. r.out \in Seq(known) /\ known \subseteq ToSet(r.out) /\ InOrder(r.out, deps)
      BY <1>1, SortedInOrder
    <2>2. ToSet(r.out) \subseteq known
      <3> HIDE DEF known, r
      <3> QED BY <2>1 DEF ToSet
    <2> QED BY <2>1, <2>2
  <1>2. ASSUME r.ok PROVE Sortable(services, deps)
    <2> DEFINE out == r.out
    <2>1. out \in Seq(known) /\ ToSet(out) = known /\ InOrder(out, deps)
      BY <1>1, <1>2
    <2> HIDE DEF out, known
    <2>2. Len(out) \in Nat /\ DOMAIN out = 1 .. Len(out)
      BY <2>1
    <2>3. ASSUME NEW s \in known PROVE ToSet(deps[s]) \subseteq known
      <3>1. PICK i \in DOMAIN out : out[i] = s
        BY <2>1, <2>3 DEF ToSet
      <3>2. \A d \in ToSet(deps[s]) : \E j \in 1 .. i - 1 : out[j] = d
        BY <2>1, <3>1 DEF InOrder
      <3>3. 1 .. i - 1 \subseteq DOMAIN out
        BY <2>2, <3>1
      <3> QED BY <2>1, <3>2, <3>3 DEF ToSet
    <2>4. ASSUME NEW W \in SUBSET known, W # {}
          PROVE  \E s \in W : ToSet(deps[s]) \intersect W = {}
      <3> DEFINE I == {i \in DOMAIN out : out[i] \in W}
      <3>1. I # {} /\ I \subseteq Nat
        BY <2>1, <2>2, <2>4 DEF ToSet
      <3>2. PICK i \in I : \A j \in I : i <= j
        <4> HIDE DEF I
        <4> QED BY <3>1, LeastNatural
      <3>3. ASSUME NEW d \in ToSet(deps[out[i]]), d \in W PROVE FALSE
        <4>1. PICK j \in 1 .. i - 1 : out[j] = d
          BY <2>1, <3>2, <3>3 DEF InOrder
        <4>2. j \in I
          BY <2>2, <3>2, <3>3, <4>1
        <4> QED BY <2>2, <3>2, <4>1, <4>2
      <3> QED BY <3>2, <3>3
    <2> QED BY <2>3, <2>4 DEF Sortable, known
  <1>3. ASSUME Sortable(services, deps) PROVE r.ok
    <2> DEFINE begin == [out |-> <<>>, ok |-> TRUE]
    <2>1. PICK f \in [Calls(services) -> SortResult(services)] : IsVisit(f, services, deps)
      BY VisitExists
    <2>2. r = VisitAll(services, begin, f, known, {})
      BY <2>1, TopoSortIs
    <2>3. begin \in SortResult(services) /\ begin.ok
      BY DEF SortResult
    <2>4. ASSUME NEW a \in SortResult(services), NEW i \in 1 .. Len(services), a.ok
          PROVE  /\ f[<<a, services[i], {}>>] \in SortResult(services)
                 /\ f[<<a, services[i], {}>>].ok
      <3> DEFINE y == <<a, services[i], {}>>
      <3>1. services[i] \in known
        BY DEF ToSet
      <3>2. y \in Calls(services) /\ y[1] = a /\ y[3] = {}
        BY <3>1 DEF Calls
      <3> HIDE DEF y
      <3>3. Chained(y, deps)
        BY <3>2 DEF Chained
      <3> QED BY <1>3, <2>1, <2>4, <3>2, <3>3, VisitSucceeds DEF y
    <2>5. Len(services) \in Nat /\ \A i \in 1 .. Len(services) : services[i] \in known
      BY DEF ToSet
    <2> HIDE DEF begin, known, r
    <2> QED BY <2>2, <2>3, <2>4, <2>5, VisitAllSucceeds
  <1>4. ASSUME r.ok PROVE Len(r.out) = Cardinality(known)
    <2> DEFINE out == r.out
    <2>1. out \in Seq(known) /\ ToSet(out) = known /\ NoRepeat(out)
      BY <1>1, <1>4 DEF InOrder
    <2> HIDE DEF out, known
    <2>2. Len(out) \in Nat /\ DOMAIN out = 1 .. Len(out) /\ out \in [1 .. Len(out) -> known]
      BY <2>1
    <2>3. out \in Bijection(1 .. Len(out), known)
      <3>1. \A i, j \in 1 .. Len(out) : out[i] = out[j] => i = j
        BY <2>1, <2>2 DEF NoRepeat
      <3>2. \A d \in known : \E i \in 1 .. Len(out) : out[i] = d
        BY <2>1, <2>2 DEF ToSet
      <3> QED BY <2>2, <3>1, <3>2 DEF Bijection, Injection, Surjection, IsInjective
    <2>4. ExistsBijection(1 .. Len(out), known)
      BY <2>3 DEF ExistsBijection
    <2>5. Cardinality(known) = Len(out)
      BY <2>2, <2>4, FS_CountingElements
    <2> QED BY <2>5 DEF out
  <1>5. r.ok <=> Sortable(services, deps)
    BY <1>2, <1>3
  <1> QED
    BY <1>1, <1>4, <1>5 DEF IsSortOf, Sortable, InOrder

-----------------------------------------------------------------------------
(* The invariant *)

Up     == {"decide", "ports", "run", "save", "write"}
Stages == {"idle", "stop", "rmstop", "rm"} \union Up

Rec == [st : {"none", "stopped", "running"}, cfg : Config \union {<<>>},
        port : 0 .. MaxPort, listening : BOOLEAN]
Row == [service : Service, hash : Config, port : 0 .. MaxPort]

\* No service twice.
Single(rows)    == \A i, j \in DOMAIN rows : rows[i].service = rows[j].service => i = j

\* A record of s says what its container c is.
Tells(rows, s, c) ==
    \E i \in DOMAIN rows : /\ rows[i].service = s
                           /\ rows[i].hash = c.cfg /\ rows[i].port = c.port

Visited == {state[i].service : i \in DOMAIN state}

Types ==
    /\ compose \in Composes /\ host \in Address /\ cont \in [Service -> Rec]
    /\ file \in Seq(Row) /\ state \in Seq(Row) /\ stage \in Stages
    /\ todo \in Seq(Service) /\ claimed \subseteq Nat /\ port \in 0 .. MaxPort
    /\ needs_run \in BOOLEAN /\ fresh \subseteq Service
    /\ stage \in {"decide", "ports", "run", "stop", "rmstop"} => todo # <<>>

\* The state file, but for what is excused.
Filed ==
    stage # "write" =>
        \A s \in Service : cont[s].st # "none" /\ s \notin fresh /\ s \notin lost
                           => Tells(file, s, cont[s])

\* Outside of app_up its locals are empty.
Quiet == stage \notin Up => state = <<>> /\ claimed = {} /\ fresh = {}

\* A service the loop of app_up has been through.
Done(s) ==
    /\ Exists(s) /\ (cont[s].cfg = ConfigOf(s) \/ s \in lost)
    /\ s \in fresh \/ s \notin lost => Tells(state, s, cont[s])
    /\ ToSet(compose.deps[s]) \subseteq Visited

\* Those it still has to visit: in an order that respects the dependencies.
Waiting(names, seen) ==
    /\ NoRepeat(names)
    /\ \A i \in DOMAIN names :
          /\ names[i] \notin seen
          /\ \A d \in ToSet(compose.deps[names[i]]) :
                 d \in seen \/ \E j \in 1 .. i - 1 : names[j] = d

Progress ==
    stage \in Up =>
        /\ Waiting(todo, Visited)
        /\ Services \subseteq Visited \union ToSet(todo)
        /\ fresh \subseteq Visited /\ \A s \in Visited : Done(s)
        /\ stage \in {"save", "write"} => todo = <<>>
        /\ stage = "ports" /\ ~needs_run => Exists(Current) /\ SameConfig(Current)

\* The ports of what was created are claimed, and so is the one to be given.
Ports ==
    /\ \A s \in fresh : cont[s].port = 0 \/ cont[s].port \in claimed
    /\ CreatedPortsDistinct
    /\ stage = "run" => \/ port = 0
                        \/ port \in claimed /\ \A s \in fresh : cont[s].port # port

AppInv == /\ Types /\ Single(file) /\ Single(state)
          /\ Filed /\ Quiet /\ Progress /\ Ports

\* What app_up starts from.
LEMMA PlanSorted ==
    ASSUME AppInv, Plan.ok
    PROVE  /\ Plan.out \in Seq(Service) /\ Services \subseteq ToSet(Plan.out)
           /\ Waiting(Plan.out, {})
  <1>1. compose \in Compose
    BY ComposesAssumption DEF AppInv, Types
  <1>2. /\ compose.services \in Seq(Service)
        /\ compose.deps \in [Service -> Seq(Service \union {NoService})]
    BY <1>1 DEF Compose
  <1>3. Services \subseteq Service
    BY <1>2 DEF Services, ToSet
  <1>4. \A s \in Services : /\ Len(compose.deps[s]) \in Nat
                            /\ DOMAIN compose.deps[s] = 1 .. Len(compose.deps[s])
    BY <1>2, <1>3
  <1>5. /\ Plan.out \in Seq(Services) /\ Services \subseteq ToSet(Plan.out)
        /\ InOrder(Plan.out, compose.deps)
    BY <1>2, <1>4, SortedInOrder DEF Plan, Services
  <1> HIDE DEF Plan
  <1>6. Plan.out \in Seq(Service)
    BY <1>3, <1>5
  <1>7. Waiting(Plan.out, {})
    BY <1>5 DEF Waiting, InOrder
  <1> QED BY <1>5, <1>6, <1>7

-----------------------------------------------------------------------------
(* What a step leaves alone *)

\* Two states of a container with the same configuration and port.
Same(c, d) == d.cfg = c.cfg /\ d.port = c.port /\ (d.st = "none" <=> c.st = "none")

\* Stopping a container changes neither its configuration nor its port.
LEMMA StoppedSame ==
    ASSUME NEW c \in Rec
    PROVE  Stopped(c) \in Rec /\ Same(c, Stopped(c))
  BY DEF Rec, Stopped, Same

\* Those visited are services.
LEMMA VisitedServices ==
    ASSUME AppInv
    PROVE  Visited \subseteq Service
  <1> SUFFICES ASSUME NEW i \in DOMAIN state PROVE state[i].service \in Service
    BY DEF Visited
  <1>1. state[i] \in Row
    BY DEF AppInv, Types
  <1> QED BY <1>1 DEF Row

\* A service visited stays so while its container stays what it is.
LEMMA DoneKept ==
    ASSUME AppInv, stage \in Up, UNCHANGED <<compose, host, state, fresh>>,
           \A s \in Visited : Same(cont[s], cont'[s]) /\ (s \in lost' <=> s \in lost)
    PROVE  \A s \in Visited : Done(s)'
  <1> SUFFICES ASSUME NEW s \in Visited PROVE Done(s)'
    OBVIOUS
  <1>1. Done(s) /\ Same(cont[s], cont'[s]) /\ (s \in lost' <=> s \in lost)
    BY DEF AppInv, Progress
  <1>2. Exists(s)' /\ (cont'[s].cfg = ConfigOf(s) \/ s \in lost')
    BY <1>1 DEF Done, Exists, Same
  <1>3. ConfigOf(s)' = ConfigOf(s) /\ Visited' = Visited
    BY DEF ConfigOf, Services, Visited
  <1>4. s \in fresh \/ s \notin lost => Tells(state, s, cont[s])'
    BY <1>1 DEF Done, Tells, Same
  <1> QED
    BY <1>1, <1>2, <1>3, <1>4 DEF Done

\* The command is over.
LEMMA ReturnStep ==
    ASSUME AppInv, Return, fresh' = {}, UNCHANGED <<compose, host, file>>,
           cont' \in [Service -> Rec], Filed'
    PROVE  AppInv'
  <1>1. /\ stage' = "idle" /\ todo' = <<>> /\ state' = <<>> /\ claimed' = {}
        /\ needs_run' = TRUE /\ port' = 0
    BY DEF Return
  <1>2. Types'
    <2>1. <<>> \in Seq(Row) /\ <<>> \in Seq(Service) /\ 0 \in 0 .. MaxPort
      BY BoundsAssumption
    <2> QED BY <2>1, <1>1 DEF AppInv, Types, Stages
  <1>3. Single(file)' /\ Single(state)'
    BY <1>1 DEF AppInv, Single
  <1>4. Quiet' /\ Progress' /\ Ports'
    BY <1>1 DEF Quiet, Progress, Ports, Up, CreatedPortsDistinct
  <1> QED BY <1>2, <1>3, <1>4 DEF AppInv

\* Containers stop and come up, whatever else; the command goes on where it is.
LEMMA ShapesStep ==
    ASSUME AppInv, UNCHANGED <<compose, host, file, stage, locals, fresh, lost>>,
           cont' \in [Service -> Rec], \A s \in Service : Same(cont[s], cont'[s])
    PROVE  AppInv'
  <1>1. UNCHANGED <<todo, state, claimed, needs_run, port>>
    BY DEF locals
  <1>2. Types' /\ Single(file)' /\ Single(state)' /\ Quiet'
    BY <1>1 DEF AppInv, Types, Single, Quiet
  <1>3. Filed'
    BY DEF AppInv, Filed, Same, Tells
  <1>4. Progress'
    <2>1. Visited \subseteq Service
      BY VisitedServices
    <2>2. Visited' = Visited
      BY <1>1 DEF Visited
    <2>3. stage \in Up => \A s \in Visited : Done(s)'
      BY <2>1, <1>1, DoneKept
    <2>4. stage \in Up /\ todo # <<>> => Current \in Service /\ Current' = Current
      BY <1>1 DEF AppInv, Types, Current
    <2>5. \A s \in Service : (SameConfig(s) => SameConfig(s)') /\ (Exists(s) => Exists(s)')
      BY DEF SameConfig, Exists, Record, ConfigOf, Services, Same
    <2>6. stage \in Up => Waiting(todo, Visited)' /\ Services' = Services
      BY <1>1, <2>2 DEF AppInv, Progress, Waiting, Services
    <2>7. stage = "ports" => todo # <<>>
      BY DEF AppInv, Types
    <2> QED BY <1>1, <2>2, <2>3, <2>4, <2>5, <2>6, <2>7 DEF AppInv, Progress, Up
  <1>5. Ports'
    BY <1>1 DEF AppInv, Types, Ports, CreatedPortsDistinct, Same
  <1> QED BY <1>2, <1>3, <1>4, <1>5 DEF AppInv

-----------------------------------------------------------------------------
(* app up *)

\* The service being visited, and those that come after it.
LEMMA CurrentService ==
    ASSUME AppInv, stage \in {"decide", "ports", "run"}
    PROVE  /\ Current \in Service /\ Current \notin Visited
           /\ ToSet(compose.deps[Current]) \subseteq Visited
           /\ Tail(todo) \in Seq(Service)
           /\ Waiting(Tail(todo), Visited \union {Current})
           /\ ToSet(todo) \subseteq ToSet(Tail(todo)) \union {Current}
  <1>1. todo \in Seq(Service) /\ todo # <<>> /\ Waiting(todo, Visited)
    BY DEF AppInv, Types, Progress, Up
  <1>2. /\ Len(todo) \in Nat \ {0} /\ DOMAIN todo = 1 .. Len(todo) /\ Current = todo[1]
        /\ Tail(todo) \in Seq(Service) /\ Len(Tail(todo)) = Len(todo) - 1
        /\ DOMAIN Tail(todo) = 1 .. Len(todo) - 1
        /\ \A i \in 1 .. Len(todo) - 1 : Tail(todo)[i] = todo[i + 1]
    BY <1>1 DEF Current
  <1> DEFINE t == Tail(todo)
             n == Len(todo)
  <1> HIDE DEF t, n
  <1>3. Current \in Service /\ Current \notin Visited
    BY <1>1, <1>2 DEF Waiting
  <1>4. ToSet(compose.deps[Current]) \subseteq Visited
    BY <1>1, <1>2 DEF Waiting
  <1>5. Waiting(t, Visited \union {Current})
    <2>1. NoRepeat(t)
      BY <1>1, <1>2 DEF Waiting, NoRepeat, t, n
    <2>2. ASSUME NEW i \in DOMAIN t
          PROVE  /\ t[i] \notin Visited \union {Current}
                 /\ \A d \in ToSet(compose.deps[t[i]]) :
                       d \in Visited \union {Current} \/ \E j \in 1 .. i - 1 : t[j] = d
      <3>1. i \in 1 .. n - 1 /\ i + 1 \in DOMAIN todo /\ 1 \in DOMAIN todo /\ t[i] = todo[i + 1]
            /\ n \in Nat
        BY <1>2, <2>2 DEF t, n
      <3>2. t[i] \notin Visited /\ t[i] # Current
        BY <3>1, <1>1, <1>2 DEF Waiting, NoRepeat
      <3>3. ASSUME NEW d \in ToSet(compose.deps[t[i]]), d \notin Visited, d # Current
            PROVE  \E j \in 1 .. i - 1 : t[j] = d
        <4>1. PICK j \in 1 .. i : todo[j] = d
          BY <1>1, <3>1, <3>3 DEF Waiting
        <4>2. j - 1 \in 1 .. i - 1 /\ t[j - 1] = todo[(j - 1) + 1] /\ (j - 1) + 1 = j
          BY <4>1, <1>2, <3>1, <3>3 DEF t, n
        <4> QED BY <4>1, <4>2
      <3> QED BY <3>2, <3>3
    <2> QED BY <2>1, <2>2 DEF Waiting
  <1>6. ToSet(todo) \subseteq ToSet(t) \union {Current}
    <2> SUFFICES ASSUME NEW i \in DOMAIN todo, i # 1 PROVE todo[i] \in ToSet(t)
      BY <1>2 DEF ToSet
    <2>1. i - 1 \in DOMAIN t /\ t[i - 1] = todo[(i - 1) + 1] /\ (i - 1) + 1 = i
      BY <1>2 DEF t, n
    <2> QED BY <2>1 DEF ToSet
  <1> QED BY <1>2, <1>3, <1>4, <1>5, <1>6 DEF t

\* A container that is the subject of the decision is not one of those visited.
LEMMA DecideStep ==
    ASSUME AppInv, stage = "decide", NEW keep \in BOOLEAN, Decided(keep),
           cont' \in [Service -> Rec],
           \A s \in Service \ {Current} :
               Same(cont[s], cont'[s]) /\ (s \in lost' <=> s \in lost),
           Filed', keep => Exists(Current)' /\ SameConfig(Current)
    PROVE  AppInv'
  <1>1. /\ stage' = "ports" /\ needs_run' = ~keep
        /\ UNCHANGED <<compose, host, foreign, file, todo, state, claimed, port, fresh>>
    BY DEF Decided, world
  <1>2. Current \in Service /\ Current \notin Visited
    BY CurrentService
  <1>3. Types' /\ Single(file)' /\ Single(state)' /\ Quiet'
    BY <1>1 DEF AppInv, Types, Single, Quiet, Stages, Up
  <1>4. Progress'
    <2>1. \A s \in Visited : Done(s)'
      BY <1>1, <1>2, VisitedServices, DoneKept DEF Up
    <2>2. Visited' = Visited /\ Services' = Services /\ Current' = Current
      BY <1>1 DEF Visited, Services, Current
    <2>3. Waiting(todo, Visited)'
      BY <1>1, <2>2 DEF AppInv, Progress, Waiting, Up
    <2>4. SameConfig(Current) => SameConfig(Current)'
      BY <1>1, <2>2 DEF SameConfig, Record, ConfigOf
    <2>5. needs_run' \/ keep
      BY <1>1
    <2>6. /\ Services \subseteq Visited \union ToSet(todo) /\ fresh \subseteq Visited
      BY DEF AppInv, Progress, Up
    <2> QED BY <1>1, <2>1, <2>2, <2>3, <2>4, <2>5, <2>6 DEF Progress
  <1>5. Ports'
    <2>1. fresh \subseteq Service \ {Current}
      BY <1>2 DEF AppInv, Types, Progress, Up
    <2> QED BY <2>1, <1>1 DEF AppInv, Ports, CreatedPortsDistinct, Same
  <1> QED BY <1>3, <1>4, <1>5 DEF AppInv

\* Keeping leaves the container what it is.
LEMMA KeepStep == ASSUME AppInv, KeepRunning \/ KeepStopped PROVE AppInv'
  <1>1. /\ stage = "decide" /\ SameConfig(Current) /\ Decided(TRUE) /\ UNCHANGED lost
        /\ cont[Current].st \in {"running", "stopped"}
        /\ cont' \in {cont, [cont EXCEPT ![Current].st = "running"]}
    BY DEF KeepRunning, KeepStopped
  <1>2. Current \in Service
    BY <1>1, CurrentService
  <1>3. cont \in [Service -> Rec] /\ [cont[Current] EXCEPT !.st = "running"] \in Rec
        /\ Same(cont[Current], [cont[Current] EXCEPT !.st = "running"])
    BY <1>1, <1>2 DEF AppInv, Types, Rec, Same
  <1>4. /\ cont' \in [Service -> Rec] /\ \A s \in Service : Same(cont[s], cont'[s])
        /\ cont'[Current].st # "none"
    BY <1>1, <1>2, <1>3 DEF Same
  <1>5. UNCHANGED <<file, fresh>> /\ stage' = "ports"
    BY <1>1 DEF Decided
  <1>6. Filed'
    BY <1>1, <1>4, <1>5 DEF AppInv, Filed, Same, Tells
  <1>7. Exists(Current)'
    BY <1>1, <1>4 DEF Exists, Current, Decided
  <1> QED BY <1>1, <1>4, <1>6, <1>7, DecideStep

\* What is there is removed, stopped or left.
LEMMA RemoveStep == ASSUME AppInv, Recreate \/ QueryFails PROVE AppInv'
  <1>1. stage = "decide" /\ Decided(FALSE) /\ RemoveStale
    BY DEF Recreate, QueryFails
  <1>2. Current \in Service /\ Current \notin Visited
    BY <1>1, CurrentService
  <1>3. cont \in [Service -> Rec] /\ Absent \in Rec /\ Stopped(cont[Current]) \in Rec
        /\ Same(cont[Current], Stopped(cont[Current])) /\ Same(cont[Current], cont[Current])
    <2>1. Absent \in Rec
      BY BoundsAssumption DEF Absent, Rec
    <2> QED BY <2>1, <1>2, StoppedSame DEF AppInv, Types, Same
  <1>4. /\ cont' \in [Service -> Rec] /\ \A s \in Service \ {Current} : cont'[s] = cont[s]
        /\ \/ cont'[Current].st = "none" /\ lost' = lost \ {Current}
           \/ Same(cont[Current], cont'[Current]) /\ lost' = lost
    <2>1. CASE cont' = [cont EXCEPT ![Current] = Absent] /\ lost' = lost \ {Current}
      <3>1. cont'[Current].st = "none"
        BY <2>1, <1>2, <1>3 DEF Absent
      <3> QED BY <3>1, <2>1, <1>2, <1>3
    <2>2. CASE cont' = [cont EXCEPT ![Current] = Stopped(@)] /\ lost' = lost
      BY <2>2, <1>2, <1>3
    <2>3. CASE cont' = cont /\ lost' = lost
      BY <2>3, <1>2, <1>3
    <2> QED BY <2>1, <2>2, <2>3, <1>1 DEF RemoveStale
  <1>5. UNCHANGED <<file, fresh>> /\ stage' = "ports"
    BY <1>1 DEF Decided
  <1>6. Filed'
    BY <1>1, <1>4, <1>5 DEF AppInv, Filed, Same, Tells
  <1>7. \A s \in Service \ {Current} :
            Same(cont[s], cont'[s]) /\ (s \in lost' <=> s \in lost)
    BY <1>4 DEF Same
  <1> QED BY <1>1, <1>4, <1>6, <1>7, DecideStep

\* The port picked is not taken, and not one that a listener will come up on.
LEMMA PortPicked ==
    ASSUME NEW wanted \in 0 .. MaxPort, PortLeft(wanted), AppInv
    PROVE  /\ PickPort(wanted) \in 0 .. MaxPort
           /\ PickPort(wanted) = 0 \/ PickPort(wanted) \notin claimed
  <1>1. CASE wanted = 0
    BY <1>1 DEF PickPort
  <1>2. CASE wanted # 0
    <2> DEFINE Free(p) == ~Taken(p) /\ \A q \in wanted .. p - 1 : Taken(q)
    <2>1. \E p \in wanted .. MaxPort : Free(p)
      <3> DEFINE S == {p \in wanted .. MaxPort : ~Taken(p)}
      <3>1. S # {} /\ S \subseteq Nat
        BY <1>2, BoundsAssumption DEF PortLeft
      <3>2. PICK p \in S : \A q \in S : p <= q
        <4> HIDE DEF S
        <4> QED BY <3>1, LeastNatural
      <3>3. \A q \in wanted .. p - 1 : Taken(q)
        BY <3>1, <3>2, BoundsAssumption
      <3> QED BY <3>2, <3>3
    <2>2. PickPort(wanted) = CHOOSE p \in wanted .. MaxPort : Free(p)
      BY <1>2 DEF PickPort
    <2> HIDE DEF Free
    <2>3. PickPort(wanted) \in wanted .. MaxPort /\ Free(PickPort(wanted))
      BY <2>1, <2>2
    <2> QED BY <2>3, BoundsAssumption DEF Free, Taken
  <1> QED BY <1>1, <1>2

\* The loop goes on with the next service.
LEMMA AdvanceStep ==
    ASSUME AppInv, stage \in {"ports", "run"}, Advance, NEW e \in Row,
           state' = Append(state, e), e.service = Current, needs_run' \in BOOLEAN, port' = 0,
           UNCHANGED <<compose, host, file, lost>>,
           cont' \in [Service -> Rec],
           \A s \in Service \ {Current} : cont'[s] = cont[s],
           \/ UNCHANGED <<cont, fresh>>
           \/ ~Exists(Current) /\ fresh' = fresh \union {Current},
           cont'[Current].st # "none",
           cont'[Current].cfg = ConfigOf(Current) \/ Current \in lost,
           \/ e.hash = cont'[Current].cfg /\ e.port = cont'[Current].port
           \/ Current \in lost /\ UNCHANGED fresh,
           claimed' \subseteq Nat, Ports'
    PROVE  AppInv'
  <1> DEFINE t == Tail(todo)
  <1>1. /\ Current \in Service /\ Current \notin Visited
        /\ ToSet(compose.deps[Current]) \subseteq Visited
        /\ t \in Seq(Service) /\ Waiting(t, Visited \union {Current})
        /\ ToSet(todo) \subseteq ToSet(t) \union {Current}
    BY CurrentService
  <1>2. todo' = t /\ stage' = (IF t = <<>> THEN "save" ELSE "decide")
    BY DEF Advance
  <1>3. /\ state \in Seq(Row) /\ state' \in Seq(Row) /\ Len(state) \in Nat
        /\ DOMAIN state = 1 .. Len(state) /\ DOMAIN state' = 1 .. Len(state) + 1
        /\ \A i \in DOMAIN state : state'[i] = state[i]
        /\ state'[Len(state) + 1] = e
    BY DEF AppInv, Types
  <1> HIDE DEF t
  <1>4. Visited' = Visited \union {Current}
    <2>1. \A i \in DOMAIN state : i \in DOMAIN state' /\ state'[i] = state[i]
      BY <1>3
    <2>2. Len(state) + 1 \in DOMAIN state' /\ state'[Len(state) + 1] = e
      BY <1>3
    <2>3. \A i \in DOMAIN state' : i \in DOMAIN state \/ i = Len(state) + 1
      BY <1>3
    <2> QED BY <2>1, <2>2, <2>3 DEF Visited
  <1>5. Single(state)'
    <2>1. \A i \in DOMAIN state : state[i].service # Current
      BY <1>1 DEF Visited
    <2> QED BY <2>1, <1>3 DEF AppInv, Single
  <1>6. fresh \subseteq fresh' /\ fresh' \subseteq fresh \union {Current}
    OBVIOUS
  <1>7. Types'
    <2>1. 0 \in 0 .. MaxPort
      BY BoundsAssumption
    <2> QED BY <1>1, <1>2, <1>3, <1>6, <2>1 DEF AppInv, Types, Stages, Up
  <1>8. Filed'
    <2>1. stage # "write" /\ stage' # "write"
      BY <1>2
    <2>2. CASE UNCHANGED <<cont, fresh>>
      BY <2>1, <2>2 DEF AppInv, Filed, Tells
    <2>3. CASE fresh' = fresh \union {Current}
      BY <2>1, <2>3 DEF AppInv, Filed, Tells
    <2> QED BY <2>2, <2>3
  <1>9. Quiet'
    BY <1>2 DEF Quiet, Up
  <1>10. Progress'
    <2>1. /\ Services' = Services /\ \A s \in Service : ConfigOf(s)' = ConfigOf(s)
      BY DEF Services, ConfigOf
    <2>2. Waiting(todo, Visited)'
      BY <1>1, <1>2, <1>4 DEF Waiting
    <2>3. /\ Services \subseteq Visited \union ToSet(todo) /\ fresh \subseteq Visited
          /\ \A s \in Visited : Done(s)
      BY DEF AppInv, Progress, Up
    <2>4. ASSUME NEW s \in Visited PROVE Done(s)'
      <3>1. s \in Service /\ s # Current /\ cont'[s] = cont[s] /\ Done(s)
        BY <1>1, <2>3, VisitedServices
      <3>2. Tells(state, s, cont[s]) => Tells(state', s, cont'[s])
        <4>1. \A i \in DOMAIN state : i \in DOMAIN state' /\ state'[i] = state[i]
          BY <1>3
        <4> QED BY <3>1, <4>1 DEF Tells
      <3>3. s \in fresh' <=> s \in fresh
        BY <1>6, <3>1
      <3>4. Exists(s)' /\ (cont'[s].cfg = ConfigOf(s)' \/ s \in lost')
        BY <2>1, <3>1 DEF Done, Exists
      <3>5. ToSet(compose.deps[s]) \subseteq Visited'
        BY <1>4, <3>1 DEF Done
      <3> QED BY <3>1, <3>2, <3>3, <3>4, <3>5 DEF Done
    <2>5. ASSUME NEW c \in Service, c = Current PROVE Done(c)'
      <3>1. c \notin fresh
        BY <1>1, <2>3, <2>5
      <3>2. c \in fresh' \/ c \notin lost => Tells(state', c, cont'[c])
        <4>1. Len(state) + 1 \in DOMAIN state'
          BY <1>3
        <4> QED BY <4>1, <1>3, <2>5, <3>1 DEF Tells
      <3> QED
        BY <1>1, <1>4, <2>1, <2>5, <3>2 DEF Done, Exists
    <2>6. \A s \in Visited' : Done(s)'
      BY <1>1, <1>4, <2>4, <2>5
    <2>7. stage' \notin {"ports", "write"} /\ (stage' = "save" => todo' = <<>>)
      BY <1>2
    <2> QED BY <1>1, <1>2, <1>4, <1>6, <2>1, <2>2, <2>3, <2>6, <2>7 DEF Progress
  <1>11. Single(file)'
    BY DEF AppInv, Single
  <1> QED BY <1>5, <1>7, <1>8, <1>9, <1>10, <1>11 DEF AppInv

\* A kept service keeps what its record says, which is what it has.
LEMMA KeepPortsStep == ASSUME AppInv, KeepPorts PROVE AppInv'
  <1> DEFINE pick == PickPort(compose.port[Current])
             e    == Entry(Current, KeptPort(Current))
  <1>1. /\ stage = "ports" /\ ~needs_run /\ PortLeft(compose.port[Current])
        /\ claimed' = claimed \union ({pick} \ {0}) /\ state' = Append(state, e)
        /\ needs_run' = TRUE /\ port' = 0 /\ Advance
        /\ UNCHANGED <<compose, host, foreign, cont, file, fresh, lost>>
    BY DEF KeepPorts, world
  <1>2. Current \in Service /\ Current \notin Visited
    BY <1>1, CurrentService
  <1>3. /\ compose \in Compose /\ compose.port[Current] \in 0 .. MaxPort
        /\ ConfigOf(Current) \in Config
    BY <1>2, ComposesAssumption DEF AppInv, Types, Compose, ConfigOf, Config
  <1>4. pick \in 0 .. MaxPort
    BY <1>1, <1>3, PortPicked
  <1>5. PICK r \in Record(Current) : /\ KeptPort(Current) = r.port
                                    /\ \A q \in Record(Current) : q = r
    <2>1. \A q, r \in Record(Current) : q = r
      BY DEF AppInv, Single, Record, ToSet
    <2>2. Record(Current) # {}
      BY <1>1 DEF AppInv, Progress, Up, SameConfig
    <2> QED BY <2>1, <2>2 DEF KeptPort
  <1>6. r.service = Current /\ r \in Row /\ r.hash = ConfigOf(Current)
    <2>1. \E q \in Record(Current) : q.hash = ConfigOf(Current)
      BY <1>1 DEF AppInv, Progress, Up, SameConfig, Hash
    <2>2. r.service = Current /\ r \in ToSet(file)
      BY DEF Record
    <2>3. file \in Seq(Row)
      BY DEF AppInv, Types
    <2>4. r \in Row
      BY <2>2, <2>3 DEF ToSet
    <2> QED BY <1>5, <2>1, <2>2, <2>4
  <1>7. /\ e \in Row /\ e.service = Current /\ e.hash = ConfigOf(Current)
        /\ e.port = r.port
    BY <1>2, <1>3, <1>5, <1>6 DEF Entry, Hash, Row
  <1>8. cont[Current].st # "none"
    BY <1>1 DEF AppInv, Progress, Up, Exists
  <1>9. Current \notin lost => /\ cont[Current].cfg = ConfigOf(Current)
                              /\ cont[Current].port = r.port
    <2>1. Current \notin fresh
      BY <1>1, <1>2 DEF AppInv, Progress, Up
    <2>2. Current \notin lost => Tells(file, Current, cont[Current])
      BY <1>1, <1>2, <1>8, <2>1 DEF AppInv, Filed
    <2>3. ASSUME NEW i \in DOMAIN file, file[i].service = Current PROVE file[i] = r
      BY <1>5, <2>3 DEF Record, ToSet
    <2> QED BY <1>6, <2>2, <2>3 DEF Tells
  <1> HIDE DEF e, pick
  <1>10. claimed' \subseteq Nat
    BY <1>1, <1>4, BoundsAssumption DEF AppInv, Types
  <1>11. Ports'
    <2>1. stage' # "run"
      BY <1>1 DEF Advance
    <2> QED BY <1>1, <2>1 DEF AppInv, Ports, CreatedPortsDistinct
  <1>12. cont' \in [Service -> Rec] /\ (\A s \in Service \ {Current} : cont'[s] = cont[s])
         /\ cont'[Current].st # "none"
         /\ (cont'[Current].cfg = ConfigOf(Current) \/ Current \in lost)
         /\ \/ e.hash = cont'[Current].cfg /\ e.port = cont'[Current].port
            \/ Current \in lost /\ UNCHANGED fresh
    BY <1>1, <1>7, <1>8, <1>9 DEF AppInv, Types
  <1>13. /\ needs_run' \in BOOLEAN /\ UNCHANGED <<cont, fresh>>
         /\ UNCHANGED <<compose, host, file, lost>>
    BY <1>1
  <1>14. stage \in {"ports", "run"} /\ Advance /\ state' = Append(state, e) /\ port' = 0
    BY <1>1
  <1> QED BY <1>7, <1>10, <1>11, <1>12, <1>13, <1>14, AdvanceStep

\* The port of a service to be created is claimed before the service is there.
LEMMA ChoosePortStep == ASSUME AppInv, ChoosePort PROVE AppInv'
  <1> DEFINE pick == PickPort(compose.port[Current])
  <1>1. /\ stage = "ports" /\ PortLeft(compose.port[Current])
        /\ port' = pick /\ claimed' = claimed \union ({pick} \ {0}) /\ stage' = "run"
        /\ UNCHANGED <<compose, host, cont, file, todo, state, needs_run, fresh, lost>>
    BY DEF ChoosePort, world
  <1>2. Current \in Service
    BY <1>1, CurrentService
  <1>3. compose.port[Current] \in 0 .. MaxPort
    BY <1>2, ComposesAssumption DEF AppInv, Types, Compose
  <1>4. pick \in 0 .. MaxPort /\ (pick = 0 \/ pick \notin claimed)
    BY <1>1, <1>3, PortPicked
  <1> HIDE DEF pick
  <1>5. Types'
    BY <1>1, <1>4, BoundsAssumption DEF AppInv, Types, Stages, Up
  <1>6. Single(file)' /\ Single(state)' /\ Quiet' /\ Filed'
    BY <1>1 DEF AppInv, Single, Quiet, Up, Filed, Tells
  <1>7. Progress'
    <2>1. \A s \in Visited : Done(s)'
      BY <1>1, DoneKept DEF Up, Same
    <2>2. Visited' = Visited /\ Services' = Services
      BY <1>1 DEF Visited, Services
    <2>3. Waiting(todo, Visited)'
      BY <1>1, <2>2 DEF AppInv, Progress, Waiting, Up
    <2> QED BY <1>1, <2>1, <2>2, <2>3 DEF AppInv, Progress, Up
  <1>8. Ports'
    <2>1. \A s \in fresh : pick = 0 \/ cont[s].port # pick
      BY <1>4 DEF AppInv, Ports
    <2> QED BY <1>1, <1>4, <2>1 DEF AppInv, Ports, CreatedPortsDistinct
  <1> QED BY <1>5, <1>6, <1>7, <1>8 DEF AppInv

\* The container gets the configuration of the file, and the port that was
\* claimed for it.
LEMMA RunStep == ASSUME AppInv, Run PROVE AppInv'
  <1> DEFINE e == Entry(Current, port)
             c == Container("running", ConfigOf(Current), port)
  <1>1. /\ stage = "run" /\ ~Exists(Current) /\ cont' = [cont EXCEPT ![Current] = c]
        /\ state' = Append(state, e) /\ fresh' = fresh \union {Current} /\ port' = 0
        /\ Advance /\ UNCHANGED <<compose, host, file, claimed, needs_run, lost>>
    BY DEF Run, world
  <1>2. Current \in Service /\ Current \notin Visited
    BY <1>1, CurrentService
  <1>3. ConfigOf(Current) \in Config /\ port \in 0 .. MaxPort
    BY <1>2, ComposesAssumption DEF AppInv, Types, Compose, ConfigOf, Config
  <1>4. /\ c \in Rec /\ c.st # "none" /\ c.cfg = ConfigOf(Current) /\ c.port = port
        /\ e \in Row /\ e.service = Current /\ e.hash = c.cfg /\ e.port = c.port
    BY <1>2, <1>3 DEF Container, Rec, Entry, Row, Hash
  <1> HIDE DEF e, c
  <1>5. /\ cont' \in [Service -> Rec] /\ cont'[Current] = c
        /\ \A s \in Service \ {Current} : cont'[s] = cont[s]
    BY <1>1, <1>2, <1>4 DEF AppInv, Types
  <1>6. Ports'
    <2>1. stage' # "run" /\ fresh \subseteq Service \ {Current}
      BY <1>1, <1>2 DEF Advance, AppInv, Types, Progress, Up
    <2>2. \A s \in fresh : cont'[s] = cont[s]
      BY <1>5, <2>1
    <2>3. port = 0 \/ (port \in claimed /\ \A s \in fresh : cont[s].port # port)
      BY <1>1 DEF AppInv, Ports
    <2>4. \A s \in fresh' : s \in fresh \/ (s = Current /\ cont'[s].port = port)
      BY <1>1, <1>4, <1>5
    <2>5. /\ \A s \in fresh : cont[s].port = 0 \/ cont[s].port \in claimed
          /\ CreatedPortsDistinct
      BY DEF AppInv, Ports
    <2>6. \A s \in fresh' : cont'[s].port = 0 \/ cont'[s].port \in claimed'
      BY <1>1, <2>2, <2>3, <2>4, <2>5
    <2>7. CreatedPortsDistinct'
      <3> SUFFICES ASSUME NEW s \in fresh', NEW t \in fresh',
                          cont'[s].port = cont'[t].port, cont'[s].port # 0
                   PROVE  s = t
        BY DEF CreatedPortsDistinct
      <3>1. CASE s \in fresh /\ t \in fresh
        BY <3>1, <2>2, <2>5 DEF CreatedPortsDistinct
      <3>2. CASE s \notin fresh /\ t \in fresh
        BY <3>2, <2>2, <2>3, <2>4
      <3>3. CASE s \in fresh /\ t \notin fresh
        BY <3>3, <2>2, <2>3, <2>4
      <3>4. CASE s \notin fresh /\ t \notin fresh
        BY <3>4, <2>4
      <3> QED BY <3>1, <3>2, <3>3, <3>4
    <2> QED BY <2>1, <2>6, <2>7 DEF Ports
  <1>7. needs_run' \in BOOLEAN /\ claimed' \subseteq Nat
    BY <1>1 DEF AppInv, Types
  <1> QED BY <1>1, <1>4, <1>5, <1>6, <1>7, AdvanceStep

\* Giving up: what this run made is not in the file, and is lost.
LEMMA UnsavedStep ==
    ASSUME AppInv, NEW also \in SUBSET Service, ReturnUnsaved(also),
           UNCHANGED <<compose, host, file>>, cont' \in [Service -> Rec],
           \A s \in Service \ also : Same(cont[s], cont'[s]),
           stage = "write" => Existing \subseteq also
    PROVE  AppInv'
  <1>1. Return /\ fresh' = {} /\ lost' = lost \union fresh \union also
    BY DEF ReturnUnsaved
  <1>2. Filed'
    <2> SUFFICES ASSUME NEW s \in Service, cont'[s].st # "none", s \notin lost'
                 PROVE  Tells(file', s, cont'[s])
      BY DEF Filed
    <2>1. s \notin also /\ s \notin fresh /\ s \notin lost /\ Same(cont[s], cont'[s])
      BY <1>1
    <2>2. cont[s].st # "none" /\ stage # "write"
      BY <2>1 DEF Same, Existing, Exists
    <2> QED BY <2>1, <2>2 DEF AppInv, Filed, Tells, Same
  <1> QED BY <1>1, <1>2, ReturnStep

\* `container run` fails: what it left behind is lost with the rest.
LEMMA RunFailsStep == ASSUME AppInv, RunFails PROVE AppInv'
  <1>1. stage = "run" /\ UNCHANGED <<compose, host, file>>
    BY DEF RunFails, world
  <1>2. Current \in Service
    BY <1>1, CurrentService
  <1>3. cont \in [Service -> Rec]
    BY DEF AppInv, Types
  <1>4. CASE UNCHANGED cont /\ ReturnUnsaved({})
    <2>1. \A s \in Service : Same(cont[s], cont'[s])
      BY <1>4 DEF Same
    <2> QED BY <1>1, <1>3, <1>4, <2>1, UnsavedStep
  <1>5. CASE /\ cont' = [cont EXCEPT ![Current] = Container("stopped", ConfigOf(Current), port)]
             /\ ReturnUnsaved({Current})
    <2>1. ConfigOf(Current) \in Config /\ port \in 0 .. MaxPort
      BY <1>2, ComposesAssumption DEF AppInv, Types, Compose, ConfigOf, Config
    <2>2. Container("stopped", ConfigOf(Current), port) \in Rec
      BY <2>1 DEF Container, Rec
    <2>3. /\ cont' \in [Service -> Rec]
          /\ \A s \in Service \ {Current} : Same(cont[s], cont'[s])
      BY <1>2, <1>3, <1>5, <2>2 DEF Same
    <2>4. {Current} \in SUBSET Service
      BY <1>2
    <2> QED BY <1>1, <1>5, <2>3, <2>4, UnsavedStep
  <1> QED BY <1>4, <1>5 DEF RunFails

\* A save that does not begin, and a kill: only when the file is already empty is
\* everything lost.
LEMMA EndedStep == ASSUME AppInv, SaveFails \/ Killed PROVE AppInv'
  <1> DEFINE also == IF stage = "write" THEN Existing ELSE {}
  <1>1. /\ ReturnUnsaved(also) /\ UNCHANGED <<compose, host, file, cont>>
    BY DEF SaveFails, Killed, world
  <1>2. also \in SUBSET Service /\ (stage = "write" => Existing \subseteq also)
    BY DEF Existing
  <1>3. cont' \in [Service -> Rec] /\ \A s \in Service : Same(cont[s], cont'[s])
    BY <1>1 DEF AppInv, Types, Same
  <1> HIDE DEF also
  <1> QED BY <1>1, <1>2, <1>3, UnsavedStep

\* The file is emptied first ...
LEMMA SaveOpenStep == ASSUME AppInv, SaveOpen PROVE AppInv'
  <1>1. /\ stage = "save" /\ file' = <<>> /\ stage' = "write"
        /\ UNCHANGED <<compose, host, cont, todo, state, claimed, needs_run, port, fresh, lost>>
    BY DEF SaveOpen, world, locals
  <1>2. Types'
    <2>1. <<>> \in Seq(Row)
      OBVIOUS
    <2> QED BY <1>1, <2>1 DEF AppInv, Types, Stages, Up
  <1>3. Single(file)' /\ Single(state)' /\ Quiet' /\ Filed' /\ Ports'
    BY <1>1 DEF AppInv, Single, Quiet, Up, Filed, Ports, CreatedPortsDistinct
  <1>4. Progress'
    <2>1. \A s \in Visited : Done(s)'
      BY <1>1, DoneKept DEF Up, Same
    <2>2. Visited' = Visited /\ Services' = Services
      BY <1>1 DEF Visited, Services
    <2>3. Waiting(todo, Visited)'
      BY <1>1, <2>2 DEF AppInv, Progress, Waiting, Up
    <2> QED BY <1>1, <2>1, <2>2, <2>3 DEF AppInv, Progress, Up
  <1> QED BY <1>2, <1>3, <1>4 DEF AppInv

\* ... and then has a true record of every service of the compose file.
LEMMA SaveWriteStep == ASSUME AppInv, SaveWrite PROVE AppInv'
  <1>1. /\ stage = "write" /\ Return /\ fresh' = {}
        /\ \/ file' = state /\ lost' = (lost \ fresh) \union (Existing \ Services)
           \/ file' = file /\ lost' = Existing
        /\ UNCHANGED <<compose, host, cont>>
    BY DEF SaveWrite, world
  <1>2. /\ stage' = "idle" /\ todo' = <<>> /\ state' = <<>> /\ claimed' = {}
        /\ needs_run' = TRUE /\ port' = 0
    BY <1>1 DEF Return
  <1>3. Types'
    <2>1. <<>> \in Seq(Row) /\ <<>> \in Seq(Service) /\ 0 \in 0 .. MaxPort
      BY BoundsAssumption
    <2> QED BY <2>1, <1>1, <1>2 DEF AppInv, Types, Stages, Existing
  <1>4. Single(file)' /\ Single(state)'
    BY <1>1, <1>2 DEF AppInv, Single
  <1>5. Quiet' /\ Progress' /\ Ports'
    BY <1>1, <1>2 DEF Quiet, Progress, Ports, Up, CreatedPortsDistinct
  <1>6. Filed'
    <2> SUFFICES ASSUME NEW s \in Service, cont[s].st # "none", s \notin lost',
                        file' = state, lost' = (lost \ fresh) \union (Existing \ Services)
                 PROVE  Tells(state, s, cont[s])
      BY <1>1 DEF Filed, Existing, Exists
    <2>1. s \in Services /\ (s \in fresh \/ s \notin lost)
      BY <1>1 DEF Existing, Exists
    <2>2. todo = <<>> /\ Services \subseteq Visited \union ToSet(todo)
      BY <1>1 DEF AppInv, Progress, Up
    <2>3. s \in Visited
      BY <2>1, <2>2 DEF ToSet
    <2> QED BY <2>1, <2>3, <1>1 DEF AppInv, Progress, Up, Done
  <1> QED BY <1>3, <1>4, <1>5, <1>6 DEF AppInv

\* The loop starts with all services, in an order that topo_sort has found.
LEMMA UpStartStep == ASSUME AppInv, UpStart PROVE AppInv'
  <1>1. /\ stage = "idle" /\ Plan.ok /\ todo' = Plan.out
        /\ stage' = (IF Plan.out = <<>> THEN "save" ELSE "decide")
        /\ UNCHANGED <<compose, host, cont, file, state, claimed, needs_run, port, fresh, lost>>
    BY DEF UpStart, world
  <1>2. /\ Plan.out \in Seq(Service) /\ Services \subseteq ToSet(Plan.out)
        /\ Waiting(Plan.out, {})
    BY <1>1, PlanSorted
  <1>3. Types'
    BY <1>1, <1>2 DEF AppInv, Types, Stages, Up
  <1>4. Single(file)' /\ Single(state)' /\ Quiet' /\ Filed' /\ Ports'
    BY <1>1 DEF AppInv, Single, Quiet, Up, Filed, Tells, Ports, CreatedPortsDistinct
  <1>5. Progress'
    <2>1. Visited = {} /\ Visited' = {} /\ fresh = {}
      BY <1>1 DEF AppInv, Quiet, Up, Visited
    <2>2. Services' = Services
      BY <1>1 DEF Services
    <2>3. Waiting(todo, Visited)'
      <3>1. todo' = Plan.out /\ Visited' = {} /\ compose' = compose
        BY <1>1, <2>1
      <3> QED BY <1>2, <3>1 DEF Waiting
    <2> QED BY <1>1, <1>2, <2>1, <2>2, <2>3 DEF Progress
  <1> QED BY <1>3, <1>4, <1>5 DEF AppInv

-----------------------------------------------------------------------------
(* app stop, app rm, and the rest of the world *)

\* A step outside of app_up.
LEMMA QuietStep ==
    ASSUME AppInv, stage \notin Up, stage' \in Stages \ Up, todo' \in Seq(Service),
           stage' \in {"stop", "rmstop"} => todo' # <<>>,
           UNCHANGED <<state, claimed, needs_run, port, fresh>>,
           compose' \in Composes, host' \in Address,
           cont' \in [Service -> Rec], file' \in Seq(Row), Single(file)', Filed'
    PROVE  AppInv'
  <1>1. Types'
    BY DEF AppInv, Types, Up
  <1>2. Single(state)' /\ Quiet' /\ Progress'
    BY DEF AppInv, Single, Quiet, Progress
  <1>3. Ports'
    BY DEF AppInv, Quiet, Ports, CreatedPortsDistinct, Up
  <1> QED BY <1>1, <1>2, <1>3 DEF AppInv

\* The services of the state file, either way round.
LEMMA NamesSeq ==
    ASSUME AppInv
    PROVE  /\ Names(file) \in Seq(Service) /\ Reverse(Names(file)) \in Seq(Service)
           /\ file # <<>> => Reverse(Names(file)) # <<>>
  <1> DEFINE n == Names(file)
  <1>1. /\ file \in Seq(Row) /\ Len(file) \in Nat /\ DOMAIN file = 1 .. Len(file)
    BY DEF AppInv, Types
  <1>0. ASSUME NEW i \in DOMAIN file PROVE file[i].service \in Service
    <2>1. file[i] \in Row
      BY <1>1
    <2> QED BY <2>1 DEF Row
  <1>2. n \in [1 .. Len(file) -> Service]
    BY <1>0, <1>1 DEF Names
  <1>3. n \in Seq(Service) /\ Len(n) = Len(file)
    BY <1>1, <1>2
  <1>4. Reverse(n) = [i \in 1 .. Len(n) |-> n[(Len(n) - i) + 1]]
    BY DEF Reverse
  <1>5. Reverse(n) \in [1 .. Len(file) -> Service]
    BY <1>1, <1>2, <1>3, <1>4
  <1> HIDE DEF n
  <1>6. Reverse(n) \in Seq(Service) /\ Len(Reverse(n)) = Len(file)
    BY <1>1, <1>5
  <1>7. file # <<>> => Len(file) # 0
    BY <1>1
  <1>8. Reverse(n) = <<>> => Len(Reverse(n)) = 0
    OBVIOUS
  <1> QED BY <1>3, <1>6, <1>7, <1>8 DEF n

\* stop and rm go by the state file.
LEMMA StopStartStep == ASSUME AppInv, StopStart PROVE AppInv'
  <1>1. /\ stage = "idle" /\ file # <<>> /\ todo' = Reverse(Names(file))
        /\ stage' \in {"stop", "rmstop"}
        /\ UNCHANGED <<compose, host, cont, file, state, claimed, needs_run, port, fresh, lost>>
    BY DEF StopStart, world
  <1>2. Filed' /\ Single(file)'
    BY <1>1 DEF AppInv, Filed, Tells, Single
  <1> QED BY <1>1, <1>2, NamesSeq, QuietStep DEF AppInv, Types, Stages, Up

\* Stopping a container changes neither its configuration nor its port.
LEMMA StopOneStep == ASSUME AppInv, StopOne PROVE AppInv'
  <1>1. /\ stage \in {"stop", "rmstop"} /\ AfterStop
        /\ cont' \in {cont, [cont EXCEPT ![Current] = Stopped(@)]}
        /\ UNCHANGED <<compose, host, file, state, claimed, needs_run, port, fresh, lost>>
    BY DEF StopOne, world
  <1>2. todo \in Seq(Service) /\ todo # <<>> /\ cont \in [Service -> Rec]
    BY <1>1 DEF AppInv, Types
  <1>3. Current \in Service /\ Tail(todo) \in Seq(Service)
    BY <1>2 DEF Current
  <1>4. /\ stage' \in Stages \ Up /\ todo' \in Seq(Service)
        /\ stage' \in {"stop", "rmstop"} => todo' # <<>>
    <2>1. CASE Tail(todo) # <<>>
      BY <2>1, <1>1, <1>3 DEF AfterStop, Stages, Up
    <2>2. CASE Tail(todo) = <<>> /\ stage = "rmstop"
      BY <2>2, <1>1, NamesSeq DEF AfterStop, Stages, Up
    <2>3. CASE Tail(todo) = <<>> /\ stage # "rmstop"
      BY <2>3, <1>1, <1>3 DEF AfterStop, Stages, Up
    <2> QED BY <2>1, <2>2, <2>3
  <1>5. cont' \in [Service -> Rec] /\ \A s \in Service : Same(cont[s], cont'[s])
    <2>1. CASE cont' = cont
      BY <2>1, <1>2 DEF Same
    <2>2. CASE cont' = [cont EXCEPT ![Current] = Stopped(@)]
      <3>1. Stopped(cont[Current]) \in Rec /\ Same(cont[Current], Stopped(cont[Current]))
        BY <1>2, <1>3, StoppedSame
      <3> QED BY <2>2, <3>1, <1>2, <1>3 DEF Same
    <2> QED BY <2>1, <2>2, <1>1
  <1>6. Filed' /\ Single(file)'
    BY <1>1, <1>4, <1>5 DEF AppInv, Filed, Tells, Same, Single, Up
  <1>7. stage \notin Up /\ compose' \in Composes /\ host' \in Address /\ file' \in Seq(Row)
    BY <1>1 DEF AppInv, Types, Up
  <1> QED BY <1>1, <1>4, <1>5, <1>6, <1>7, QuietStep

\* A container that is removed needs no record.
LEMMA RmOneStep == ASSUME AppInv, RmOne PROVE AppInv'
  <1>1. /\ stage = "rm" /\ todo # <<>> /\ todo' = Tail(todo)
        /\ \/ cont' = [cont EXCEPT ![Current] = Absent] /\ lost' = lost \ {Current}
           \/ UNCHANGED <<cont, lost>>
        /\ UNCHANGED <<compose, host, file, stage, state, claimed, needs_run, port, fresh>>
    BY DEF RmOne, world
  <1>2. /\ Current \in Service /\ Tail(todo) \in Seq(Service) /\ cont \in [Service -> Rec]
        /\ Absent \in Rec /\ Absent.st = "none"
    BY <1>1, BoundsAssumption DEF AppInv, Types, Current, Absent, Rec
  <1>3. cont' \in [Service -> Rec] /\ Filed'
    <2>1. CASE cont' = [cont EXCEPT ![Current] = Absent] /\ lost' = lost \ {Current}
      BY <2>1, <1>1, <1>2 DEF AppInv, Filed, Tells
    <2>2. CASE UNCHANGED <<cont, lost>>
      BY <2>2, <1>1, <1>2 DEF AppInv, Filed, Tells
    <2> QED BY <2>1, <2>2, <1>1
  <1>4. Single(file)'
    BY <1>1 DEF AppInv, Single
  <1>5. stage \notin Up /\ compose' \in Composes /\ host' \in Address /\ file' \in Seq(Row)
        /\ stage' \in Stages \ Up /\ stage' \notin {"stop", "rmstop"}
    BY <1>1 DEF AppInv, Types, Up, Stages
  <1> QED BY <1>1, <1>2, <1>3, <1>4, <1>5, QuietStep

\* What could not be removed when the state file is deleted is lost.
LEMMA ForgetStep == ASSUME AppInv, Forget PROVE AppInv'
  <1>1. /\ stage = "rm" /\ file' = <<>> /\ lost' = Existing /\ Return
        /\ UNCHANGED <<compose, host, cont, fresh>>
    BY DEF Forget, world
  <1>2. fresh = {} /\ cont \in [Service -> Rec]
    BY <1>1 DEF AppInv, Quiet, Up, Types
  <1>3. Filed'
    BY <1>1 DEF Filed, Existing, Exists
  <1>4. stage' \in Stages \ Up /\ stage' = "idle" /\ todo' = <<>> /\ state' = <<>>
        /\ claimed' = {} /\ needs_run' = TRUE /\ port' = 0
    BY <1>1 DEF Return, Stages, Up
  <1>5. Types'
    <2>1. <<>> \in Seq(Row) /\ <<>> \in Seq(Service) /\ 0 \in 0 .. MaxPort
      BY BoundsAssumption
    <2> QED BY <2>1, <1>1, <1>2, <1>4 DEF AppInv, Types
  <1>6. Single(file)' /\ Single(state)' /\ Quiet' /\ Progress' /\ Ports'
    BY <1>1, <1>2, <1>4 DEF Single, Quiet, Progress, Ports, CreatedPortsDistinct
  <1> QED BY <1>3, <1>5, <1>6 DEF AppInv

\* Between two commands the compose file and the address may change.
LEMMA MeanwhileStep == ASSUME AppInv, Meanwhile PROVE AppInv'
  <1>1. /\ stage = "idle"
        /\ UNCHANGED <<file, stage, todo, state, claimed, needs_run, port, fresh>>
    BY DEF Meanwhile, locals
  <1>2. /\ compose' \in Composes /\ host' \in Address
        /\ \/ UNCHANGED <<cont, lost>>
           \/ \E s \in Service : cont' = [cont EXCEPT ![s] = Absent] /\ lost' = lost \ {s}
    BY DEF Meanwhile, Existing, AppInv, Types
  <1>3. cont \in [Service -> Rec] /\ Absent \in Rec /\ Absent.st = "none"
    BY BoundsAssumption DEF AppInv, Types, Absent, Rec
  <1>4. cont' \in [Service -> Rec] /\ Filed'
    <2>1. CASE UNCHANGED <<cont, lost>>
      BY <2>1, <1>1, <1>3 DEF AppInv, Filed, Tells
    <2>2. ASSUME NEW s \in Service, cont' = [cont EXCEPT ![s] = Absent], lost' = lost \ {s}
          PROVE  cont' \in [Service -> Rec] /\ Filed'
      BY <2>2, <1>1, <1>3 DEF AppInv, Filed, Tells
    <2> QED BY <2>1, <2>2, <1>2
  <1>5. Single(file)'
    BY <1>1 DEF AppInv, Single
  <1>6. stage \notin Up /\ file' \in Seq(Row) /\ todo' \in Seq(Service)
        /\ stage' \in Stages \ Up /\ stage' \notin {"stop", "rmstop"}
    BY <1>1 DEF AppInv, Types, Up, Stages
  <1> QED BY <1>1, <1>2, <1>4, <1>5, <1>6, QuietStep

\* Listeners, exits and other programs leave configurations and ports alone.
LEMMA WorldStep ==
    ASSUME AppInv, Listen \/ ContainerExits \/ ForeignPorts \/ UNCHANGED vars
    PROVE  AppInv'
  <1>1. UNCHANGED <<compose, host, file, stage, locals, fresh, lost>>
    BY DEF Listen, ContainerExits, ForeignPorts, world, locals, vars
  <1>2. cont \in [Service -> Rec]
    BY DEF AppInv, Types
  <1>3. \/ UNCHANGED cont
        \/ \E s \in Service : \/ cont' = [cont EXCEPT ![s].listening = TRUE]
                              \/ cont' = [cont EXCEPT ![s] = Stopped(@)]
    BY DEF Listen, ContainerExits, ForeignPorts, vars
  <1>4. cont' \in [Service -> Rec] /\ \A s \in Service : Same(cont[s], cont'[s])
    <2>1. CASE UNCHANGED cont
      BY <2>1, <1>2 DEF Same
    <2>2. ASSUME NEW s \in Service, NEW c \in Rec, Same(cont[s], c),
                 cont' = [cont EXCEPT ![s] = c]
          PROVE  cont' \in [Service -> Rec] /\ \A t \in Service : Same(cont[t], cont'[t])
      BY <2>2, <1>2 DEF Same
    <2>3. ASSUME NEW s \in Service
          PROVE  /\ [cont[s] EXCEPT !.listening = TRUE] \in Rec
                 /\ Same(cont[s], [cont[s] EXCEPT !.listening = TRUE])
                 /\ Stopped(cont[s]) \in Rec /\ Same(cont[s], Stopped(cont[s]))
      <3>1. cont[s] \in Rec
        BY <1>2
      <3> QED BY <3>1, StoppedSame DEF Rec, Same
    <2> QED BY <1>3, <2>1, <2>2, <2>3
  <1> QED BY <1>1, <1>4, ShapesStep

-----------------------------------------------------------------------------
(* The invariant is one *)

\* It holds at the beginning.
LEMMA AppInit == Init => AppInv
  <1> SUFFICES ASSUME Init PROVE AppInv
    OBVIOUS
  <1>1. /\ compose \in Composes /\ host \in Address /\ cont = [s \in Service |-> Absent]
        /\ file = <<>> /\ stage = "idle" /\ todo = <<>> /\ state = <<>> /\ claimed = {}
        /\ needs_run = TRUE /\ port = 0 /\ fresh = {}
    BY DEF Init
  <1>2. Types
    <2>1. Absent \in Rec /\ 0 \in 0 .. MaxPort /\ <<>> \in Seq(Row) /\ <<>> \in Seq(Service)
      BY BoundsAssumption DEF Absent, Rec
    <2>2. cont \in [Service -> Rec]
      BY <1>1, <2>1
    <2> QED BY <1>1, <2>1, <2>2 DEF Types, Stages
  <1>3. Single(file) /\ Single(state) /\ Quiet /\ Progress /\ Ports
    BY <1>1 DEF Single, Quiet, Progress, Ports, CreatedPortsDistinct, Up
  <1>4. Filed
    BY <1>1 DEF Filed, Absent
  <1> QED BY <1>2, <1>3, <1>4 DEF AppInv

\* Every step keeps the invariant.
LEMMA AppNext == AppInv /\ [Next]_vars => AppInv'
  BY UpStartStep, KeepStep, RemoveStep, KeepPortsStep, ChoosePortStep, RunStep,
     RunFailsStep, SaveOpenStep, EndedStep, SaveWriteStep, StopStartStep, StopOneStep,
     RmOneStep, ForgetStep, MeanwhileStep, WorldStep DEF Next

-----------------------------------------------------------------------------
(* The theorems *)

\* The state file tells the configuration and the host port that each container
\* has, but for the containers of an app_up that did not reach save_state or whose
\* save was cut short.
THEOREM StateFileIsTrue == Spec => []StateFileTrue
  <1>1. AppInv => StateFileTrue
    <2> SUFFICES ASSUME AppInv, stage # "write", NEW s \in Existing \ (fresh \union lost)
                 PROVE  \E r \in Record(s) : r.hash = Hash(cont[s].cfg) /\ r.port = cont[s].port
      BY DEF StateFileTrue
    <2>1. Tells(file, s, cont[s])
      BY DEF AppInv, Filed, Existing, Exists
    <2> QED BY <2>1 DEF Tells, Record, ToSet, Hash
  <1> QED BY <1>1, AppInit, AppNext, PTL DEF Spec

\* At its save_state app_up has brought every service of the compose file to the
\* configuration that file gives it.
THEOREM UpReachesFile == Spec => []UpConverges
  <1>1. AppInv => UpConverges
    <2> SUFFICES ASSUME AppInv, stage \in {"save", "write"}, NEW s \in Services
                 PROVE  Exists(s) /\ (cont[s].cfg = ConfigOf(s) \/ s \in lost)
      BY DEF UpConverges
    <2>1. todo = <<>> /\ s \in Visited \union ToSet(todo) /\ \A v \in Visited : Done(v)
      BY DEF AppInv, Progress, Up
    <2>2. ToSet(<<>>) = {}
      BY DEF ToSet
    <2> QED BY <2>1, <2>2 DEF Done
  <1> QED BY <1>1, AppInit, AppNext, PTL DEF Spec

\* claimed_ports keeps the ports of the services that one app_up creates apart.
THEOREM PortsAreDistinct == Spec => []CreatedPortsDistinct
  <1>1. AppInv => CreatedPortsDistinct
    BY DEF AppInv, Ports
  <1> QED BY <1>1, AppInit, AppNext, PTL DEF Spec

\* app_up creates a service only after those it depends on: the order of topo_sort
\* reaches the containers.
THEOREM DependenciesAreThere == Spec => []DependenciesFirst
  <1>1. AppInv => DependenciesFirst
    <2> SUFFICES ASSUME AppInv, NEW s \in fresh, NEW d \in ToSet(compose.deps[s])
                 PROVE  Exists(d)
      BY DEF DependenciesFirst
    <2>1. stage \in Up
      BY DEF AppInv, Quiet
    <2> QED BY <2>1 DEF AppInv, Progress, Done
  <1> QED BY <1>1, AppInit, AppNext, PTL DEF Spec

===============================================================================
