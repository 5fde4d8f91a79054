------------------------------ MODULE TopProofs ----------------------------
(***************************************************************************)
(* The safety of the dashboard for any set of containers, any bounds and   *)
(* any interval: what `k` asks about and stops, what the snapshot store    *)
(* holds, and the rates it shows.                                          *)
(***************************************************************************)
EXTENDS TopProps, FiniteSetTheorems, TLAPS

-----------------------------------------------------------------------------
(* What is stopped was asked about *)

\* A question that the loop may still answer was drawn, or asked since the last
\* frame; while the answer is carried out there is no question.
Asked ==
    /\ (upc = "poll" /\ confirm # NoName) => (blind \/ confirm = drawn.prompt)
    /\ upc \in {"stop", "load", "store"} => confirm = NoName
    /\ StopsWhatWasAsked

\* The initial frame has no question.
LEMMA AskedInit == TopInit => Asked
  BY DEF TopInit, Asked, StopsWhatWasAsked

\* Steps of the sampler, of others and of the signal handlers leave the loop's
\* variables alone.
LEMMA AskedOther ==
    ASSUME Asked, upc' = upc, UNCHANGED <<confirm, target, drawn, blind>>
    PROVE  Asked'
  BY DEF Asked, StopsWhatWasAsked

\* The steps of the render loop.
LEMMA AskedRender == Asked /\ Render => Asked'
  <1> SUFFICES ASSUME Asked, Render PROVE Asked'
    OBVIOUS
  <1> USE DEF Asked, StopsWhatWasAsked
  <1>1. CASE Enter
    BY <1>1 DEF Enter
  <1>2. CASE Draw
    BY <1>2 DEF Draw
  <1>3. CASE Interrupted
    BY <1>3 DEF Interrupted, Quits
  <1>4. CASE FrameEnds
    BY <1>4 DEF FrameEnds
  <1>5. CASE QuitKey
    BY <1>5 DEF QuitKey, Quits
  <1>6. CASE Select
    BY <1>6 DEF Select, Press, Pressed
  <1>7. CASE SortKey
    BY <1>7 DEF SortKey, Press, Pressed
  <1>8. CASE IntervalKey
    BY <1>8 DEF IntervalKey, Press, Pressed
  <1>9. CASE FirstKill
    BY <1>9 DEF FirstKill, Press, Pressed
  <1>10. CASE SecondKill
    BY <1>10 DEF SecondKill, Press, Pressed
  <1>11. CASE IgnoredKey
    BY <1>11 DEF IgnoredKey, Press, Pressed
  <1>12. CASE StopWorks
    BY <1>12 DEF StopWorks
  <1>13. CASE StopFails
    BY <1>13 DEF StopFails
  <1>14. CASE LoadSnapshot
    BY <1>14 DEF LoadSnapshot
  <1>15. CASE StoreSnapshot
    BY <1>15 DEF StoreSnapshot
  <1>16. CASE Leave
    BY <1>16 DEF Leave
  <1> QED
    BY <1>1, <1>2, <1>3, <1>4, <1>5, <1>6, <1>7, <1>8, <1>9, <1>10, <1>11, <1>12, <1>13,
       <1>14, <1>15, <1>16 DEF Render

\* Every step of the program, or none.
LEMMA AskedNext == Asked /\ [Next]_vars => Asked'
  <1> SUFFICES ASSUME Asked, [Next]_vars PROVE Asked'
    OBVIOUS
  <1>1. CASE (Sampler \/ (~stop /\ Environment)) /\ UNCHANGED ui
    BY <1>1, AskedOther DEF ui
  <1>2. CASE Signal
    BY <1>2, AskedOther DEF Signal
  <1>3. CASE Render
    BY <1>3, AskedRender
  <1>4. CASE UNCHANGED vars
    BY <1>4, AskedOther DEF vars, ui
  <1> QED
    BY <1>1, <1>2, <1>3, <1>4 DEF Next

\* The second `k` stops what the first one asked about.
THEOREM StopsOnlyWhatWasAsked == Spec => []StopsWhatWasAsked
  <1>1. Asked => StopsWhatWasAsked
    BY DEF Asked
  <1> QED
    BY <1>1, AskedInit, AskedNext, PTL DEF Spec

-----------------------------------------------------------------------------
(* What the store holds *)

Busy == spc \in {"stats", "missed", "keep", "ls", "store"}
Like(a, b) == a.rows = b.rows /\ a.missed = b.missed

\* A record with the fields of a snapshot.
IsSnapshot(s) == s = [rows |-> s.rows, missed |-> s.missed, count |-> s.count, error |-> s.error]

\* Snapshots are numbered by passes, and a pass that runs has not stored its own.
NumbersInv ==
    /\ count \in Nat /\ misses \in Nat
    /\ snap.count \in Nat /\ copy.count \in Nat
    /\ snap.missed \in Nat /\ copy.missed \in Nat
    /\ IsSnapshot(snap) /\ IsSnapshot(copy)
    /\ snap.count <= count /\ (upc = "store" => copy.count <= count)
    /\ Busy => snap.count < count /\ (upc = "store" => copy.count < count)

\* The copy a failed stop puts back is the snapshot itself but for the message,
\* if it has the snapshot's number.
CopyInv ==
    (upc = "store" /\ copy.count = snap.count) => Like(copy, snap)

\* Where the sampler is in its pass, and what that says of the store.
StageInv ==
    /\ spc \in {"top", "stats", "missed", "keep", "ls", "store", "sleep", "exited"}
    /\ spc \in {"ls", "store"} => misses = 0
    /\ spc \in {"missed", "keep"} => misses > 0
    /\ ~clobbered =>
          /\ spc \in {"top", "sleep", "exited"} => snap.count = count
          /\ spc \in {"top", "stats", "sleep", "exited"} => snap.missed = misses /\ snap.rows = good
          /\ spc \in {"missed", "keep"} => snap.missed = misses - 1 /\ snap.rows = good
          /\ spc = "keep" => cached.missed = misses - 1 /\ cached.rows = good
    /\ spc = "keep" => cached.missed \in Nat

StoreInv == NumbersInv /\ CopyInv /\ StageInv

\* The store, the counters and the rows start empty and agree.
LEMMA StoreInvInit == TopInit => StoreInv
  <1> SUFFICES ASSUME TopInit PROVE StoreInv
    OBVIOUS
  <1>1. /\ snap = [rows |-> {}, missed |-> 0, count |-> 0, error |-> ""]
        /\ copy = [rows |-> {}, missed |-> 0, count |-> 0, error |-> ""]
        /\ upc = "enter" /\ spc = "top" /\ count = 0 /\ misses = 0 /\ good = {}
    BY DEF TopInit, SamplerInit, NoSnap
  <1>2. snap.count = 0 /\ snap.missed = 0 /\ copy.count = 0 /\ copy.missed = 0
    BY <1>1
  <1>3. IsSnapshot(snap) /\ IsSnapshot(copy)
    BY <1>1, Zenon DEF IsSnapshot
  <1>4. NumbersInv
    <2>1. ~Busy
      BY <1>1 DEF Busy
    <2>2. 0 \in Nat /\ 0 <= 0
      OBVIOUS
    <2> QED
      BY <1>1, <1>2, <1>3, <2>1, <2>2, Zenon DEF NumbersInv
  <1>5. CopyInv /\ StageInv
    BY <1>1 DEF CopyInv, StageInv
  <1> QED
    BY <1>4, <1>5 DEF StoreInv

\* What neither touches the store nor begins to write it keeps the invariant.
LEMMA StoreElsewhere ==
    ASSUME StoreInv,
           UNCHANGED <<snap, spc, count, cached, misses, good, clobbered, copy>>,
           upc' # "store" \/ upc' = upc
    PROVE  StoreInv'
  BY DEF StoreInv, NumbersInv, CopyInv, StageInv, Busy, Like, IsSnapshot

\* A pass that ends, with a snapshot of its own.
StoresPass(rows, missed, error) ==
    /\ snap' = [rows |-> rows, missed |-> missed, count |-> count, error |-> error]
    /\ spc \in {"keep", "store"} /\ spc' = "sleep"
    /\ UNCHANGED <<count, misses>>

\* Its number is that of the pass, which no copy has.
LEMMA StorePassNumbers ==
    ASSUME StoreInv, UNCHANGED <<upc, copy>>,
           NEW rows, NEW missed \in Nat, NEW error, StoresPass(rows, missed, error)
    PROVE  NumbersInv' /\ CopyInv'
  <1>1. /\ snap'.rows = rows /\ snap'.missed = missed /\ snap'.count = count
        /\ snap'.error = error
    BY DEF StoresPass
  <1>2. IsSnapshot(snap)'
    BY <1>1 DEF StoresPass, IsSnapshot
  <1>3. UNCHANGED <<upc, copy, count, misses>> /\ spc' = "sleep" /\ Busy
    BY DEF StoresPass, Busy
  <1>4. IsSnapshot(copy)'
    BY <1>3 DEF StoreInv, NumbersInv, IsSnapshot
  <1>5. NumbersInv'
    BY <1>1, <1>2, <1>3, <1>4 DEF StoreInv, NumbersInv, Busy
  <1>6. CopyInv'
    BY <1>1, <1>3 DEF StoreInv, NumbersInv, CopyInv
  <1> QED
    BY <1>5, <1>6

\* The steps of the sampler.
LEMMA StoreSampler == StoreInv /\ Sampler /\ UNCHANGED ui => StoreInv'
  <1> SUFFICES ASSUME StoreInv, Sampler, UNCHANGED ui PROVE StoreInv'
    OBVIOUS
  <1>0. UNCHANGED <<upc, copy>>
    BY DEF ui
  <1> USE <1>0 DEF StoreInv, NumbersInv, CopyInv, StageInv, Busy, Like, IsSnapshot
  <1>1. CASE Begin
    BY <1>1 DEF Begin, history
  <1>2. CASE SamplerEnds
    BY <1>2 DEF SamplerEnds, locals, history
  <1>3. CASE Wake
    BY <1>3 DEF Wake, locals, history
  <1>4. CASE StatsMisses
    <2>1. /\ spc = "stats" /\ spc' = "missed" /\ misses' = misses + 1
          /\ UNCHANGED <<snap, count, cached, good, clobbered>>
      BY <1>4 DEF StatsMisses
    <2>2. IsSnapshot(snap)' /\ IsSnapshot(copy)'
      BY <2>1, Zenon
    <2>3. NumbersInv'
      <3> HIDE DEF IsSnapshot
      <3> QED
        BY <2>1, <2>2
    <2>4. CopyInv'
      BY <2>1
    <2>5. StageInv'
      BY <2>1
    <2> QED
      BY <2>3, <2>4, <2>5
  <1>5. CASE MissedLoad
    <2>1. cached' = [rows |-> snap.rows, missed |-> snap.missed] /\ spc' = "keep" /\ spc = "missed"
      BY <1>5 DEF MissedLoad
    <2>2. UNCHANGED <<snap, count, misses, good, clobbered>>
      BY <1>5 DEF MissedLoad, history
    <2>3. cached'.missed = snap.missed /\ cached'.rows = snap.rows
      BY <2>1
    <2>4. NumbersInv' /\ CopyInv'
      BY <2>1, <2>2
    <2>5. StageInv'
      BY <2>1, <2>2, <2>3
    <2> QED
      BY <2>4, <2>5
  <1>6. CASE MissedStore
    <2>1. /\ snap' = [rows |-> cached.rows, missed |-> cached.missed + 1, count |-> count,
                      error |-> err]
          /\ spc = "keep" /\ spc' = "sleep"
      BY <1>6 DEF MissedStore
    <2>2. UNCHANGED <<count, misses, good, clobbered>>
      BY <1>6 DEF MissedStore, history
    <2>3. StoresPass(cached.rows, cached.missed + 1, err)
      BY <2>1, <2>2 DEF StoresPass
    <2>4. NumbersInv' /\ CopyInv'
      <3>1. cached.missed + 1 \in Nat
        BY <2>1
      <3> HIDE DEF StoreInv, NumbersInv, CopyInv, StageInv, Busy, Like, IsSnapshot
      <3> QED
        BY <1>0, <2>3, <3>1, StorePassNumbers
    <2>5. StageInv'
      BY <2>1, <2>2
    <2> QED
      BY <2>4, <2>5
  <1>7. CASE StatsAnswers
    BY <1>7 DEF StatsAnswers
  <1>8. CASE AskList
    BY <1>8 DEF AskList, history
  <1>9. CASE StorePass
    <2>1. /\ snap' = [rows |-> Rows, missed |-> 0, count |-> count, error |-> err]
          /\ spc = "store" /\ spc' = "sleep"
          /\ good' = Rows /\ UNCHANGED <<count, misses>>
      BY <1>9 DEF StorePass
    <2>2. StoresPass(Rows, 0, err)
      BY <2>1 DEF StoresPass
    <2>3. NumbersInv' /\ CopyInv'
      BY <2>2, StorePassNumbers
    <2>4. StageInv'
      BY <2>1
    <2> QED
      BY <2>3, <2>4
  <1> QED
    BY <1>1, <1>2, <1>3, <1>4, <1>5, <1>6, <1>7, <1>8, <1>9 DEF Sampler

\* The failed stop: the snapshot is copied ...
LEMMA StoreLoad == StoreInv /\ LoadSnapshot => StoreInv'
  <1> SUFFICES ASSUME StoreInv, LoadSnapshot PROVE StoreInv'
    OBVIOUS
  <1>1. copy' = [rows |-> snap.rows, missed |-> snap.missed, count |-> snap.count, error |-> "stop"]
    <2>1. snap = [rows |-> snap.rows, missed |-> snap.missed, count |-> snap.count,
                  error |-> snap.error]
      BY DEF StoreInv, NumbersInv, IsSnapshot
    <2>2. copy' = [snap EXCEPT !.error = "stop"]
      BY DEF LoadSnapshot
    <2> QED
      BY <2>1, <2>2
  <1>2. UNCHANGED <<snap, spc, count, cached, misses, good, clobbered>>
    BY DEF LoadSnapshot, samplerVars
  <1> QED
    BY <1>1, <1>2 DEF StoreInv, NumbersInv, CopyInv, StageInv, Busy, Like, IsSnapshot

\* ... and put back.
LEMMA StorePutBack == StoreInv /\ StoreSnapshot => StoreInv'
  <1> SUFFICES ASSUME StoreInv, StoreSnapshot PROVE StoreInv'
    OBVIOUS
  <1>1. copy' = [rows |-> {}, missed |-> 0, count |-> 0, error |-> ""] /\ upc' = "poll"
    BY DEF StoreSnapshot, NoSnap
  <1>2. snap' = copy /\ clobbered' = (clobbered \/ copy.count # snap.count)
    BY DEF StoreSnapshot
  <1>3. UNCHANGED <<spc, count, cached, misses, good>>
    BY DEF StoreSnapshot, locals, history
  <1>4. upc = "store"
    BY DEF StoreSnapshot
  <1>5. NumbersInv' /\ CopyInv'
    BY <1>1, <1>2, <1>3, <1>4 DEF StoreInv, NumbersInv, CopyInv, Busy, IsSnapshot
  <1>6. ~clobbered' => ~clobbered /\ Like(copy, snap) /\ copy.count = snap.count
    BY <1>2, <1>4 DEF StoreInv, CopyInv
  <1>7. StageInv'
    BY <1>1, <1>2, <1>3, <1>6 DEF StoreInv, StageInv, Like
  <1> QED
    BY <1>5, <1>7 DEF StoreInv

\* The steps of the render loop.
LEMMA StoreRender == StoreInv /\ Render => StoreInv'
  <1> SUFFICES ASSUME StoreInv, Render PROVE StoreInv'
    OBVIOUS
  <1> USE DEF samplerVars, locals, history
  <1>1. CASE Enter
    BY <1>1, StoreElsewhere DEF Enter
  <1>2. CASE Draw
    BY <1>2, StoreElsewhere DEF Draw
  <1>3. CASE Interrupted
    BY <1>3, StoreElsewhere DEF Interrupted, Quits, StaysIn
  <1>4. CASE FrameEnds
    BY <1>4, StoreElsewhere DEF FrameEnds
  <1>5. CASE QuitKey
    BY <1>5, StoreElsewhere DEF QuitKey, Quits, StaysIn
  <1>6. CASE Select
    BY <1>6, StoreElsewhere DEF Select
  <1>7. CASE SortKey
    BY <1>7, StoreElsewhere DEF SortKey
  <1>8. CASE IntervalKey
    BY <1>8, StoreElsewhere DEF IntervalKey
  <1>9. CASE FirstKill
    BY <1>9, StoreElsewhere DEF FirstKill
  <1>10. CASE SecondKill
    BY <1>10, StoreElsewhere DEF SecondKill
  <1>11. CASE IgnoredKey
    BY <1>11, StoreElsewhere DEF IgnoredKey
  <1>12. CASE StopWorks
    BY <1>12, StoreElsewhere DEF StopWorks
  <1>13. CASE StopFails
    BY <1>13, StoreElsewhere DEF StopFails
  <1>14. CASE LoadSnapshot
    BY <1>14, StoreLoad
  <1>15. CASE StoreSnapshot
    BY <1>15, StorePutBack
  <1>16. CASE Leave
    BY <1>16, StoreElsewhere DEF Leave
  <1> QED
    BY <1>1, <1>2, <1>3, <1>4, <1>5, <1>6, <1>7, <1>8, <1>9, <1>10, <1>11, <1>12, <1>13,
       <1>14, <1>15, <1>16 DEF Render

\* Every step of the program, or none.
LEMMA StoreInvNext == StoreInv /\ [Next]_vars => StoreInv'
  <1> SUFFICES ASSUME StoreInv, [Next]_vars PROVE StoreInv'
    OBVIOUS
  <1>1. CASE Sampler /\ UNCHANGED ui
    BY <1>1, StoreSampler
  <1>2. CASE Environment /\ UNCHANGED ui
    <2>1. UNCHANGED <<snap, spc, count, cached, misses, good, clobbered, copy, upc>>
      BY <1>2 DEF Environment, ContainerStarts, ContainerStops, ui, locals, history
    <2> QED
      BY <2>1, StoreElsewhere
  <1>3. CASE Signal
    BY <1>3, StoreElsewhere DEF Signal, samplerVars
  <1>4. CASE Render
    BY <1>4, StoreRender
  <1>5. CASE UNCHANGED vars
    BY <1>5, StoreElsewhere DEF vars, ui, samplerVars
  <1> QED
    BY <1>1, <1>2, <1>3, <1>4, <1>5 DEF Next

\* Between two passes the store is what the last pass found, unless a failed
\* stop has put an older snapshot over it.
THEOREM StoreHoldsLastPass == Spec => []StoreIsLastPass
  <1>1. StoreInv => StoreIsLastPass
    BY DEF StoreInv, StageInv, StoreIsLastPass
  <1> QED
    BY <1>1, StoreInvInit, StoreInvNext, PTL DEF Spec

-----------------------------------------------------------------------------
(* The rates *)

Newest == hist[Len(hist)]

\* A pass, as the history keeps it.
Passes == [born : UNION {[S -> Nat] : S \in SUBSET Container}, itv : Nat]

\* The counters of map are those of the pass p, t being the time it was made.
CountersOf(map, p, t) ==
    \A c \in DOMAIN p.born : c \in DOMAIN map /\ map[c] = t - p.born[c]

ClockInv ==
    /\ clock \in Nat /\ itv \in Nat /\ interval \in Nat
    /\ born \in [Container -> Nat] /\ up \subseteq Container
    /\ hist \in Seq(Passes) /\ Len(hist) <= 2

\* Which map holds the counters of which pass: `prev' those of the newest one
\* until the next answer of stats, which makes it the one before; `now' those of
\* the pass that is being made.  Time moves by the interval of the newest pass,
\* between it and the next.
MapsInv ==
    /\ spc = "sleep" => hist # <<>> /\ Newest.itv = itv /\ CountersOf(prev, Newest, clock)
    /\ ((spc = "top" /\ ~stop) \/ spc = "stats") /\ hist # <<>> =>
          CountersOf(prev, Newest, clock - Newest.itv)
    /\ spc \in {"missed", "keep", "ls", "store"} => hist # <<>> /\ Newest.itv = itv
    /\ spc \in {"missed", "keep"} => DOMAIN Newest.born = {}
    /\ spc \in {"ls", "store"} =>
          /\ DOMAIN now = DOMAIN Newest.born /\ CountersOf(now, Newest, clock)
          /\ Len(hist) = 2 => CountersOf(prev, hist[1], clock - hist[1].itv)
    /\ RateIsTrue

RateInv == ClockInv /\ MapsInv

\* Nothing is known of any counter at first.
LEMMA RateInit == TopInit => RateInv
  <1> SUFFICES ASSUME TopInit PROVE RateInv
    OBVIOUS
  <1>1. /\ hist = <<>> /\ spc = "top" /\ clock = 0 /\ itv = 0 /\ interval = Clamp(Interval)
        /\ born = [c \in Container |-> 0] /\ up = Running
    BY DEF TopInit, SamplerInit
  <1>2. interval \in Nat
    BY <1>1, SamplerAssumption DEF Clamp
  <1>3. ClockInv
    BY <1>1, <1>2, SamplerAssumption DEF ClockInv
  <1>4. MapsInv
    BY <1>1 DEF MapsInv, RateIsTrue
  <1> QED
    BY <1>3, <1>4 DEF RateInv

\* Steps that leave the maps, the history, the rows and the sampler's place alone,
\* and do not take back the order to stop.
LEMMA RateElsewhere ==
    ASSUME RateInv, UNCHANGED <<clock, itv, hist, spc, prev, now, good>>,
           stop => stop',
           interval' \in Nat, born' \in [Container -> Nat], up' \subseteq Container
    PROVE  RateInv'
  BY DEF RateInv, ClockInv, MapsInv, RateIsTrue, CountersOf, Newest

\* A pass is remembered as the newest, and the one that was becomes the other.
LEMMA Remembered ==
    ASSUME ClockInv, NEW S \in SUBSET Container, Remember(S), UNCHANGED <<clock, itv, interval, born, up>>
    PROVE  /\ ClockInv' /\ hist' # <<>>
           /\ Newest'.itv = itv /\ Newest'.born = [c \in S |-> born[c]]
           /\ Len(hist') = 2 => hist # <<>> /\ hist'[1] = Newest
  <1> DEFINE p == Pass(S)
  <1>1. p \in Passes /\ p.itv = itv /\ p.born = [c \in S |-> born[c]]
    BY DEF Pass, Passes, ClockInv
  <1>2. hist' = IF hist = <<>> THEN <<p>> ELSE <<Newest, p>>
    BY DEF Remember, Last, Newest
  <1>3. hist # <<>> => Newest \in Passes
    BY DEF ClockInv, Newest
  <1> HIDE DEF p
  <1> QED
    BY <1>1, <1>2, <1>3 DEF ClockInv, Newest

\* Over takes the counters of the pass, whatever it puts them over.
LEMMA OverCounts ==
    ASSUME NEW p, NEW t, NEW raws, NEW map, DOMAIN raws = DOMAIN p.born, CountersOf(raws, p, t)
    PROVE  CountersOf(Over(raws, map), p, t)
  BY DEF CountersOf, Over

\* The rate of a container two passes saw is what it used between them.
LEMMA DeltaIsUse ==
    ASSUME ClockInv, Len(hist) = 2, CountersOf(now, hist[2], clock), DOMAIN now = DOMAIN hist[2].born,
           CountersOf(prev, hist[1], clock - hist[1].itv), hist[1].itv = hist[2].itv,
           NEW c \in DOMAIN hist[1].born \intersect DOMAIN hist[2].born,
           hist[1].born[c] = hist[2].born[c]
    PROVE  \E r \in Rows : r.name = c /\ r.delta = hist[2].itv
  <1>1. hist[1] \in Passes /\ hist[2] \in Passes
    <2>1. hist \in Seq(Passes) /\ Len(hist) = 2
      BY DEF ClockInv
    <2>2. \A S : \A s \in Seq(S) : \A i \in 1 .. Len(s) : s[i] \in S
      OBVIOUS
    <2>3. 1 \in 1 .. Len(hist) /\ 2 \in 1 .. Len(hist)
      BY <2>1
    <2> QED
      BY <2>1, <2>2, <2>3, Zenon
  <1>2. hist[1].born[c] \in Nat /\ hist[1].itv \in Nat /\ clock \in Nat
    BY <1>1 DEF Passes, ClockInv
  <1>3. /\ c \in DOMAIN prev /\ prev[c] = clock - hist[1].itv - hist[1].born[c]
        /\ c \in DOMAIN now /\ now[c] = clock - hist[1].born[c]
    BY DEF CountersOf
  <1>4. now[c] >= prev[c] /\ now[c] - prev[c] = hist[2].itv
    BY <1>2, <1>3
  <1>5. Delta(c) = hist[2].itv
    BY <1>3, <1>4 DEF Delta
  <1>6. Row(c) \in Rows
    BY <1>3 DEF Rows
  <1>7. Row(c).name = c /\ Row(c).delta = hist[2].itv
    BY <1>5 DEF Row
  <1> QED
    BY <1>6, <1>7

\* The steps of the sampler.
LEMMA RateSampler == RateInv /\ Sampler => RateInv'
  <1> SUFFICES ASSUME RateInv, Sampler PROVE RateInv'
    OBVIOUS
  <1>1. CASE Begin
    <2>1. /\ spc = "top" /\ ~stop /\ spc' = "stats" /\ itv' = interval
          /\ UNCHANGED <<up, born, clock, interval, hist, prev, now, good>>
      BY <1>1 DEF Begin, world, history
    <2> QED
      BY <2>1 DEF RateInv, ClockInv, MapsInv, RateIsTrue, Newest, CountersOf
  <1>2. CASE SamplerEnds
    <2>1. /\ spc' = "exited"
          /\ UNCHANGED <<up, born, clock, interval, hist, prev, now, good, itv>>
      BY <1>2 DEF SamplerEnds, world, locals, history
    <2> QED
      BY <2>1 DEF RateInv, ClockInv, MapsInv, RateIsTrue, Newest, CountersOf
  <1>3. CASE Wake
    <2>1. /\ spc = "sleep" /\ spc' = "top" /\ clock' = IF stop THEN clock ELSE clock + itv
          /\ UNCHANGED <<up, born, interval, hist, prev, now, good, itv, stop>>
      BY <1>3 DEF Wake, world, locals, history
    <2>2. ClockInv'
      BY <2>1 DEF RateInv, ClockInv
    <2>3. ASSUME ~stop PROVE CountersOf(prev, Newest, clock' - Newest.itv)
      <3>1. clock' - Newest.itv = clock /\ CountersOf(prev, Newest, clock)
        BY <2>1, <2>3 DEF RateInv, ClockInv, MapsInv
      <3> QED
        BY <3>1
    <2> QED
      BY <2>1, <2>2, <2>3 DEF RateInv, MapsInv, RateIsTrue, Newest, CountersOf
  <1>4. CASE StatsMisses
    <2>1. /\ spc = "stats" /\ spc' = "missed" /\ Remember({})
          /\ UNCHANGED <<clock, itv, interval, born, up, prev, now, good>>
      BY <1>4 DEF StatsMisses, world
    <2>2. /\ ClockInv' /\ hist' # <<>> /\ Newest'.itv = itv
          /\ Newest'.born = [c \in {} |-> born[c]]
      BY <2>1, Remembered DEF RateInv
    <2>3. DOMAIN Newest'.born = {}
      BY <2>2
    <2> QED
      BY <2>1, <2>2, <2>3 DEF RateInv, MapsInv, RateIsTrue
  <1>5. CASE MissedLoad
    <2>1. /\ spc = "missed" /\ spc' = "keep"
          /\ UNCHANGED <<up, born, clock, interval, hist, prev, now, good, itv>>
      BY <1>5 DEF MissedLoad, world, history
    <2> QED
      BY <2>1 DEF RateInv, ClockInv, MapsInv, RateIsTrue, Newest, CountersOf
  <1>6. CASE MissedStore
    <2>1. /\ spc = "keep" /\ spc' = "sleep"
          /\ UNCHANGED <<up, born, clock, interval, hist, now, good, itv>>
      BY <1>6 DEF MissedStore, world, history
    <2>2. ClockInv' /\ Newest' = Newest
      BY <2>1 DEF RateInv, ClockInv, Newest
    <2>3. hist # <<>> /\ Newest.itv = itv /\ DOMAIN Newest.born = {}
      BY <2>1 DEF RateInv, MapsInv
    <2>4. CountersOf(prev', Newest, clock)
      BY <2>3 DEF CountersOf
    <2>5. RateIsTrue'
      <3>1. Len(hist) = 2 => DOMAIN hist[2].born = {}
        BY <2>3 DEF Newest
      <3> QED
        BY <2>1, <3>1 DEF RateIsTrue
    <2> QED
      BY <2>1, <2>2, <2>3, <2>4, <2>5 DEF RateInv, MapsInv
  <1>7. CASE StatsAnswers
    <2>1. /\ spc = "stats" /\ spc' \in {"ls", "store"} /\ Remember(up)
          /\ now' = [c \in up |-> clock - born[c]]
          /\ UNCHANGED <<clock, itv, interval, born, up, prev, good>>
      BY <1>7 DEF StatsAnswers, world
    <2>2. up \in SUBSET Container
      BY DEF RateInv, ClockInv
    <2>3. /\ ClockInv' /\ hist' # <<>> /\ Newest'.itv = itv
          /\ Newest'.born = [c \in up |-> born[c]]
          /\ Len(hist') = 2 => hist # <<>> /\ hist'[1] = Newest
      BY <2>1, <2>2, Remembered DEF RateInv
    <2>4. DOMAIN now' = DOMAIN Newest'.born /\ CountersOf(now', Newest', clock')
      BY <2>1, <2>3 DEF CountersOf
    <2>5. ASSUME Len(hist') = 2 PROVE CountersOf(prev', hist'[1], clock' - hist'[1].itv)
      BY <2>1, <2>3, <2>5 DEF RateInv, MapsInv
    <2> QED
      BY <2>1, <2>3, <2>4, <2>5 DEF RateInv, MapsInv, RateIsTrue
  <1>8. CASE AskList
    <2>1. /\ spc = "ls" /\ spc' = "store"
          /\ UNCHANGED <<up, born, clock, interval, hist, prev, now, good, itv>>
      BY <1>8 DEF AskList, world, history
    <2> QED
      BY <2>1 DEF RateInv, ClockInv, MapsInv, RateIsTrue, Newest, CountersOf
  <1>9. CASE StorePass
    <2>1. /\ spc = "store" /\ spc' = "sleep" /\ good' = Rows /\ prev' = Over(now, next)
          /\ UNCHANGED <<up, born, clock, interval, hist, itv>>
      BY <1>9 DEF StorePass, world
    <2>2. ClockInv' /\ Newest' = Newest
      BY <2>1 DEF RateInv, ClockInv, Newest
    <2>3. /\ hist # <<>> /\ Newest.itv = itv
          /\ DOMAIN now = DOMAIN Newest.born /\ CountersOf(now, Newest, clock)
          /\ Len(hist) = 2 => CountersOf(prev, hist[1], clock - hist[1].itv)
      BY <2>1 DEF RateInv, MapsInv
    <2>4. CountersOf(prev', Newest, clock)
      BY <2>1, <2>3, OverCounts
    <2>5. RateIsTrue'
      <3> SUFFICES ASSUME Len(hist) = 2, hist[1].itv = hist[2].itv,
                          NEW c \in DOMAIN hist[1].born \intersect DOMAIN hist[2].born,
                          hist[1].born[c] = hist[2].born[c]
                   PROVE  \E r \in Rows : r.name = c /\ r.delta = hist[2].itv
        BY <2>1 DEF RateIsTrue
      <3>1. Newest = hist[2]
        BY DEF Newest
      <3> QED
        BY <2>3, <3>1, DeltaIsUse DEF RateInv
    <2> QED
      BY <2>1, <2>2, <2>3, <2>4, <2>5 DEF RateInv, MapsInv
  <1> QED
    BY <1>1, <1>2, <1>3, <1>4, <1>5, <1>6, <1>7, <1>8, <1>9 DEF Sampler

\* The containers and the render loop: the interval stays a number, and `stop' set.
LEMMA RateOther ==
    ASSUME RateInv, Environment \/ Signal \/ Render \/ UNCHANGED vars
    PROVE  RateInv'
  <1>0. interval \in Nat /\ born \in [Container -> Nat] /\ up \subseteq Container /\ clock \in Nat
    BY DEF RateInv, ClockInv
  <1>1. UNCHANGED <<clock, itv, hist, spc, prev, now, good>> /\ (stop => stop')
    <2> USE DEF samplerVars, locals, history, StaysIn, Quits
    <2>1. CASE Environment
      BY <2>1 DEF Environment, ContainerStarts, ContainerStops
    <2>2. CASE Signal
      BY <2>2 DEF Signal
    <2>3. CASE Render
      BY <2>3 DEF Render, Enter, Draw, Interrupted, FrameEnds, QuitKey, Select, SortKey,
         IntervalKey, FirstKill, SecondKill, IgnoredKey, StopWorks, StopFails, LoadSnapshot,
         StoreSnapshot, Leave
    <2>4. CASE UNCHANGED vars
      BY <2>4 DEF vars
    <2> QED
      BY <2>1, <2>2, <2>3, <2>4
  <1>2. interval' \in Nat
    <2> USE DEF samplerVars, StaysIn, Quits
    <2>1. CASE IntervalKey
      BY <1>0, <2>1, SamplerAssumption DEF IntervalKey, Clamp
    <2>2. CASE ~IntervalKey
      <3>1. interval' = interval
        BY <2>2 DEF Environment, ContainerStarts, ContainerStops, Signal, vars, Render, Enter,
           Draw, Interrupted, FrameEnds, QuitKey, Select, SortKey, FirstKill, SecondKill,
           IgnoredKey, StopWorks, StopFails, LoadSnapshot, StoreSnapshot, Leave
      <3> QED
        BY <1>0, <3>1
    <2> QED
      BY <2>1, <2>2
  <1>3. born' \in [Container -> Nat] /\ up' \subseteq Container
    <2> USE DEF samplerVars, world, StaysIn, Quits
    <2>1. CASE Environment
      BY <1>0, <2>1 DEF Environment, ContainerStarts, ContainerStops
    <2>2. CASE Signal \/ UNCHANGED vars
      BY <1>0, <2>2 DEF Signal, vars
    <2>3. CASE Render
      BY <1>0, <2>3 DEF Render, Enter, Draw, Interrupted, FrameEnds, QuitKey, Select, SortKey,
         IntervalKey, FirstKill, SecondKill, IgnoredKey, StopWorks, StopFails, LoadSnapshot,
         StoreSnapshot, Leave
    <2> QED
      BY <2>1, <2>2, <2>3
  <1> QED
    BY <1>1, <1>2, <1>3, RateElsewhere

\* A container that two passes saw, with the same interval and no restart between,
\* is shown at its true rate, whichever of the two maps held its counters.
THEOREM RatesAreTrue == Spec => []RateIsTrue
  <1>1. RateInv /\ [Next]_vars => RateInv'
    BY RateSampler, RateOther DEF Next
  <1>2. RateInv => RateIsTrue
    BY DEF RateInv, MapsInv
  <1> QED
    BY <1>1, <1>2, RateInit, PTL DEF Spec

-----------------------------------------------------------------------------
(* What is asked about *)

\* Every table of rows is finite, so that its size is a number.
TablesInv ==
    /\ IsFiniteSet(list) /\ IsFiniteSet(DOMAIN now)
    /\ IsFiniteSet(snap.rows) /\ IsFiniteSet(copy.rows) /\ IsFiniteSet(cached.rows)

\* The last frame is no newer than the pass that runs, and if it has the number of
\* the snapshot, or of the copy that is to be put back, it marks the row that one
\* has under the selection it was drawn with.
FrameInv ==
    upc \in {"poll", "stop", "load", "store"} =>
        /\ drawn.count \in Nat /\ drawn.count <= count /\ (Busy => drawn.count < count)
        /\ drawn.count = snap.count => drawn.mark = Marked(snap.rows, drawn.sort, drawn.sel)
        /\ upc = "store" /\ drawn.count = copy.count =>
              drawn.mark = Marked(copy.rows, drawn.sort, drawn.sel)

AskInv == TablesInv /\ FrameInv

\* There are no rows and no frame at first.
LEMMA AskInit == TopInit => AskInv
  <1> SUFFICES ASSUME TopInit PROVE AskInv
    OBVIOUS
  <1>1. list = {} /\ now = Empty /\ snap = NoSnap /\ copy = NoSnap /\ cached = NoCopy /\ upc = "enter"
    BY DEF TopInit, SamplerInit
  <1>2. DOMAIN Empty = {} /\ NoSnap.rows = {} /\ NoCopy.rows = {}
    BY DEF Empty, NoSnap, NoCopy
  <1> QED
    BY <1>1, <1>2, FS_EmptySet DEF AskInv, TablesInv, FrameInv

\* One row for each container of two finite sets.
LEMMA RowsAreFinite ==
    ASSUME IsFiniteSet(list), IsFiniteSet(DOMAIN now)
    PROVE  IsFiniteSet(Rows)
  <1> DEFINE left == list \ DOMAIN now
             shown == [c \in DOMAIN now |-> Row(c)]
             gone == [c \in left |-> Gone(c)]
  <1>1. shown \in Surjection(DOMAIN now, {Row(c) : c \in DOMAIN now})
    BY DEF Surjection
  <1>2. gone \in Surjection(left, {Gone(c) : c \in left})
    BY DEF Surjection
  <1>3. IsFiniteSet(left)
    BY FS_Subset
  <1> HIDE DEF shown, gone, left
  <1>4. IsFiniteSet({Row(c) : c \in DOMAIN now}) /\ IsFiniteSet({Gone(c) : c \in left})
    BY <1>1, <1>2, <1>3, FS_Surjection
  <1> QED
    BY <1>4, FS_Union DEF Rows, left

\* Steps that store no snapshot, draw no frame and begin no pass.
LEMMA AskElsewhere ==
    ASSUME AskInv, UNCHANGED <<snap, count, drawn>>, TablesInv',
           upc' \in {"poll", "stop", "load", "store"} =>
               upc \in {"poll", "stop", "load", "store"},
           upc' = "store" => upc = "store" /\ copy' = copy,
           Busy' => Busy
    PROVE  AskInv'
  BY DEF AskInv, FrameInv

\* A snapshot with the number of the pass that ends is newer than the last frame.
LEMMA AskStored ==
    ASSUME AskInv, StoreInv, UNCHANGED <<count, drawn, upc, copy>>, TablesInv',
           Busy, ~Busy', snap'.count = count
    PROVE  AskInv'
  BY DEF AskInv, FrameInv, StoreInv, NumbersInv

\* The steps of the sampler.
LEMMA AskSampler == AskInv /\ StoreInv /\ ClockInv /\ Sampler /\ UNCHANGED ui => AskInv'
  <1> SUFFICES ASSUME AskInv, StoreInv, ClockInv, Sampler, UNCHANGED ui PROVE AskInv'
    OBVIOUS
  <1>0. UNCHANGED <<upc, copy, drawn>>
    BY DEF ui
  <1>f. IsFiniteSet(up)
    BY SamplerAssumption, FS_Subset DEF ClockInv
  <1> USE DEF AskInv, TablesInv
  <1>1. CASE Begin
    <2>1. spc = "top" /\ count' = count + 1 /\ UNCHANGED <<snap, list, now, cached>>
      BY <1>1 DEF Begin
    <2> QED
      BY <1>0, <2>1 DEF FrameInv, StoreInv, NumbersInv, Busy
  <1>2. CASE SamplerEnds
    BY <1>0, <1>2, AskElsewhere DEF SamplerEnds, locals, Busy
  <1>3. CASE Wake
    BY <1>0, <1>3, AskElsewhere DEF Wake, locals, Busy
  <1>4. CASE StatsMisses
    BY <1>0, <1>4, AskElsewhere DEF StatsMisses, Busy
  <1>5. CASE MissedLoad
    <2>1. cached'.rows = snap.rows
      BY <1>5 DEF MissedLoad
    <2> QED
      BY <1>0, <1>5, <2>1, AskElsewhere DEF MissedLoad, Busy
  <1>6. CASE MissedStore
    <2>1. /\ spc = "keep" /\ spc' = "sleep" /\ cached' = NoCopy
          /\ snap' = [rows |-> cached.rows, missed |-> cached.missed + 1, count |-> count,
                      error |-> err]
          /\ UNCHANGED <<count, now, list>>
      BY <1>6 DEF MissedStore
    <2>2. snap'.rows = cached.rows /\ snap'.count = count /\ cached'.rows = {}
      BY <2>1 DEF NoCopy
    <2>3. TablesInv'
      BY <1>0, <2>1, <2>2, FS_EmptySet
    <2> QED
      BY <1>0, <2>1, <2>2, <2>3, AskStored DEF Busy
  <1>7. CASE StatsAnswers
    <2>1. DOMAIN now' = up
      BY <1>7 DEF StatsAnswers
    <2> QED
      BY <1>0, <1>7, <1>f, <2>1, AskElsewhere DEF StatsAnswers, Busy
  <1>8. CASE AskList
    <2>1. list' \in {list, up} /\ UNCHANGED <<snap, count, now, cached>>
      BY <1>8 DEF AskList
    <2>2. TablesInv'
      BY <1>0, <1>f, <2>1
    <2> QED
      BY <1>0, <1>8, <2>1, <2>2, AskElsewhere DEF AskList, Busy
  <1>9. CASE StorePass
    <2>1. /\ spc = "store" /\ spc' = "sleep" /\ now' = Empty
          /\ snap' = [rows |-> Rows, missed |-> 0, count |-> count, error |-> err]
          /\ UNCHANGED <<count, cached, list>>
      BY <1>9 DEF StorePass
    <2>2. snap'.rows = Rows /\ snap'.count = count /\ DOMAIN now' = {}
      BY <2>1 DEF Empty
    <2>3. TablesInv'
      BY <1>0, <2>1, <2>2, FS_EmptySet, RowsAreFinite
    <2> QED
      BY <1>0, <2>1, <2>2, <2>3, AskStored DEF Busy
  <1> QED
    BY <1>1, <1>2, <1>3, <1>4, <1>5, <1>6, <1>7, <1>8, <1>9 DEF Sampler

\* The steps of the render loop.
LEMMA AskRender == AskInv /\ StoreInv /\ Render => AskInv'
  <1> SUFFICES ASSUME AskInv, StoreInv, Render PROVE AskInv'
    OBVIOUS
  <1>1. CASE Draw
    <2>1. /\ upc' = "poll" /\ UNCHANGED <<samplerVars, copy>>
          /\ drawn' = [count |-> snap.count, sort |-> sort, sel |-> selected,
                       mark |-> Marked(snap.rows, sort, selected), prompt |-> confirm]
      BY <1>1 DEF Draw
    <2>2. /\ drawn'.count = snap.count /\ drawn'.sort = sort /\ drawn'.sel = selected
          /\ drawn'.mark = Marked(snap.rows, sort, selected)
      BY <2>1
    <2>3. UNCHANGED <<snap, spc, count, list, now, cached, copy>>
      BY <2>1 DEF samplerVars
    <2> QED
      BY <2>1, <2>2, <2>3 DEF AskInv, TablesInv, FrameInv, StoreInv, NumbersInv, Busy, Marked, sort_rows
  <1>2. CASE Interrupted \/ (QuitKey /\ upc' = "join")
    <2>1. upc' = "join" /\ UNCHANGED <<snap, list, now, cached, copy>>
      BY <1>2 DEF Interrupted, QuitKey, Quits, StaysIn, locals
    <2> QED
      BY <2>1 DEF AskInv, TablesInv, FrameInv
  <1>3. CASE LoadSnapshot
    <2>1. upc = "load" /\ copy' = [snap EXCEPT !.error = "stop"] /\ UNCHANGED <<samplerVars, drawn>>
      BY <1>3 DEF LoadSnapshot
    <2>2. copy'.rows = snap.rows /\ copy'.count = snap.count
      BY <2>1 DEF StoreInv, NumbersInv, IsSnapshot
    <2>3. UNCHANGED <<snap, spc, count, list, now, cached, drawn>>
      BY <2>1 DEF samplerVars
    <2> QED
      BY <2>1, <2>2, <2>3 DEF AskInv, TablesInv, FrameInv, Busy, Marked, sort_rows
  <1>4. CASE StoreSnapshot
    <2>1. /\ upc = "store" /\ upc' = "poll" /\ snap' = copy /\ copy' = NoSnap
          /\ UNCHANGED <<spc, count, list, now, cached, drawn>>
      BY <1>4 DEF StoreSnapshot, locals
    <2>2. copy'.rows = {}
      BY <2>1 DEF NoSnap
    <2> QED
      BY <2>1, <2>2, FS_EmptySet DEF AskInv, TablesInv, FrameInv, Busy, Marked, sort_rows
  <1>5. CASE \/ Enter \/ FrameEnds \/ (QuitKey /\ upc' = "draw") \/ Select \/ SortKey \/ IntervalKey
             \/ FirstKill \/ SecondKill \/ IgnoredKey \/ StopWorks \/ StopFails \/ Leave
    <2>1. UNCHANGED <<snap, spc, count, list, now, cached, copy>>
      BY <1>5 DEF Enter, FrameEnds, QuitKey, StaysIn, Select, SortKey, IntervalKey, FirstKill,
         SecondKill, IgnoredKey, StopWorks, StopFails, Leave, samplerVars, locals
    <2>2. \/ upc' \in {"draw", "out"}
          \/ drawn' = drawn /\ upc' \in {upc, "poll", "stop", "load"} /\ upc \in {"poll", "stop"}
      BY <1>5 DEF Enter, FrameEnds, QuitKey, Select, SortKey, IntervalKey, FirstKill,
         SecondKill, IgnoredKey, StopWorks, StopFails, Leave, Press, Pressed
    <2>3. TablesInv' /\ (Busy' => Busy)
      BY <2>1 DEF AskInv, TablesInv, Busy
    <2>4. CASE upc' \in {"draw", "out"}
      BY <2>3, <2>4 DEF AskInv, FrameInv
    <2>5. CASE drawn' = drawn /\ upc' \in {upc, "poll", "stop", "load"} /\ upc \in {"poll", "stop"}
      BY <2>1, <2>3, <2>5, AskElsewhere
    <2> QED
      BY <2>2, <2>4, <2>5
  <1>6. QuitKey => upc' \in {"draw", "join"}
    BY DEF QuitKey, Quits
  <1> QED
    BY <1>1, <1>2, <1>3, <1>4, <1>5, <1>6 DEF Render

\* Every step of the program, or none.
LEMMA AskNext == AskInv /\ StoreInv /\ RateInv /\ [Next]_vars => AskInv'
  <1> SUFFICES ASSUME AskInv, StoreInv, RateInv, [Next]_vars PROVE AskInv'
    OBVIOUS
  <1>1. CASE Sampler /\ UNCHANGED ui
    BY <1>1, AskSampler DEF RateInv
  <1>2. CASE Render
    BY <1>2, AskRender
  <1>3. CASE (Environment /\ UNCHANGED ui) \/ Signal \/ UNCHANGED vars
    <2>1. UNCHANGED <<snap, spc, count, list, now, cached, copy, upc, drawn>>
      BY <1>3 DEF Environment, ContainerStarts, ContainerStops, Signal, vars, ui, samplerVars, locals
    <2> QED
      BY <2>1, AskElsewhere DEF AskInv, TablesInv, Busy
  <1> QED
    BY <1>1, <1>2, <1>3 DEF Next

\* If the selection is a row of the table, it is the row the screen marks.
LEMMA PickedIsMarked ==
    ASSUME IsFiniteSet(snap.rows), Picked # NoName
    PROVE  Picked = Marked(snap.rows, sort, selected)
  <1> DEFINE size == Cardinality(snap.rows)
  <1>1. size \in Nat /\ (snap.rows = {} => size = 0)
    BY FS_CardinalityType, FS_EmptySet
  <1>2. selected \in 0 .. size - 1 /\ Picked = sort_rows(snap.rows, sort)[selected + 1].name
    BY DEF Picked
  <1>3. snap.rows # {} /\ selected >= 0 /\ ~(selected >= size)
    BY <1>1, <1>2
  <1> QED
    BY <1>2, <1>3 DEF Marked

\* Only the first `k` asks.
LEMMA OnlyKillAsks ==
    [Next]_vars /\ confirm = NoName /\ confirm' # NoName => confirm' = Picked /\ upc = "poll"
  <1> SUFFICES ASSUME [Next]_vars, confirm = NoName, confirm' # NoName PROVE FirstKill
    BY DEF FirstKill, Press, Pressed
  <1>1. CASE Render
    BY <1>1 DEF Render, Enter, Draw, Interrupted, FrameEnds, QuitKey, Select, SortKey,
       IntervalKey, SecondKill, IgnoredKey, StopWorks, StopFails, LoadSnapshot,
       StoreSnapshot, Leave
  <1>2. CASE (Sampler /\ UNCHANGED ui) \/ (Environment /\ UNCHANGED ui) \/ Signal \/ UNCHANGED vars
    BY <1>2 DEF Signal, vars, ui
  <1> QED
    BY <1>1, <1>2 DEF Next

\* The question is about the row the screen marks, unless a new snapshot came, or
\* the selection or the order was changed, since it was drawn.
THEOREM MarkedRowIsAskedAbout == Spec => AsksAboutMarkedRow
  <1> DEFINE Asks ==
        (confirm = NoName /\ confirm' # NoName /\ drawn.count = snap.count /\ drawn.sort = sort
            /\ drawn.sel = selected) => confirm' = drawn.mark
  <1>1. ASSUME AskInv, [Next]_vars PROVE Asks
    <2> SUFFICES ASSUME confirm = NoName, confirm' # NoName, drawn.count = snap.count,
                        drawn.sort = sort, drawn.sel = selected
                 PROVE  confirm' = drawn.mark
      OBVIOUS
    <2>1. confirm' = Picked /\ upc = "poll"
      BY <1>1, OnlyKillAsks
    <2>2. drawn.mark = Marked(snap.rows, sort, selected)
      BY <1>1, <2>1 DEF AskInv, FrameInv
    <2> QED
      BY <1>1, <2>1, <2>2, PickedIsMarked DEF AskInv, TablesInv
  <1>2. RateInv /\ [Next]_vars => RateInv'
    BY RateSampler, RateOther DEF Next
  <1> HIDE DEF Asks
  <1>3. AskInv /\ [Next]_vars => [Asks]_vars
    BY <1>1
  <1>4. Spec => []AskInv
    BY <1>2, AskInit, AskNext, StoreInvInit, StoreInvNext, RateInit, PTL DEF Spec
  <1>5. Spec => [][Asks]_vars
    BY <1>3, <1>4, PTL DEF Spec
  <1> QED
    BY <1>5 DEF AsksAboutMarkedRow, Asks

===============================================================================
