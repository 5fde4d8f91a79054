---------------------------- MODULE TopSampler -----------------------------
(***************************************************************************)
(* The sampler thread of `hostely top` (src/src/top/sample.cpp and the     *)
(* thread in top.cpp), the snapshot store it shares with the renderer, and *)
(* the containers it watches.                                              *)
(*                                                                         *)
(* A pass asks `container stats`, sometimes `container ls`, and stores a   *)
(* snapshot; the rates are differences with the counters kept in `prev`.   *)
(* The two counter maps are swapped after every pass, a missed one too.    *)
(* A container that runs uses one unit of its counters per unit of time,   *)
(* so that its true rate, difference over window, is one: one counter      *)
(* stands for the five that the code treats alike.                         *)
(***************************************************************************)
EXTENDS Integers, Sequences, FiniteSets, SequencesExt

CONSTANTS Container,      \* container ids, numbers: their order is the order of names
          Memory,         \* Memory[c]: what stats reports for c
          ListEvery,      \* `ls` is asked again every so many passes
          MinInterval, MaxInterval, Interval,   \* clamp and --interval
          Running,        \* the containers that run at the start
          MaxPasses,      \* bound: passes of the sampler
          MaxFaults,      \* bound: calls of the container CLI that fail
          MaxEvents       \* bound: containers started or stopped by others

ASSUME SamplerAssumption ==
    /\ Container \subseteq Nat /\ IsFiniteSet(Container) /\ Running \subseteq Container /\ Memory \in [Container -> Nat]
    /\ ListEvery \in Nat \ {0} /\ MaxPasses \in Nat /\ MaxFaults \in Nat /\ MaxEvents \in Nat
    /\ {MinInterval, MaxInterval, Interval} \subseteq Nat \ {0}
    /\ MinInterval <= Interval /\ Interval <= MaxInterval

VARIABLES
    up, born,       \* the running containers, and when each was started
    clock,          \* time, advanced by the sampler's sleep
    events, faults, \* how often each bound has been used
    snap, interval, stop,      \* SnapshotStore: snap_, interval_, stop
    spc,            \* where the sampler is
    count, itv,     \* sample_count and the interval of the current pass
    prev, next,     \* the two maps of raw counters
    listed, list,   \* has `ls` answered yet, and what it said: list_json
    now, err, cached, \* locals of sample_once: now_map, snap.error, cached.rows and missed
    hist, misses, good, clobbered
        \* history: the last two passes; how many passes in a row gave nothing;
        \* the rows of the last pass that gave some; has the renderer put an
        \* older snapshot over a newer one since that pass

world == <<up, born, events>>
history == <<hist, misses, good>>
locals == <<count, itv, now, err, cached>>
samplerVars == <<up, born, clock, events, faults, snap, interval, stop, spc, count, itv,
                 prev, next, listed, list, now, err, cached, hist, misses, good, clobbered>>

Unknown == -1
Empty == [c \in {} |-> 0]
NoSnap == [rows |-> {}, missed |-> 0, count |-> 0, error |-> ""]
NoCopy == [rows |-> {}, missed |-> 0]
Clamp(x) == IF x < MinInterval THEN MinInterval ELSE IF x > MaxInterval THEN MaxInterval ELSE x

SamplerInit ==
    /\ up = Running
    /\ born = [c \in Container |-> 0] /\ clock = 0 /\ events = 0 /\ faults = 0
    /\ snap = NoSnap
    /\ interval = Clamp(Interval) /\ stop = FALSE
    /\ spc = "top" /\ count = 0 /\ itv = 0
    /\ prev = Empty /\ next = Empty /\ listed = FALSE /\ list = {}
    /\ now = Empty /\ err = "" /\ cached = NoCopy
    /\ hist = <<>> /\ misses = 0 /\ good = {} /\ clobbered = FALSE

(***************************************************************************)
(* The containers: started and stopped by other commands.                  *)
(***************************************************************************)
ContainerStarts(c) ==
    /\ c \notin up /\ events < MaxEvents
    /\ up' = up \union {c} /\ born' = [born EXCEPT ![c] = clock] /\ events' = events + 1
    /\ UNCHANGED <<clock, faults, snap, interval, stop, spc, locals, prev, next, listed, list,
                   history, clobbered>>

ContainerStops(c) ==
    /\ c \in up /\ events < MaxEvents
    /\ up' = up \ {c} /\ events' = events + 1
    /\ UNCHANGED <<born, clock, faults, snap, interval, stop, spc, locals, prev, next, listed,
                   list, history, clobbered>>

CliFails == faults < MaxFaults /\ faults' = faults + 1

(***************************************************************************)
(* The loop of the thread.                                                 *)
(***************************************************************************)
Begin ==
    /\ spc = "top" /\ ~stop /\ count < MaxPasses
    /\ count' = count + 1 /\ itv' = interval /\ spc' = "stats"
    /\ UNCHANGED <<world, clock, faults, snap, interval, stop, prev, next, listed, list, now, err,
                   cached, history, clobbered>>

\* Mutant of SamplerEnds: `while (true)`.
NeverEnds == FALSE /\ UNCHANGED samplerVars

SamplerEnds ==
    /\ spc = "top" /\ stop
    /\ spc' = "exited"
    /\ UNCHANGED <<world, clock, faults, snap, interval, stop, locals, prev, next, listed, list,
                   history, clobbered>>

\* The sleep ends after the rest of the interval, or soon after `stop`.
Wake ==
    /\ spc = "sleep"
    /\ clock' = IF stop THEN clock ELSE clock + itv
    /\ spc' = "top"
    /\ UNCHANGED <<world, faults, snap, interval, stop, locals, prev, next, listed, list,
                   history, clobbered>>

(***************************************************************************)
(* sample_once.                                                            *)
(***************************************************************************)
\* What the history remembers of a pass: the containers stats named, when each
\* was started, and the interval.
Pass(containers) == [born |-> [c \in containers |-> born[c]], itv |-> itv]

Remember(containers) ==
    hist' = IF hist = <<>> THEN <<Pass(containers)>>
                           ELSE <<Last(hist), Pass(containers)>>

\* `container stats` fails, or names nobody.
StatsMisses ==
    /\ spc = "stats"
    /\ \/ CliFails /\ err' = "stats"
       \/ up = {} /\ err' = "" /\ UNCHANGED faults
    /\ Remember({}) /\ misses' = misses + 1
    /\ spc' = "missed"
    /\ UNCHANGED <<world, clock, snap, interval, stop, count, itv, prev, next, listed, list, now,
                   cached, good, clobbered>>

MissedLoad ==
    /\ spc = "missed"
    /\ cached' = [rows |-> snap.rows, missed |-> snap.missed] /\ spc' = "keep"
    /\ UNCHANGED <<world, clock, faults, snap, interval, stop, count, itv, prev, next, listed,
                   list, now, err, history, clobbered>>

\* The rows of the store are kept; the maps are swapped all the same.
MissedStore ==
    /\ spc = "keep"
    /\ snap' = [rows |-> cached.rows, missed |-> cached.missed + 1, count |-> count, error |-> err]
    /\ prev' = next /\ next' = prev /\ spc' = "sleep" /\ cached' = NoCopy /\ err' = ""
    /\ UNCHANGED <<world, clock, faults, interval, stop, count, itv, now, listed, list, history,
                   clobbered>>

NeedList == ~listed \/ count % ListEvery = 0

StatsAnswers ==
    /\ spc = "stats" /\ up # {}
    /\ now' = [c \in up |-> clock - born[c]] /\ err' = ""
    /\ Remember(up) /\ misses' = 0
    /\ spc' = IF NeedList THEN "ls" ELSE "store"
    /\ UNCHANGED <<world, clock, faults, snap, interval, stop, count, itv, prev, next, listed,
                   list, cached, good, clobbered>>

\* `container ls` names the running containers; its failure is not fatal.
AskList ==
    /\ spc = "ls"
    /\ \/ /\ listed' = TRUE /\ list' = up
          /\ UNCHANGED <<err, faults>>
       \/ /\ CliFails /\ err' = IF listed THEN err ELSE "ls"
          /\ UNCHANGED <<listed, list>>
    /\ spc' = "store"
    /\ UNCHANGED <<world, clock, snap, interval, stop, count, itv, prev, next, now, cached,
                   history, clobbered>>

\* The counters less the previous ones; unknown without a previous sample or
\* when the counter went backwards.
Delta(c) == IF c \in DOMAIN prev /\ now[c] >= prev[c] THEN now[c] - prev[c] ELSE Unknown

Row(c) == [name |-> c, state |-> "running", delta |-> Delta(c), mem |-> Memory[c]]
Gone(c) == [name |-> c, state |-> "stopped?", delta |-> Unknown, mem |-> 0]

\* One row for each container of stats, one for each container `ls` named and
\* stats does not.
Rows == {Row(c) : c \in DOMAIN now} \union {Gone(c) : c \in list \ DOMAIN now}

\* next[id] = raw for each container of raws; entries of others stay.
Over(raws, map) ==
    [c \in DOMAIN raws \union DOMAIN map |-> IF c \in DOMAIN raws THEN raws[c] ELSE map[c]]

\* Mutant of StorePass: the maps are not swapped.
StoreUnswapped ==
    /\ spc = "store"
    /\ snap' = [rows |-> Rows, missed |-> 0, count |-> count, error |-> err]
    /\ next' = Over(now, next)
    /\ good' = Rows /\ clobbered' = FALSE /\ spc' = "sleep" /\ now' = Empty /\ err' = ""
    /\ UNCHANGED <<world, clock, faults, interval, stop, count, itv, cached, prev, listed, list,
                   hist, misses>>

\* Mutant of StorePass: `missed` goes on counting.
StoreStillMissed ==
    /\ spc = "store"
    /\ snap' = [rows |-> Rows, missed |-> snap.missed, count |-> count, error |-> err]
    /\ prev' = Over(now, next) /\ next' = prev
    /\ good' = Rows /\ clobbered' = FALSE /\ spc' = "sleep" /\ now' = Empty /\ err' = ""
    /\ UNCHANGED <<world, clock, faults, interval, stop, count, itv, cached, listed, list, hist,
                   misses>>

\* The snapshot is stored, `next` takes the counters, and the maps are swapped.
StorePass ==
    /\ spc = "store"
    /\ snap' = [rows |-> Rows, missed |-> 0, count |-> count, error |-> err]
    /\ prev' = Over(now, next) /\ next' = prev
    /\ good' = Rows /\ clobbered' = FALSE /\ spc' = "sleep" /\ now' = Empty /\ err' = ""
    /\ UNCHANGED <<world, clock, faults, interval, stop, count, itv, cached, listed, list, hist,
                   misses>>

Sampler ==
    \/ Begin \/ SamplerEnds \/ Wake
    \/ StatsMisses \/ MissedLoad \/ MissedStore
    \/ StatsAnswers \/ AskList \/ StorePass

Environment == \E c \in Container : ContainerStarts(c) \/ ContainerStops(c)
===============================================================================
