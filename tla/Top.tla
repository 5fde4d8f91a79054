------------------------------- MODULE Top ---------------------------------
(***************************************************************************)
(* `hostely top`: the render loop and the terminal (src/src/top/top.cpp,   *)
(* tui.cpp, and of render.cpp what decides which row is where), beside the *)
(* sampler of TopSampler.                                                  *)
(*                                                                         *)
(* A frame draws the stored snapshot and then polls the keyboard twelve    *)
(* times; several keys may come in one frame, between two draws (no more   *)
(* than MaxKeys, fewer than twelve, in the model).  The key `k` asks for a *)
(* confirmation, a second `k` stops the container that was named; the stop *)
(* blocks this thread while the sampler goes on.                           *)
(***************************************************************************)
EXTENDS TopSampler

CONSTANTS Sort,           \* --sort
          MaxKeys,        \* bound: keys pressed
          NoName          \* no container: confirm_kill is empty

\* The sort keys Cpu, Mem, Name, Net.
ASSUME TopAssumption == Sort \in 0 .. 3 /\ MaxKeys \in Nat /\ NoName \notin Container

VARIABLES
    upc,            \* where the render loop is
    keys,           \* keys pressed so far
    sort, selected, \* SnapshotStore: sort, selected
    confirm,        \* confirm_kill
    target, copy,   \* locals of the second `k`: name, and the snapshot to change
    raw,            \* is the terminal in raw mode: raw_active_
    interrupted,    \* g_interrupted
    drawn, blind    \* history: the last frame, and has `k` been pressed since it

ui == <<upc, keys, sort, selected, confirm, target, copy, raw, interrupted, drawn, blind>>
vars == <<samplerVars, ui>>

(***************************************************************************)
(* sort_rows.                                                              *)
(***************************************************************************)
NetRate(r) == IF r.delta > 0 THEN r.delta ELSE 0

Ahead(a, b, key) ==
    CASE key = 0 -> IF (a.delta < 0) # (b.delta < 0) THEN b.delta < 0
                    ELSE a.delta > b.delta \/ (a.delta = b.delta /\ a.name < b.name)
      [] key = 1 -> a.mem > b.mem \/ (a.mem = b.mem /\ a.name < b.name)
      [] key = 2 -> a.name < b.name
      [] key = 3 -> NetRate(a) > NetRate(b) \/ (NetRate(a) = NetRate(b) /\ a.name < b.name)

sort_rows(rows, key) ==
    CHOOSE seq \in [1 .. Cardinality(rows) -> rows] :
        \A i, j \in 1 .. Cardinality(rows) : i < j => Ahead(seq[i], seq[j], key)

\* The row that render_screen marks: the selection, clamped to the table.
Marked(rows, key, sel) ==
    LET size == Cardinality(rows)
        low == IF sel >= size THEN size - 1 ELSE sel
        idx == IF low < 0 THEN 0 ELSE low
    IN IF rows = {} THEN NoName ELSE sort_rows(rows, key)[idx + 1].name

NoFrame == [count |-> 0, sort |-> Sort, sel |-> 0, mark |-> NoName, prompt |-> NoName]

TopInit ==
    /\ SamplerInit
    /\ upc = "enter" /\ keys = 0 /\ sort = Sort /\ selected = 0
    /\ confirm = NoName /\ target = NoName /\ copy = NoSnap
    /\ raw = FALSE /\ interrupted = FALSE
    /\ drawn = NoFrame
    /\ blind = FALSE

(***************************************************************************)
(* The loop.                                                               *)
(***************************************************************************)
\* Terminal::enter; without a terminal on stdin the mode is left alone and no
\* key is ever read.
Enter ==
    /\ upc = "enter"
    /\ raw' \in BOOLEAN /\ upc' = "draw"
    /\ UNCHANGED <<samplerVars, keys, sort, selected, confirm, target, copy, interrupted, drawn,
                   blind>>

Draw ==
    /\ upc = "draw"
    /\ drawn' = [count |-> snap.count, sort |-> sort, sel |-> selected,
                 mark |-> Marked(snap.rows, sort, selected), prompt |-> confirm]
    /\ blind' = FALSE /\ upc' = "poll"
    /\ UNCHANGED <<samplerVars, keys, sort, selected, confirm, target, copy, raw, interrupted>>

\* The signal handlers of SIGINT and SIGTERM; once the loop is left nobody looks
\* at the flag.
Signal ==
    /\ ~stop /\ ~interrupted
    /\ interrupted' = TRUE
    /\ UNCHANGED <<samplerVars, upc, keys, sort, selected, confirm, target, copy, raw, drawn, blind>>

\* Leaving the loop sets `stop`; nothing is drawn or pressed any more.
Quits == upc' = "join" /\ stop' = TRUE /\ keys' = MaxKeys /\ drawn' = NoFrame /\ blind' = FALSE
StaysIn == UNCHANGED <<up, born, clock, events, faults, snap, interval, spc, locals, prev, next,
                       listed, list, history, clobbered>>

\* Before each poll the flag is looked at; a signal that comes during the poll
\* is one that comes after the key.
Interrupted ==
    /\ upc = "poll" /\ interrupted
    /\ Quits /\ StaysIn
    /\ UNCHANGED <<sort, selected, confirm, target, copy, raw, interrupted>>

\* The twelfth poll is over.
FrameEnds ==
    /\ upc = "poll" /\ ~interrupted
    /\ upc' = "draw"
    /\ UNCHANGED <<samplerVars, keys, sort, selected, confirm, target, copy, raw, interrupted,
                   drawn, blind>>

\* read_key: nothing is read unless the terminal is in raw mode.
Pressed == upc = "poll" /\ ~interrupted /\ raw /\ keys < MaxKeys
Press == Pressed /\ keys' = keys + 1

\* `q`, Escape and Ctrl-C; the last one also sets the flag the loop checks.  A
\* pending question is cancelled and the screen drawn again.
QuitKey ==
    /\ Pressed
    /\ interrupted' \in BOOLEAN
    /\ \/ /\ confirm # NoName /\ keys' = keys + 1
          /\ confirm' = NoName /\ upc' = "draw"
          /\ UNCHANGED <<stop, drawn, blind>>
       \/ confirm = NoName /\ Quits /\ UNCHANGED confirm
    /\ StaysIn
    /\ UNCHANGED <<sort, selected, target, copy, raw>>

\* The keys that move the selection; with an empty table `down` leaves -1.
Select ==
    /\ Press /\ confirm = NoName /\ UNCHANGED upc
    /\ \/ selected' = IF selected > 0 THEN selected - 1 ELSE 0
       \/ LET max == Cardinality(snap.rows) - 1
          IN selected' = IF selected + 1 > max THEN max ELSE selected + 1
    /\ UNCHANGED <<samplerVars, sort, confirm, target, copy, raw, interrupted, drawn, blind>>

SortKey ==
    /\ Press /\ confirm = NoName /\ UNCHANGED upc
    /\ sort' = (sort + 1) % 4 /\ selected' = 0
    /\ UNCHANGED <<samplerVars, confirm, target, copy, raw, interrupted, drawn, blind>>

IntervalKey ==
    /\ Press /\ confirm = NoName /\ UNCHANGED upc
    /\ interval' \in {Clamp(interval * 2), Clamp(interval \div 2)}
    /\ UNCHANGED <<up, born, clock, events, faults, snap, stop, spc, locals, prev, next, listed,
                   list, history, clobbered>>
    /\ UNCHANGED <<sort, selected, confirm, target, copy, raw, interrupted, drawn, blind>>

\* Mutant of Picked: the rows are not sorted the way the screen is.
PickedUnsorted ==
    IF selected \in 0 .. Cardinality(snap.rows) - 1
    THEN sort_rows(snap.rows, 2)[selected + 1].name ELSE NoName

\* The row under the selection in the snapshot of this instant, which may not be
\* the one on the screen.
Picked ==
    IF selected \in 0 .. Cardinality(snap.rows) - 1
    THEN sort_rows(snap.rows, sort)[selected + 1].name ELSE NoName

FirstKill ==
    /\ Press /\ confirm = NoName /\ UNCHANGED upc
    /\ confirm' = Picked /\ blind' = TRUE
    /\ UNCHANGED <<samplerVars, sort, selected, target, copy, raw, interrupted, drawn>>

\* Mutant of SecondKill: the row is looked up again.
SecondKillLooksAgain ==
    /\ Press /\ confirm # NoName
    /\ target' = Picked /\ confirm' = NoName /\ upc' = "stop"
    /\ UNCHANGED <<samplerVars, sort, selected, copy, raw, interrupted, drawn, blind>>

SecondKill ==
    /\ Press /\ confirm # NoName
    /\ target' = confirm /\ confirm' = NoName /\ upc' = "stop"
    /\ UNCHANGED <<samplerVars, sort, selected, copy, raw, interrupted, drawn, blind>>

\* While the question is pending every other key is ignored.
IgnoredKey ==
    /\ Press /\ confirm # NoName /\ UNCHANGED upc
    /\ UNCHANGED <<samplerVars, sort, selected, confirm, target, copy, raw, interrupted, drawn,
                   blind>>

(***************************************************************************)
(* Manager::stop, and what follows its failure: the snapshot is loaded,    *)
(* given the message and stored, under two locks.                          *)
(***************************************************************************)
StopWorks ==
    /\ upc = "stop" /\ upc' = "poll"
    /\ up' = up \ {target} /\ target' = NoName
    /\ UNCHANGED <<born, clock, events, faults, snap, interval, stop, spc, locals, prev, next,
                   listed, list, history, clobbered>>
    /\ UNCHANGED <<keys, sort, selected, confirm, copy, raw, interrupted, drawn, blind>>

StopFails ==
    /\ upc = "stop" /\ CliFails
    /\ upc' = "load" /\ target' = NoName
    /\ UNCHANGED <<world, clock, snap, interval, stop, spc, locals, prev, next, listed, list,
                   history, clobbered>>
    /\ UNCHANGED <<keys, sort, selected, confirm, copy, raw, interrupted, drawn, blind>>

LoadSnapshot ==
    /\ upc = "load"
    /\ copy' = [snap EXCEPT !.error = "stop"] /\ upc' = "store"
    /\ UNCHANGED <<samplerVars, keys, sort, selected, confirm, target, raw, interrupted, drawn,
                   blind>>

StoreSnapshot ==
    /\ upc = "store" /\ upc' = "poll"
    /\ snap' = copy /\ copy' = NoSnap
    /\ clobbered' = (clobbered \/ copy.count # snap.count)
    /\ UNCHANGED <<world, clock, faults, interval, stop, spc, locals, prev, next, listed, list,
                   history>>
    /\ UNCHANGED <<keys, sort, selected, confirm, target, raw, interrupted, drawn, blind>>

\* The sampler is joined, then the terminal restored.
Leave ==
    /\ upc = "join" /\ spc = "exited"
    /\ raw' = FALSE /\ upc' = "out"
    /\ UNCHANGED <<samplerVars, keys, sort, selected, confirm, target, copy, interrupted, drawn,
                   blind>>

Render ==
    \/ Enter \/ Draw \/ Interrupted \/ FrameEnds
    \/ QuitKey \/ Select \/ SortKey \/ IntervalKey \/ FirstKill \/ SecondKill \/ IgnoredKey
    \/ StopWorks \/ StopFails \/ LoadSnapshot \/ StoreSnapshot
    \/ Leave

\* The containers are followed until the loop is left: nothing is drawn after.
Next ==
    \/ Sampler /\ UNCHANGED ui
    \/ ~stop /\ Environment /\ UNCHANGED ui
    \/ Signal
    \/ Render

Spec == TopInit /\ [][Next]_vars

\* Both threads run while the process does, and every call of the container CLI
\* returns.
FairSpec == Spec /\ WF_vars(Sampler /\ UNCHANGED ui) /\ WF_vars(Render)
===============================================================================
