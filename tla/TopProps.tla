------------------------------ MODULE TopProps -----------------------------
(***************************************************************************)
(* What makes the dashboard truthful, and its one dangerous key safe.      *)
(***************************************************************************)
EXTENDS Top

\* Between two passes the store holds what the last pass found: its number, the
\* rows of the last pass that named a container, and how many passes in a row
\* named none, however `stop` failures and passes interleave.  The exception is
\* in the code: a failed stop that loaded the snapshot before a pass and stored
\* it after puts the older one back (top.cpp:225-227).
StoreIsLastPass ==
    (spc = "sleep" /\ ~clobbered) =>
        snap.count = count /\ snap.missed = misses /\ snap.rows = good

\* A container that uses one unit per unit of time is shown at that rate in
\* every pass that saw it, if the pass before saw it too and neither a restart
\* nor a change of the interval lies between: the swap of the two counter maps
\* after every pass, with entries of other passes left in them, never mixes up
\* which sample a rate is taken from.
RateIsTrue ==
    (spc = "sleep" /\ Len(hist) = 2 /\ hist[1].itv = hist[2].itv) =>
        \A c \in DOMAIN hist[1].born \intersect DOMAIN hist[2].born :
            hist[1].born[c] = hist[2].born[c] =>
                \E r \in good : r.name = c /\ r.delta = hist[2].itv

\* The container that is stopped is the one the last frame asked about, whatever
\* the sampler has stored and wherever the rows have moved since; or no frame
\* was drawn between the two presses, and nothing was asked at all.
StopsWhatWasAsked == upc = "stop" => blind \/ target = drawn.prompt

\* The question is about the row the screen marks, unless a new snapshot came,
\* or the selection or the order was changed, since it was drawn.
AsksAboutMarkedRow ==
    [][(confirm = NoName /\ confirm' # NoName /\ drawn.count = snap.count /\ drawn.sort = sort
            /\ drawn.sel = selected) => confirm' = drawn.mark]_vars

\* A signal, or leaving the loop, ends the program with the sampler joined and
\* the terminal restored.
QuitEnds == (interrupted \/ upc = "join") ~> (upc = "out" /\ spc = "exited" /\ ~raw)
===============================================================================
