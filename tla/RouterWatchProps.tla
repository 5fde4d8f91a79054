--------------------------- MODULE RouterWatchProps ---------------------------
(***************************************************************************)
(* What makes the address watcher correct; the log is in LoggerProps.      *)
(***************************************************************************)
EXTENDS RouterWatch, LoggerProps

\* When the address stays, the watcher runs and its update did not fail, the
\* record becomes the address.
RecordFollowsAddress ==
    \A x \in Address : <>[](Watching /\ ip = x /\ ~wrong) => <>[](a = {x})

===============================================================================
