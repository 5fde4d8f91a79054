----------------------------- MODULE DnsProvider -----------------------------
(***************************************************************************)
(* The Cloudflare provider of src/exposure/dns.cpp: what one call leaves   *)
(* at a name, given the records of one type that the name has (a set of    *)
(* values).  Every call is a series of HTTP requests, each of which may    *)
(* fail; an outcome is the records left and what the call returns.         *)
(***************************************************************************)
EXTENDS Naturals, FiniteSets

CONSTANT MaxFaults     \* how many requests fail and commands are killed
VARIABLE faults        \* failures so far

MayFail  == faults < MaxFaults
Spend(b) == faults' = faults + (IF b THEN 1 ELSE 0)

Outcome(recs, ok) == [recs |-> recs, ok |-> ok]

\* list_and_delete: all goes, or what the list or a delete that failed leaves.
\* Nothing of this is reported.
list_and_delete(recs, mayFail) == IF mayFail THEN SUBSET recs ELSE {{}}

\* Mutant of upsert: the new record is created before the old ones are listed.
CreateThenDelete(recs, value, mayFail) == {Outcome({}, TRUE)}

\* upsert: the zone id, the deletion of what is there, the creation.
upsert(recs, value, mayFail) ==
    {Outcome(kept \union {value}, TRUE) : kept \in list_and_delete(recs, mayFail)}
    \union (IF mayFail THEN {Outcome(recs, FALSE)}      \* no zone id
                            \union {Outcome(kept, FALSE) : kept \in SUBSET recs}
            ELSE {})

\* remove_record deletes the records with this value, or fails on the way.
remove_record(recs, value, mayFail) ==
    {Outcome(recs \ {value}, value \in recs)}
    \union (IF mayFail THEN {Outcome(recs, FALSE)} ELSE {})

===============================================================================
