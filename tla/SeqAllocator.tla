----------------------------- MODULE SeqAllocator -----------------------------
(***************************************************************************)
(* The allocator of KV-cache sequence ids (class SeqAllocator).  Id 0 is   *)
(* reserved for the stateless path; sessions draw from 1 .. MaxSeqs-1.     *)
(* The allocator's fields are in_use_ (the ids handed out, here a set) and *)
(* next_ (the round-robin cursor).  The operators below are its methods as *)
(* functions of those two fields, so that a caller can chain several calls *)
(* in one atomic step.                                                     *)
(***************************************************************************)
EXTENDS Integers, FiniteSets

CONSTANT MaxSeqs      \* max_: llama_n_seq_max(ctx), 32 in load_model

ASSUME MaxSeqsAssumption == MaxSeqs \in Nat /\ MaxSeqs >= 2

SeqIds == 1 .. MaxSeqs - 1      \* the ids sessions may own
Seqs   == 0 .. MaxSeqs - 1      \* with the stateless sequence 0

\* SeqAllocator::capacity()
Capacity == MaxSeqs - 1

\* The id looked at by iteration i of the loop of take().
SweepIdx(cursor, i) == (cursor + i - 1) % MaxSeqs

\* Iteration i finds an id that take() may hand out.
SweepHit(used, cursor, i) ==
    /\ SweepIdx(cursor, i) # 0
    /\ SweepIdx(cursor, i) \notin used

\* take() returns id: the first hit of the sweep i = 1 .. max_-1.
Takes(used, cursor, id) ==
    \E i \in 1 .. MaxSeqs - 1 :
        /\ SweepHit(used, cursor, i)
        /\ \A j \in 1 .. i - 1 : ~SweepHit(used, cursor, j)
        /\ id = SweepIdx(cursor, i)

\* take() returns nullopt.
TakeFails(used, cursor) ==
    \A i \in 1 .. MaxSeqs - 1 : ~SweepHit(used, cursor, i)

\* next_ after take() returned id.
CursorAfter(id) == (id + 1) % MaxSeqs

===============================================================================
