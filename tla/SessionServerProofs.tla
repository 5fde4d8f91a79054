------------------------- MODULE SessionServerProofs -------------------------
(***************************************************************************)
(* Proofs about SessionServer, for every set of session ids, vocabulary,   *)
(* number of sequences, context and batch size.                            *)
(*                                                                         *)
(* IInv is the inductive invariant behind the safety theorems; at the end  *)
(* it also carries the refinement of Conversations, because it says that   *)
(* what the table lists and what a stage has reached is what the KV holds. *)
(***************************************************************************)
EXTENDS SessionServerProps, FiniteSetTheorems, WellFoundedInduction,
        NaturalsInduction, TLAPS

-----------------------------------------------------------------------------
(* Lemmas about the operators *)

\* The longest common prefix exists: CommonPrefix is the length up to which
\* the two token sequences agree, as the while loop of complete_stream finds, and
\* they differ right after it.
LEMMA CommonPrefixSpec ==
    ASSUME NEW a \in Seq(Token), NEW b \in Seq(Token)
    PROVE  /\ CommonPrefix(a, b) \in 0 .. Len(a)
           /\ CommonPrefix(a, b) <= Len(b)
           /\ \A i \in 1 .. CommonPrefix(a, b) : a[i] = b[i]
           /\ (CommonPrefix(a, b) < Len(a) /\ CommonPrefix(a, b) < Len(b))
                 => a[CommonPrefix(a, b) + 1] # b[CommonPrefix(a, b) + 1]
<1> DEFINE T == {j \in Nat : \/ j = Len(a)
                             \/ j = Len(b)
                             \/ j < Len(a) /\ j < Len(b) /\ a[j + 1] # b[j + 1]}
<1>1. Len(a) \in Nat /\ Len(b) \in Nat
  OBVIOUS
<1>2. T \subseteq Nat /\ T # {}
  BY <1>1
<1>3. PICK k \in T : \A j \in T : ~(<<j, k>> \in OpToRel(<, Nat))
  <2>1. IsWellFoundedOn(OpToRel(<, Nat), Nat)
    BY NatLessThanWellFounded
  <2> HIDE DEF T
  <2>2. QED
    BY <1>2, <2>1, WFMin
<1>4. \A j \in T : ~(j < k)
  BY <1>2, <1>3 DEF OpToRel
<1>5. k <= Len(a) /\ k <= Len(b)
  BY <1>1, <1>4
<1>6. \A i \in 1 .. k : a[i] = b[i]
  <2>1. SUFFICES ASSUME NEW i \in 1 .. k, a[i] # b[i] PROVE FALSE
    OBVIOUS
  <2>2. i - 1 \in Nat /\ i - 1 < k /\ (i - 1) + 1 = i
    BY <1>2
  <2>3. i - 1 \in T
    BY <1>1, <1>5, <2>1, <2>2
  <2>4. QED
    BY <1>4, <2>2, <2>3
<1>7. k \in 0 .. Len(a) /\ ((k < Len(a) /\ k < Len(b)) => a[k + 1] # b[k + 1])
  BY <1>1, <1>5
<1>8. \E m \in 0 .. Len(a) :
        /\ m <= Len(b)
        /\ \A i \in 1 .. m : a[i] = b[i]
        /\ (m < Len(a) /\ m < Len(b)) => a[m + 1] # b[m + 1]
  BY <1>5, <1>6, <1>7
<1> QED
  BY <1>8, Zenon DEF CommonPrefix

\* take() hands out a session id (never 0) that was not in use, and moves the
\* cursor to a slot.
LEMMA TakesSpec ==
    ASSUME NEW used, NEW c \in Seqs, NEW id, Takes(used, c, id)
    PROVE  id \in SeqIds \ used /\ CursorAfter(id) \in Seqs
<1>1. PICK i \in 1 .. MaxSeqs - 1 : SweepHit(used, c, i) /\ id = SweepIdx(c, i)
  BY DEF Takes
<1>2. id \in Seqs
  BY <1>1, MaxSeqsAssumption DEF SweepIdx, Seqs
<1>3. id # 0 /\ id \notin used
  BY <1>1 DEF SweepHit
<1>4. CursorAfter(id) \in Seqs
  BY <1>2, MaxSeqsAssumption DEF CursorAfter, Seqs
<1> QED
  BY <1>2, <1>3, <1>4, MaxSeqsAssumption DEF Seqs, SeqIds

\* Facts about sequences that the provers need one at a time.
LEMMA EmptySeq == \A S : <<>> \in Seq(S)
  OBVIOUS

\* Concatenation keeps both arguments, the second one shifted.
LEMMA ConcatSpec ==
    ASSUME NEW S, NEW s \in Seq(S), NEW t \in Seq(S)
    PROVE  /\ s \o t \in Seq(S) /\ Len(s \o t) = Len(s) + Len(t)
           /\ \A i \in 1 .. Len(s) : (s \o t)[i] = s[i]
           /\ \A i \in Len(s) + 1 .. Len(s) + Len(t) : (s \o t)[i] = t[i - Len(s)]
  OBVIOUS

\* Two sequences of one length that agree everywhere are one.
LEMMA SameSeq ==
    ASSUME NEW S, NEW s \in Seq(S), NEW t \in Seq(S), Len(s) = Len(t),
           \A i \in 1 .. Len(s) : s[i] = t[i]
    PROVE  s = t
  OBVIOUS

\* Being a prefix is transitive.
LEMMA PrefixTransitive ==
    ASSUME NEW S, NEW s \in Seq(S), NEW t \in Seq(S), NEW u \in Seq(S),
           IsPrefixOf(s, t), IsPrefixOf(t, u)
    PROVE  IsPrefixOf(s, u)
<1>1. Len(s) \in Nat /\ Len(t) \in Nat /\ Len(u) \in Nat
  OBVIOUS
<1> QED
  BY <1>1 DEF IsPrefixOf

\* Replacing one value of a function.
LEMMA UpdateSpec ==
    ASSUME NEW S, NEW T, NEW f \in [S -> T], NEW x \in S, NEW v \in T
    PROVE  /\ [f EXCEPT ![x] = v] \in [S -> T]
           /\ [f EXCEPT ![x] = v][x] = v
           /\ \A y \in S : y # x => [f EXCEPT ![x] = v][y] = f[y]
  OBVIOUS

-----------------------------------------------------------------------------
(* The inductive invariant *)

\* CachedTokensInKV alone is not inductive: Persist records prompt and generated
\* tokens, so it needs InFlightContext, which needs SeqOwnership so that no other
\* request's step touches the sequence, and FreeSeqsAreEmpty for a fresh session.
IInv ==
    /\ TypeOK
    /\ SeqOwnership
    /\ FreeSeqsAreEmpty
    /\ CachedTokensInKV
    /\ InFlightContext

\* The freshly loaded server satisfies the invariant.
LEMMA InitIInv == Init => IInv
<1> SUFFICES ASSUME Init PROVE IInv
  OBVIOUS
<1> USE MaxSeqsAssumption, ServerAssumption DEF Init
<1>1. TypeOK
  BY SMTT(30) DEF TypeOK, Seqs, SeqIds, NoSeq
<1>2. SeqOwnership
  BY DEF SeqOwnership, SeqsOf
<1>3. FreeSeqsAreEmpty
  BY DEF FreeSeqsAreEmpty, Seqs, SeqIds
<1>4. CachedTokensInKV
  BY DEF CachedTokensInKV
<1>5. InFlightContext
  BY DEF InFlightContext
<1> QED
  BY <1>1, <1>2, <1>3, <1>4, <1>5 DEF IInv

-----------------------------------------------------------------------------
(* Two frame lemmas: which steps leave the table and the KV consistent *)

\* A step that leaves the table, the allocator and the KV alone (most stages
\* of complete_stream do) keeps them consistent.
LEMMA FrameIInv ==
    ASSUME IInv, UNCHANGED <<in_use, live, seqOf, tokens, kv>>
    PROVE  SeqOwnership' /\ FreeSeqsAreEmpty' /\ CachedTokensInKV'
<1>1. SeqOwnership'
  BY DEF IInv, SeqOwnership, SeqsOf
<1>2. FreeSeqsAreEmpty'
  BY DEF IInv, FreeSeqsAreEmpty
<1>3. CachedTokensInKV'
  BY DEF IInv, CachedTokensInKV, IsPrefixOf
<1> QED
  BY <1>1, <1>2, <1>3

\* A request that changes only its own sequence and its own session's tokens,
\* leaving the latter a prefix of the former, keeps the caches of all the
\* other sessions valid: sequences are not shared.
LEMMA OwnSeqIInv ==
    ASSUME IInv, NEW q \in Seqs,
           q = IF sess = NoSid THEN 0 ELSE seqOf[sess],
           UNCHANGED <<in_use, live, seqOf>>,
           \A p \in Seqs : p # q => kv'[p] = kv[p],
           \A t \in Sids : t # sess => tokens'[t] = tokens[t],
           sess # NoSid => IsPrefixOf(tokens'[sess], kv'[q])
    PROVE  SeqOwnership' /\ FreeSeqsAreEmpty' /\ CachedTokensInKV'
<1>a. TypeOK /\ SeqOwnership /\ FreeSeqsAreEmpty /\ CachedTokensInKV
  BY DEF IInv
<1>b. sess \in live \union {NoSid} /\ live \subseteq Sids
  BY <1>a DEF TypeOK
<1>1. SeqOwnership'
  BY <1>a DEF SeqOwnership, SeqsOf
<1>2. FreeSeqsAreEmpty'
  <2>1. \A p \in SeqIds \ in_use : p # q
    <3>1. CASE sess = NoSid
      BY <3>1 DEF SeqIds
    <3>2. CASE sess # NoSid
      BY <1>a, <1>b, <3>2 DEF SeqOwnership, SeqsOf
    <3> QED
      BY <3>1, <3>2
  <2>2. SeqIds \subseteq Seqs
    BY DEF SeqIds, Seqs
  <2> QED
    BY <1>a, <2>1, <2>2, Zenon DEF FreeSeqsAreEmpty
<1>3. CachedTokensInKV'
  <2>1. SUFFICES ASSUME NEW s \in live PROVE IsPrefixOf(tokens'[s], kv'[seqOf[s]])
    BY DEF CachedTokensInKV, IsPrefixOf
  <2>2. IsPrefixOf(tokens[s], kv[seqOf[s]]) /\ seqOf[s] \in Seqs /\ s \in Sids
    BY <1>a DEF CachedTokensInKV, TypeOK
  <2>3. CASE s = sess
    <3>1. sess # NoSid
      BY <1>b, <2>3, ServerAssumption
    <3> QED
      BY <2>3, <3>1, Zenon
  <2>4. CASE s # sess
    <3>1. seqOf[s] # q
      <4>1. CASE sess = NoSid
        BY <1>a, <4>1 DEF SeqOwnership, SeqsOf
      <4>2. CASE sess # NoSid
        BY <1>a, <1>b, <2>4, <4>2 DEF SeqOwnership
      <4> QED
        BY <4>1, <4>2
    <3> QED
      BY <2>2, <2>4, <3>1, Zenon
  <2> QED
    BY <2>3, <2>4
<1> QED
  BY <1>1, <1>2, <1>3

-----------------------------------------------------------------------------
(* Session resolution *)

\* A handler entering complete_stream disturbs nothing.
LEMMA BeginIInv ==
    ASSUME IInv, NEW h \in Sids \union {NoSid}, NEW fb \in BOOLEAN,
           NEW p \in Prompts, NEW m \in MaxTokens, Begin(h, fb, p, m)
    PROVE  IInv'
<1> USE DEF Begin, alloc, table, llama, work
<1>1. TypeOK'
  BY ServerAssumption, SMTT(30) DEF IInv, TypeOK, Prompts
<1>2. SeqOwnership' /\ FreeSeqsAreEmpty' /\ CachedTokensInKV'
  BY FrameIInv
<1>3. InFlightContext'
  BY DEF IInv, InFlightContext
<1> QED
  BY <1>1, <1>2, <1>3 DEF IInv

\* An empty prompt is answered without touching the server's state.
LEMMA BeginEmptyIInv == ASSUME IInv, BeginEmpty PROVE IInv'
<1> USE DEF BeginEmpty, alloc, table, llama, request, plan, work
<1>1. TypeOK'
  BY DEF IInv, TypeOK
<1>2. SeqOwnership' /\ FreeSeqsAreEmpty' /\ CachedTokensInKV'
  BY FrameIInv
<1>3. InFlightContext'
  BY DEF IInv, InFlightContext, IsPrefixOf
<1> QED
  BY <1>1, <1>2, <1>3 DEF IInv

\* Finding a session only makes it the most recent one.
LEMMA FindIInv == ASSUME IInv, FindSession PROVE IInv'
<1> USE DEF FindSession, alloc, llama, request, work
<1>1. TypeOK'
  BY DEF IInv, TypeOK, Touched
<1>2. SeqOwnership' /\ FreeSeqsAreEmpty' /\ CachedTokensInKV'
  BY FrameIInv
<1>3. InFlightContext'
  BY DEF IInv, InFlightContext
<1> QED
  BY <1>1, <1>2, <1>3 DEF IInv

\* Inserting a session under an id nobody owns, after the sessions in gone
\* left with their ids and their KV, keeps every part of the invariant.
LEMMA InsertIInv ==
    ASSUME IInv, NEW gone \in SUBSET live, NEW id \in SeqIds,
           pc = "resolve", header \in Sids \ live,
           id \notin in_use \ SeqsOf(gone),
           Insert(header, id, gone),
           in_use' = (in_use \ SeqsOf(gone)) \union {id},
           cursor' \in Seqs,
           kv' = FreeKV(SeqsOf(gone)),
           sess' = header, pc' = "trim",
           UNCHANGED <<logits, request, max_tokens, seq, n_past, work, status>>
    PROVE  IInv'
<1> USE MaxSeqsAssumption
<1>a. TypeOK /\ SeqOwnership /\ FreeSeqsAreEmpty /\ CachedTokensInKV /\ InFlightContext
  BY DEF IInv
<1>b. /\ header \in Sids /\ header \notin live /\ header \notin gone
      /\ id \in Seqs /\ id # 0
      /\ gone \subseteq live /\ live \subseteq Sids
      /\ live' = (live \ gone) \union {header}
  <2>1. live' = (live \ gone) \union {header}
    BY Zenon DEF Insert
  <2>2. gone \subseteq live /\ live \subseteq Sids
    BY <1>a DEF TypeOK
  <2>3. id \in Seqs /\ id # 0
    BY DEF SeqIds, Seqs
  <2> QED
    BY <2>1, <2>2, <2>3
<1>c. /\ seqOf' \in [Sids -> Seqs]
      /\ seqOf'[header] = id
      /\ \A t \in live \ gone : seqOf'[t] = seqOf[t]
  <2>1. seqOf' = [t \in Sids |-> IF t = header THEN id ELSE Erased(seqOf, gone, NoSeq)[t]]
    BY Zenon DEF Insert
  <2>2. seqOf \in [Sids -> Seqs] /\ NoSeq \in Seqs
    BY <1>a DEF TypeOK, NoSeq, Seqs
  <2>3. \A t \in Sids : Erased(seqOf, gone, NoSeq)[t] = IF t \in gone THEN NoSeq ELSE seqOf[t]
    BY DEF Erased
  <2> QED
    BY <1>b, <2>1, <2>2, <2>3
<1>d. /\ tokens' \in [Sids -> Seq(Token)]
      /\ tokens'[header] = <<>>
      /\ \A t \in live \ gone : tokens'[t] = tokens[t]
  <2>1. <<>> \in Seq(Token)
    OBVIOUS
  <2>2. tokens' = Erased(tokens, gone \union {header}, <<>>)
    BY DEF Insert
  <2>3. tokens \in [Sids -> Seq(Token)]
    BY <1>a DEF TypeOK
  <2> QED
    BY <1>b, <2>1, <2>2, <2>3, Zenon DEF Erased
<1>e. \A t \in live \ gone : seqOf[t] \in Seqs /\ seqOf[t] \notin SeqsOf(gone)
  <2>1. SUFFICES ASSUME NEW t \in live \ gone
                 PROVE  seqOf[t] \in Seqs /\ seqOf[t] \notin SeqsOf(gone)
    OBVIOUS
  <2>2. seqOf[t] \in Seqs
    BY <1>a, <1>b DEF TypeOK
  <2>3. \A g \in gone : seqOf[g] # seqOf[t]
    BY <1>a, <1>b DEF SeqOwnership
  <2> QED
    BY <2>2, <2>3 DEF SeqsOf
<1>1. TypeOK'
  <2>2. age' \in [Sids -> Nat]
    BY <1>a, <1>b, SMTT(30) DEF TypeOK, Erased, Touched, Insert
  <2>3. kv' \in [Seqs -> Seq(Token)]
    BY <1>a DEF TypeOK, FreeKV
  <2>4. in_use' \subseteq SeqIds /\ live' \subseteq Sids /\ sess' \in live'
    BY <1>a, <1>b DEF TypeOK
  <2>5. /\ cursor' \in Seqs /\ logits' \in Seq(Token) /\ pc' = "trim"
        /\ header' \in Sids \union {NoSid} /\ fallback' \in BOOLEAN
        /\ prompt' \in Seq(Token) /\ max_tokens' \in Int
    BY <1>a DEF TypeOK, request
  <2>6. /\ seq' \in Seqs /\ n_past' \in Nat /\ status' \in {200, 503}
        /\ fed' \in Nat /\ generated' \in Seq(Token) /\ failed' \in BOOLEAN
    BY <1>a DEF TypeOK, work
  <2> QED
    BY <1>c, <1>d, <2>2, <2>3, <2>4, <2>5, <2>6 DEF TypeOK
<1>2. SeqOwnership'
  <2>1. \A t \in live \ gone : seqOf[t] \in in_use
    BY <1>a, <1>b DEF SeqOwnership, SeqsOf
  <2>2. SeqsOf(live) = in_use
    BY <1>a DEF SeqOwnership
  <2>3. SeqsOf(live)' = (in_use \ SeqsOf(gone)) \union {id}
    BY <1>b, <1>c, <1>e, <2>1, <2>2 DEF SeqsOf
  <2>4. ASSUME NEW s \in live', NEW t \in live', seqOf'[s] = seqOf'[t] PROVE s = t
    BY <1>a, <1>b, <1>c, <1>e, <2>1, <2>4 DEF SeqOwnership
  <2>5. 0 \notin SeqsOf(live)'
    BY <1>a, <1>b, <2>3 DEF SeqOwnership, TypeOK, SeqIds
  <2> QED
    BY <2>3, <2>4, <2>5 DEF SeqOwnership
<1>3. FreeSeqsAreEmpty'
  BY <1>a DEF FreeSeqsAreEmpty, FreeKV, TypeOK, Seqs, SeqIds
<1>4. CachedTokensInKV'
  <2>1. SUFFICES ASSUME NEW s \in live' PROVE IsPrefixOf(tokens'[s], kv'[seqOf'[s]])
    BY DEF CachedTokensInKV, IsPrefixOf
  <2>2. CASE s = header
    <3>1. kv'[id] \in Seq(Token)
      BY <1>b, <1>1 DEF TypeOK
    <3> QED
      BY <1>c, <1>d, <2>2, <3>1 DEF IsPrefixOf
  <2>3. CASE s \in live \ gone
    <3>1. kv'[seqOf[s]] = kv[seqOf[s]]
      BY <1>e, <2>3 DEF FreeKV
    <3> QED
      BY <1>a, <1>c, <1>d, <2>3, <3>1 DEF CachedTokensInKV
  <2> QED
    BY <1>b, <2>2, <2>3
<1>5. InFlightContext'
  BY <1>a DEF InFlightContext, work
<1> QED
  BY <1>1, <1>2, <1>3, <1>4, <1>5 DEF IInv

\* A first take() that succeeds.
LEMMA AllocIInv == ASSUME IInv, NEW id \in Seqs, AllocSession(id) PROVE IInv'
<1> DEFINE gone == IF Cardinality(live) >= Capacity THEN LRU ELSE {}
<1>1. TypeOK /\ SeqOwnership
  BY DEF IInv
<1>2. gone \in SUBSET live
  BY DEF LRU
<1>3. id \in SeqIds \ in_use /\ CursorAfter(id) \in Seqs
  BY <1>1, TakesSpec DEF AllocSession, TypeOK
<1>4. SeqsOf(gone) \subseteq in_use
  BY <1>1, <1>2 DEF SeqOwnership, SeqsOf
<1>5. /\ pc = "resolve" /\ header \in Sids \ live
      /\ Insert(header, id, gone)
      /\ in_use' = (in_use \union {id}) \ SeqsOf(gone)
      /\ cursor' = CursorAfter(id)
      /\ kv' = FreeKV(SeqsOf(gone))
      /\ sess' = header /\ pc' = "trim"
      /\ UNCHANGED <<logits, request, max_tokens, seq, n_past, work, status>>
  BY Zenon DEF AllocSession
<1>6. in_use' = (in_use \ SeqsOf(gone)) \union {id}
  BY <1>3, <1>4, <1>5
<1> HIDE DEF gone
<1> QED
  BY <1>2, <1>3, <1>5, <1>6, InsertIInv

\* The retry after evict_lru: the id may be the one just given back.
LEMMA EvictThenAllocIInv ==
    ASSUME IInv, NEW id \in Seqs, EvictThenAlloc(id) PROVE IInv'
<1>1. TypeOK /\ SeqOwnership
  BY DEF IInv
<1>2. LRU \in SUBSET live
  BY DEF LRU
<1>3. id \in SeqIds \ FreedIds /\ CursorAfter(id) \in Seqs
  BY <1>1, TakesSpec DEF EvictThenAlloc, TypeOK
<1>4. /\ pc = "resolve" /\ header \in Sids \ live
      /\ Insert(header, id, LRU)
      /\ in_use' = (in_use \ SeqsOf(LRU)) \union {id}
      /\ cursor' = CursorAfter(id)
      /\ kv' = FreeKV(SeqsOf(LRU))
      /\ sess' = header /\ pc' = "trim"
      /\ UNCHANGED <<logits, request, max_tokens, seq, n_past, work, status>>
  BY Zenon DEF EvictThenAlloc, FreedIds
<1>5. id \notin in_use \ SeqsOf(LRU)
  BY <1>3 DEF FreedIds
<1> QED
  BY <1>2, <1>3, <1>4, <1>5, InsertIInv

\* The retry fails: the evicted session leaves with its id and its KV, and
\* the request goes on without a session.
LEMMA EvictThenStatelessIInv == ASSUME IInv, EvictThenStateless PROVE IInv'
<1> USE MaxSeqsAssumption, ServerAssumption
<1>a. TypeOK /\ SeqOwnership /\ FreeSeqsAreEmpty /\ CachedTokensInKV /\ InFlightContext
  BY DEF IInv
<1>b. /\ pc = "resolve" /\ pc' = "trim"
      /\ live' = live \ LRU
      /\ seqOf' = Erased(seqOf, LRU, NoSeq)
      /\ tokens' = Erased(tokens, LRU, <<>>)
      /\ age' = Erased(age, LRU, 0)
      /\ in_use' = in_use \ SeqsOf(LRU)
      /\ kv' = FreeKV(SeqsOf(LRU))
      /\ UNCHANGED <<cursor, logits, request, plan, work, status>>
  BY Zenon DEF EvictThenStateless, FreedIds
<1>c. LRU \subseteq live /\ live \subseteq Sids
  BY <1>a DEF LRU, TypeOK
<1>d. /\ seqOf' \in [Sids -> Seqs]
      /\ \A t \in live \ LRU : seqOf'[t] = seqOf[t]
  BY <1>a, <1>b, <1>c, SMTT(30) DEF Erased, TypeOK, NoSeq, Seqs
<1>e. /\ tokens' \in [Sids -> Seq(Token)]
      /\ \A t \in live \ LRU : tokens'[t] = tokens[t]
  <2>1. <<>> \in Seq(Token)
    OBVIOUS
  <2>2. tokens \in [Sids -> Seq(Token)]
    BY <1>a DEF TypeOK
  <2> QED
    BY <1>b, <1>c, <2>1, <2>2, Zenon DEF Erased
<1>f. \A t \in live \ LRU : seqOf[t] \in Seqs /\ seqOf[t] \notin SeqsOf(LRU)
  <2>1. SUFFICES ASSUME NEW t \in live \ LRU
                 PROVE  seqOf[t] \in Seqs /\ seqOf[t] \notin SeqsOf(LRU)
    OBVIOUS
  <2>2. seqOf[t] \in Seqs
    BY <1>a, <1>c DEF TypeOK
  <2>3. \A g \in LRU : seqOf[g] # seqOf[t]
    BY <1>a, <1>c DEF SeqOwnership
  <2> QED
    BY <2>2, <2>3 DEF SeqsOf
<1>g. sess = NoSid
  BY <1>a, <1>b DEF InFlightContext
<1>1. TypeOK'
  <2>1. age' \in [Sids -> Nat]
    BY <1>a, <1>b DEF TypeOK, Erased
  <2>2. kv' \in [Seqs -> Seq(Token)]
    BY <1>a, <1>b DEF TypeOK, FreeKV
  <2>3. in_use' \subseteq SeqIds /\ live' \subseteq Sids
    BY <1>a, <1>b DEF TypeOK
  <2>4. /\ cursor' = cursor /\ logits' = logits /\ status' = status
        /\ header' = header /\ fallback' = fallback /\ prompt' = prompt
        /\ max_tokens' = max_tokens /\ sess' = NoSid /\ seq' = seq /\ n_past' = n_past
        /\ fed' = fed /\ generated' = generated /\ failed' = failed /\ pc' = "trim"
    BY <1>b, <1>g DEF request, work, plan
  <2>5. /\ cursor \in Seqs /\ logits \in Seq(Token) /\ status \in {200, 503}
        /\ header \in Sids \union {NoSid} /\ fallback \in BOOLEAN
        /\ prompt \in Seq(Token) /\ max_tokens \in Int /\ seq \in Seqs /\ n_past \in Nat
        /\ fed \in Nat /\ generated \in Seq(Token) /\ failed \in BOOLEAN
    BY <1>a, Zenon DEF TypeOK
  <2> HIDE MaxSeqsAssumption, ServerAssumption
  <2> QED
    BY <1>d, <1>e, <2>1, <2>2, <2>3, <2>4, <2>5, SMTT(60) DEF TypeOK
<1>2. SeqOwnership'
  <2>1. SeqsOf(live)' = in_use \ SeqsOf(LRU)
    BY <1>a, <1>b, <1>c, <1>d, <1>f DEF SeqOwnership, SeqsOf
  <2>2. ASSUME NEW s \in live', NEW t \in live', seqOf'[s] = seqOf'[t] PROVE s = t
    BY <1>a, <1>b, <1>d, <2>2 DEF SeqOwnership
  <2> QED
    BY <1>a, <1>b, <2>1, <2>2 DEF SeqOwnership
<1>3. FreeSeqsAreEmpty'
  BY <1>a, <1>b DEF FreeSeqsAreEmpty, FreeKV, TypeOK, Seqs, SeqIds
<1>4. CachedTokensInKV'
  <2>1. SUFFICES ASSUME NEW s \in live \ LRU PROVE IsPrefixOf(tokens'[s], kv'[seqOf'[s]])
    BY <1>b DEF CachedTokensInKV, IsPrefixOf
  <2>2. kv'[seqOf[s]] = kv[seqOf[s]]
    BY <1>b, <1>f DEF FreeKV
  <2> QED
    BY <1>a, <1>d, <1>e, <2>2 DEF CachedTokensInKV
<1>5. InFlightContext'
  BY <1>a, <1>b DEF InFlightContext, work, plan
<1> QED
  BY <1>1, <1>2, <1>3, <1>4, <1>5 DEF IInv

-----------------------------------------------------------------------------
(* The rest of session resolution *)

\* Continuing the session find_by_prefix chose.
LEMMA MatchIInv == ASSUME IInv, NEW s \in Sids, MatchPrefix(s) PROVE IInv'
<1> USE DEF MatchPrefix, alloc, llama, request, work
<1>1. TypeOK'
  BY DEF IInv, TypeOK, Touched, BestPrefix, HoldsPrefix
<1>2. SeqOwnership' /\ FreeSeqsAreEmpty' /\ CachedTokensInKV'
  BY FrameIInv
<1>3. InFlightContext'
  BY DEF IInv, InFlightContext
<1> QED
  BY <1>1, <1>2, <1>3 DEF IInv

\* No session to continue.
LEMMA NoSessionIInv == ASSUME IInv, NoSession PROVE IInv'
<1> USE DEF NoSession, alloc, table, llama, request, plan, work
<1>1. TypeOK'
  BY DEF IInv, TypeOK
<1>2. SeqOwnership' /\ FreeSeqsAreEmpty' /\ CachedTokensInKV'
  BY FrameIInv
<1>3. InFlightContext'
  BY DEF IInv, InFlightContext
<1> QED
  BY <1>1, <1>2, <1>3 DEF IInv

-----------------------------------------------------------------------------
(* Trimming and the token budget *)

\* The common prefix stays in the KV and in the session's tokens; the rest
\* leaves both.
LEMMA TrimIInv == ASSUME IInv, TrimSession PROVE IInv'
<1> DEFINE k == CommonPrefix(tokens[sess], prompt)
           q == seqOf[sess]
<1>a. TypeOK /\ SeqOwnership /\ FreeSeqsAreEmpty /\ CachedTokensInKV /\ InFlightContext
  BY DEF IInv
<1>b. /\ pc = "trim" /\ pc' = "budget" /\ sess # NoSid
      /\ n_past' = k /\ seq' = q
      /\ UNCHANGED <<alloc, live, seqOf, age, logits, request, max_tokens, sess,
                     work, status>>
  BY Zenon DEF TrimSession
<1>c. /\ sess \in live /\ sess \in Sids /\ q \in Seqs
      /\ tokens[sess] \in Seq(Token) /\ kv[q] \in Seq(Token)
      /\ prompt \in Seq(Token)
  BY <1>a, <1>b DEF TypeOK
<1>d. /\ k \in Nat /\ k <= Len(tokens[sess]) /\ k <= Len(prompt)
      /\ \A i \in 1 .. k : tokens[sess][i] = prompt[i]
  BY <1>c, CommonPrefixSpec
<1>e. /\ Len(tokens[sess]) <= Len(kv[q])
      /\ \A i \in 1 .. Len(tokens[sess]) : tokens[sess][i] = kv[q][i]
  BY <1>a, <1>c DEF CachedTokensInKV, IsPrefixOf
<1> HIDE DEF k, q
<1> DEFINE c == SubSeq(kv[q], 1, k)
           d == SubSeq(tokens[sess], 1, k)
<1>f. \/ kv' = kv /\ tokens' = tokens
      \/ /\ kv' = [kv EXCEPT ![q] = c]
         /\ tokens' = [tokens EXCEPT ![sess] = d]
  BY DEF TrimSession, SeqRm, k, q
<1>g. c \in Seq(Token) /\ Len(c) = k /\ \A i \in 1 .. k : c[i] = kv[q][i]
  BY <1>c, <1>d, <1>e
<1>h. d \in Seq(Token) /\ Len(d) = k /\ \A i \in 1 .. k : d[i] = tokens[sess][i]
  BY <1>c, <1>d
<1> HIDE DEF c, d
<1>i. /\ kv' \in [Seqs -> Seq(Token)] /\ tokens' \in [Sids -> Seq(Token)]
      /\ \A p \in Seqs : p # q => kv'[p] = kv[p]
      /\ \A t \in Sids : t # sess => tokens'[t] = tokens[t]
      /\ \/ kv'[q] = kv[q] /\ tokens'[sess] = tokens[sess]
         \/ kv'[q] = c /\ tokens'[sess] = d
  <2>1. kv \in [Seqs -> Seq(Token)] /\ tokens \in [Sids -> Seq(Token)]
    BY <1>a DEF TypeOK
  <2>2. CASE kv' = kv /\ tokens' = tokens
    BY <2>1, <2>2, Zenon
  <2>3. CASE /\ kv' = [kv EXCEPT ![q] = c]
             /\ tokens' = [tokens EXCEPT ![sess] = d]
    BY <1>c, <1>g, <1>h, <2>1, <2>3, UpdateSpec, Zenon
  <2> QED
    BY <1>f, <2>2, <2>3, Zenon
<1>1. TypeOK'
  <2>1. /\ live' = live /\ sess' = sess /\ seq' \in Seqs /\ n_past' \in Nat
        /\ pc' = "budget"
    BY <1>b, <1>c, <1>d
  <2>2. /\ in_use' = in_use /\ cursor' = cursor /\ seqOf' = seqOf /\ age' = age
        /\ logits' = logits /\ header' = header /\ fallback' = fallback
        /\ prompt' = prompt /\ max_tokens' = max_tokens /\ fed' = fed
        /\ generated' = generated /\ failed' = failed /\ status' = status
    BY <1>b DEF alloc, request, work
  <2>3. kv' \in [Seqs -> Seq(Token)] /\ tokens' \in [Sids -> Seq(Token)]
    BY <1>i
  <2>4. TypeOK
    BY <1>a
  <2>5. /\ in_use' \subseteq SeqIds /\ cursor' \in Seqs /\ live' \subseteq Sids
        /\ seqOf' \in [Sids -> Seqs] /\ age' \in [Sids -> Nat] /\ logits' \in Seq(Token)
        /\ sess' \in live' \union {NoSid}
    BY <2>1, <2>2, <2>4 DEF TypeOK
  <2>6. /\ header' \in Sids \union {NoSid} /\ fallback' \in BOOLEAN
        /\ prompt' \in Seq(Token) /\ max_tokens' \in Int /\ fed' \in Nat
        /\ generated' \in Seq(Token) /\ failed' \in BOOLEAN /\ status' \in {200, 503}
    BY <2>2, <2>4 DEF TypeOK
  <2> QED
    BY <2>1, <2>3, <2>5, <2>6 DEF TypeOK
<1>2. SeqOwnership' /\ FreeSeqsAreEmpty' /\ CachedTokensInKV'
  <2>1. IsPrefixOf(d, c) /\ IsPrefixOf(tokens[sess], kv[q])
    <3>1. \A i \in 1 .. k : i \in 1 .. Len(tokens[sess])
      BY ONLY <1>c, <1>d
    <3>2. \A i \in 1 .. k : d[i] = c[i]
      BY <1>e, <1>g, <1>h, <3>1, Zenon
    <3>3. IsPrefixOf(d, c)
      BY <1>d, <1>g, <1>h, <3>2 DEF IsPrefixOf
    <3>4. IsPrefixOf(tokens[sess], kv[q])
      BY <1>e, Zenon DEF IsPrefixOf
    <3> QED
      BY <3>3, <3>4
  <2>2. IsPrefixOf(tokens'[sess], kv'[q])
    BY <1>i, <2>1, Zenon
  <2>3. q = IF sess = NoSid THEN 0 ELSE seqOf[sess]
    BY <1>b DEF q
  <2>4. UNCHANGED <<in_use, live, seqOf>>
    BY <1>b DEF alloc
  <2> QED
    BY <1>c, <1>i, <2>2, <2>3, <2>4, OwnSeqIInv
<1>3. InFlightContext'
  <2>1. fed = 0 /\ generated = <<>>
    BY <1>a, <1>b DEF InFlightContext
  <2>2. Len(kv'[q]) >= k /\ \A i \in 1 .. k : kv'[q][i] = prompt[i]
    <3>1. CASE kv'[q] = kv[q]
      BY <1>c, <1>d, <1>e, <3>1
    <3>2. CASE kv'[q] = c
      BY <1>c, <1>d, <1>e, <1>g, <3>2
    <3> QED
      BY <1>i, <3>1, <3>2
  <2> QED
    BY <1>b, <1>d, <2>1, <2>2 DEF InFlightContext, work, request, q
<1> QED
  BY <1>1, <1>2, <1>3 DEF IInv

\* Emptying the request's own sequence.
LEMMA FreeOwnKV ==
    ASSUME TypeOK, NEW q \in Seqs, kv' = FreeKV({q})
    PROVE  /\ kv' \in [Seqs -> Seq(Token)] /\ kv'[q] = <<>>
           /\ \A p \in Seqs : p # q => kv'[p] = kv[p]
<1>1. kv \in [Seqs -> Seq(Token)] /\ <<>> \in Seq(Token)
  BY DEF TypeOK
<1> QED
  BY <1>1, Zenon DEF FreeKV

\* Clearing sequence 0 touches no session.
LEMMA ClearStatelessIInv == ASSUME IInv, ClearStateless PROVE IInv'
<1> USE DEF ClearStateless, alloc, table, llama, request, plan, work
<1>a. TypeOK /\ InFlightContext
  BY DEF IInv
<1>b. 0 \in Seqs
  BY MaxSeqsAssumption DEF Seqs
<1>c. /\ kv' \in [Seqs -> Seq(Token)] /\ kv'[0] = <<>>
      /\ \A p \in Seqs : p # 0 => kv'[p] = kv[p]
  BY <1>a, <1>b, FreeOwnKV
<1>1. TypeOK'
  BY <1>a, <1>c DEF TypeOK
<1>2. SeqOwnership' /\ FreeSeqsAreEmpty' /\ CachedTokensInKV'
  <2>1. UNCHANGED <<in_use, live, seqOf, tokens>> /\ sess = NoSid
    OBVIOUS
  <2> QED
    BY <1>b, <1>c, <2>1, OwnSeqIInv
<1>3. InFlightContext'
  BY <1>a, <1>c DEF InFlightContext, TypeOK
<1> QED
  BY <1>1, <1>2, <1>3 DEF IInv

\* The budget check passes.
LEMMA AcceptIInv == ASSUME IInv, AcceptBudget PROVE IInv'
<1> USE DEF AcceptBudget, alloc, table, llama, request, work
<1>1. TypeOK'
  <2>1. max_tokens' \in Int
    BY ServerAssumption DEF IInv, CutBudget, TypeOK
  <2> QED
    BY <2>1 DEF IInv, TypeOK
<1>2. SeqOwnership' /\ FreeSeqsAreEmpty' /\ CachedTokensInKV'
  BY FrameIInv
<1>3. InFlightContext'
  BY DEF IInv, InFlightContext
<1> QED
  BY <1>1, <1>2, <1>3 DEF IInv

\* No room to generate: session and sequence are emptied together.
LEMMA ContextExhaustedIInv == ASSUME IInv, ContextExhausted PROVE IInv'
<1>a. TypeOK /\ InFlightContext
  BY DEF IInv
<1>b. /\ pc = "budget" /\ pc' = "reply" /\ max_tokens' = CutBudget
      /\ UNCHANGED <<alloc, live, seqOf, age, logits, request, sess, seq, n_past,
                     work, status>>
  BY DEF ContextExhausted
<1>c. seq \in Seqs /\ seq = IF sess = NoSid THEN 0 ELSE seqOf[sess]
  BY <1>a, <1>b DEF TypeOK, InFlightContext
<1>d. CutBudget \in Int
  BY <1>a, ServerAssumption DEF TypeOK, CutBudget
<1>e. /\ kv' \in [Seqs -> Seq(Token)] /\ tokens' \in [Sids -> Seq(Token)]
      /\ \A p \in Seqs : p # seq => kv'[p] = kv[p]
      /\ \A t \in Sids : t # sess => tokens'[t] = tokens[t]
      /\ sess # NoSid => tokens'[sess] = <<>> /\ kv'[seq] = <<>>
  <2>1. kv \in [Seqs -> Seq(Token)] /\ tokens \in [Sids -> Seq(Token)]
    BY <1>a DEF TypeOK
  <2>2. CASE sess = NoSid
    BY <2>1, <2>2 DEF ContextExhausted
  <2>3. CASE sess # NoSid
    <3>1. kv' = FreeKV({seq}) /\ tokens' = [tokens EXCEPT ![sess] = <<>>]
      BY <2>3 DEF ContextExhausted
    <3>2. sess \in Sids /\ <<>> \in Seq(Token)
      BY <1>a, <2>3 DEF TypeOK
    <3>3. /\ kv' \in [Seqs -> Seq(Token)] /\ kv'[seq] = <<>>
          /\ \A p \in Seqs : p # seq => kv'[p] = kv[p]
      BY <1>a, <1>c, <3>1, FreeOwnKV
    <3> QED
      BY <2>1, <3>1, <3>2, <3>3, UpdateSpec, Zenon
  <2> QED
    BY <2>2, <2>3
<1>1. TypeOK'
  BY <1>a, <1>b, <1>d, <1>e DEF TypeOK, alloc, request, work
<1>2. SeqOwnership' /\ FreeSeqsAreEmpty' /\ CachedTokensInKV'
  <2>1. UNCHANGED <<in_use, live, seqOf>>
    BY <1>b DEF alloc
  <2>2. IsPrefixOf(<<>>, <<>>)
    BY DEF IsPrefixOf
  <2>3. sess # NoSid => IsPrefixOf(tokens'[sess], kv'[seq])
    BY <1>e, <2>2
  <2> QED
    BY <1>c, <1>e, <2>1, <2>3, OwnSeqIInv
<1>3. InFlightContext'
  BY <1>b DEF InFlightContext
<1> QED
  BY <1>1, <1>2, <1>3 DEF IInv

-----------------------------------------------------------------------------
(* Prefill and generation *)

\* One batch of the prefill loop: the chunk starts where the sequence ends, so
\* after it the sequence is exactly the first n_past + fed prompt tokens.
LEMMA ChunkEffect ==
    ASSUME IInv, PrefillChunk
    PROVE  /\ seq \in Seqs /\ Len(kv[seq]) = n_past + fed
           /\ ChunkLen \in Nat /\ ChunkLen >= 1
           /\ n_past + fed + ChunkLen <= Len(prompt)
           /\ kv' \in [Seqs -> Seq(Token)]
           /\ \A p \in Seqs : p # seq => kv'[p] = kv[p]
           /\ kv'[seq] \in Seq(Token) /\ Len(kv'[seq]) = n_past + fed + ChunkLen
           /\ \A i \in 1 .. n_past + fed + ChunkLen : kv'[seq][i] = prompt[i]
           /\ \A i \in 1 .. Len(kv[seq]) : kv'[seq][i] = kv[seq][i]
<1> DEFINE n == ChunkLen
           m == n_past + fed
           c == SubSeq(prompt, m + 1, m + n)
           d == kv[seq] \o c
<1>a. TypeOK /\ InFlightContext /\ CachedTokensInKV
  BY DEF IInv
<1>b. /\ pc = "prefill" /\ fed < NFeed /\ m = Len(kv[seq])
      /\ kv' = [kv EXCEPT ![seq] = d]
      /\ fed' = fed + n
      /\ UNCHANGED <<alloc, table, pc, request, plan, generated, failed, status>>
  BY Zenon DEF PrefillChunk, DecodeOK
<1>c. /\ prompt \in Seq(Token) /\ n_past \in Nat /\ fed \in Nat /\ seq \in Seqs
      /\ kv \in [Seqs -> Seq(Token)] /\ kv[seq] \in Seq(Token)
  BY <1>a DEF TypeOK
<1>d. /\ seq = IF sess = NoSid THEN 0 ELSE seqOf[sess]
      /\ m <= Len(prompt)
      /\ \A i \in 1 .. m : kv[seq][i] = prompt[i]
      /\ generated = <<>>
  BY <1>a, <1>b DEF InFlightContext
<1>e. n \in Nat /\ n >= 1 /\ m + n <= Len(prompt)
  <2>1. NBatch \in Nat /\ NBatch >= 1
    BY ServerAssumption
  <2>2. Len(prompt) \in Nat /\ fed < Len(prompt) - n_past
    BY <1>b, <1>c DEF NFeed
  <2>3. \/ n = Len(prompt) - n_past - fed
        \/ n = NBatch /\ ~(Len(prompt) - n_past - fed < NBatch)
    BY DEF ChunkLen, NFeed
  <2> HIDE DEF n
  <2> QED
    BY <1>c, <2>1, <2>2, <2>3
<1>f. m \in Nat
  BY <1>c
<1> HIDE DEF n, m
<1>g. c \in Seq(Token) /\ Len(c) = n /\ \A i \in 1 .. n : c[i] = prompt[m + i]
  BY <1>c, <1>e, <1>f
<1> HIDE DEF c
<1>h. /\ d \in Seq(Token) /\ Len(d) = m + n
      /\ \A i \in 1 .. m : d[i] = kv[seq][i]
      /\ \A i \in m + 1 .. m + n : d[i] = c[i - m]
  <2>1. kv[seq] \in Seq(Token) /\ Len(kv[seq]) = m
    BY <1>b, <1>c
  <2>2. c \in Seq(Token) /\ Len(c) = n
    BY <1>g
  <2>3. /\ d \in Seq(Token) /\ Len(d) = Len(kv[seq]) + Len(c)
        /\ \A i \in 1 .. Len(kv[seq]) : d[i] = kv[seq][i]
        /\ \A i \in Len(kv[seq]) + 1 .. Len(kv[seq]) + Len(c) : d[i] = c[i - Len(kv[seq])]
    BY <2>1, <2>2, ConcatSpec, Zenon
  <2> HIDE DEF d
  <2> QED
    BY <2>1, <2>2, <2>3, Zenon
<1> HIDE DEF d
<1>i. \A i \in 1 .. m + n : d[i] = prompt[i]
  <2>1. SUFFICES ASSUME NEW i \in 1 .. m + n PROVE d[i] = prompt[i]
    OBVIOUS
  <2>2. CASE i <= m
    BY <1>d, <1>e, <1>f, <1>h, <2>2
  <2>3. CASE i > m
    <3>1. i \in m + 1 .. m + n /\ i - m \in 1 .. n /\ m + (i - m) = i
      BY <1>e, <1>f, <2>3
    <3> QED
      BY <1>g, <1>h, <3>1
  <2>4. i <= m \/ i > m
    BY <1>e, <1>f
  <2> QED
    BY <2>2, <2>3, <2>4
<1>j. /\ kv' \in [Seqs -> Seq(Token)] /\ kv'[seq] = d
      /\ \A p \in Seqs : p # seq => kv'[p] = kv[p]
  BY <1>b, <1>c, <1>h, UpdateSpec, Zenon
<1> QED
  BY <1>b, <1>c, <1>e, <1>h, <1>i, <1>j DEF n, m

\* Fed with a chunk, the request's sequence still extends the session's cache.
LEMMA PrefillChunkIInv == ASSUME IInv, PrefillChunk PROVE IInv'
<1> DEFINE n == ChunkLen
           m == n_past + fed
           d == kv'[seq]
<1>a. TypeOK /\ InFlightContext /\ CachedTokensInKV
  BY DEF IInv
<1>b. /\ pc = "prefill" /\ fed' = fed + n
      /\ UNCHANGED <<alloc, table, pc, request, plan, generated, failed, status>>
  BY Zenon DEF PrefillChunk
<1>c. /\ prompt \in Seq(Token) /\ n_past \in Nat /\ fed \in Nat /\ seq \in Seqs
      /\ kv \in [Seqs -> Seq(Token)] /\ kv[seq] \in Seq(Token)
  BY <1>a DEF TypeOK
<1>d. seq = (IF sess = NoSid THEN 0 ELSE seqOf[sess]) /\ generated = <<>>
  BY <1>a, <1>b DEF InFlightContext
<1>e. n \in Nat /\ n >= 1 /\ m + n <= Len(prompt) /\ m = Len(kv[seq])
  BY ChunkEffect, <1>c
<1>f. m \in Nat
  BY <1>c
<1>h. /\ d \in Seq(Token) /\ Len(d) = m + n
      /\ \A i \in 1 .. m : d[i] = kv[seq][i]
      /\ \A i \in 1 .. m + n : d[i] = prompt[i]
      /\ kv' \in [Seqs -> Seq(Token)]
      /\ \A p \in Seqs : p # seq => kv'[p] = kv[p]
  BY ChunkEffect, <1>e
<1> HIDE DEF n, m
<1>1. TypeOK'
  <2>1. logits' \in Seq(Token)
    <3>1. logits' = d \/ logits' = <<>>
      BY Zenon DEF PrefillChunk
    <3> QED
      BY <1>h, <3>1, EmptySeq
  <2>2. fed' \in Nat
    BY <1>b, <1>c, <1>e
  <2>3. kv' \in [Seqs -> Seq(Token)]
    BY <1>h
  <2>4. UNCHANGED <<alloc, table, pc, request, plan, generated, failed, status>>
    BY <1>b
  <2> QED
    BY <1>a, <2>1, <2>2, <2>3, <2>4, SMTT(60) DEF TypeOK, alloc, table, request, plan
<1>2. SeqOwnership' /\ FreeSeqsAreEmpty' /\ CachedTokensInKV'
  <2>1. UNCHANGED <<in_use, live, seqOf, tokens>>
    BY <1>b DEF alloc, table
  <2>2. sess # NoSid => IsPrefixOf(tokens'[sess], kv'[seq])
    <3>1. SUFFICES ASSUME sess # NoSid PROVE IsPrefixOf(tokens[sess], d)
      BY <2>1
    <3>2. sess \in live /\ tokens[sess] \in Seq(Token)
      BY <1>a, <3>1 DEF TypeOK
    <3>3. IsPrefixOf(tokens[sess], kv[seq])
      BY <1>a, <1>d, <3>1, <3>2 DEF CachedTokensInKV
    <3>4. Len(tokens[sess]) <= m /\ \A i \in 1 .. Len(tokens[sess]) : tokens[sess][i] = kv[seq][i]
      BY <1>e, <3>3 DEF IsPrefixOf
    <3> QED
      BY <1>e, <1>f, <1>h, <3>2, <3>4 DEF IsPrefixOf
  <2> QED
    BY <1>c, <1>d, <1>h, <2>1, <2>2, OwnSeqIInv
<1>3. InFlightContext'
  <2>1. (n_past + fed)' = m + n
    BY <1>b, <1>c, <1>e DEF plan, m
  <2>2. /\ pc' = "prefill" /\ seq' = seq /\ sess' = sess /\ seqOf' = seqOf
        /\ prompt' = prompt /\ generated' = generated
    BY <1>b DEF plan, request, table
  <2> QED
    BY <1>d, <1>e, <1>f, <1>h, <2>1, <2>2 DEF InFlightContext
<1> QED
  BY <1>1, <1>2, <1>3 DEF IInv

\* A failed chunk leaves what was decoded before it, which is never recorded.
LEMMA PrefillFailsIInv == ASSUME IInv, PrefillFails PROVE IInv'
<1> USE DEF PrefillFails, alloc, table, request, plan
<1>1. TypeOK'
  BY DEF IInv, TypeOK
<1>2. SeqOwnership' /\ FreeSeqsAreEmpty' /\ CachedTokensInKV'
  BY FrameIInv
<1>3. InFlightContext'
  BY DEF InFlightContext
<1> QED
  BY <1>1, <1>2, <1>3 DEF IInv

\* The prefill loop ends with the whole prompt skipped or fed.
LEMMA PrefillDoneIInv == ASSUME IInv, PrefillDone PROVE IInv'
<1> USE DEF PrefillDone, alloc, table, llama, request, plan, work
<1>1. TypeOK'
  BY DEF IInv, TypeOK
<1>2. SeqOwnership' /\ FreeSeqsAreEmpty' /\ CachedTokensInKV'
  BY FrameIInv
<1>3. InFlightContext'
  BY DEF IInv, InFlightContext, TypeOK, IsPrefixOf, NFeed
<1> QED
  BY <1>1, <1>2, <1>3 DEF IInv

\* A sampled token is decoded at the end of the sequence, which therefore is
\* exactly the prompt and the generated tokens; the removal after a stop
\* sequence starts past its last position and removes nothing.
LEMMA TokenEffect ==
    ASSUME IInv, NEW t \in Token, NEW stopHit \in BOOLEAN,
           GenerateToken(t, stopHit)
    PROVE  /\ seq \in Seqs /\ kv[seq] = prompt \o generated
           /\ kv' \in [Seqs -> Seq(Token)]
           /\ \A p \in Seqs : p # seq => kv'[p] = kv[p]
           /\ generated' \in Seq(Token)
           /\ kv'[seq] = prompt \o generated'
           /\ logits' = kv'[seq]
           /\ IsPrefixOf(kv[seq], kv'[seq])
<1> DEFINE c == Append(kv[seq], t)
           g == Append(generated, t)
           m == Len(prompt) + Len(generated)
           grown == [kv EXCEPT ![seq] = c]
<1>a. TypeOK /\ InFlightContext /\ CachedTokensInKV
  BY DEF IInv
<1>b. /\ pc = "generate" /\ m = Len(kv[seq])
      /\ generated' = g
      /\ kv' = IF stopHit THEN SeqRm(grown, seq, Len(prompt) + Len(generated'))
                          ELSE grown
      /\ logits' = grown[seq]
      /\ pc' = IF stopHit THEN "persist" ELSE "generate"
      /\ UNCHANGED <<alloc, table, request, plan, fed, failed, status>>
  BY Zenon DEF GenerateToken, DecodeOK
<1>c. /\ prompt \in Seq(Token) /\ generated \in Seq(Token) /\ seq \in Seqs
      /\ kv \in [Seqs -> Seq(Token)] /\ kv[seq] \in Seq(Token) /\ m \in Nat
  BY <1>a DEF TypeOK
<1>d. /\ seq = IF sess = NoSid THEN 0 ELSE seqOf[sess]
      /\ IsPrefixOf(prompt \o generated, kv[seq])
  BY <1>a, <1>b DEF InFlightContext
<1>e. /\ c \in Seq(Token) /\ Len(c) = m + 1 /\ c[m + 1] = t
      /\ \A i \in 1 .. m : c[i] = kv[seq][i]
      /\ IsPrefixOf(kv[seq], c)
  <2>1. Len(kv[seq]) = m /\ kv[seq] \in Seq(Token) /\ m \in Nat
    BY <1>b, <1>c
  <2> HIDE DEF m
  <2>2. c \in Seq(Token) /\ Len(c) = m + 1 /\ c[m + 1] = t
    BY <2>1
  <2>3. \A i \in 1 .. m : c[i] = kv[seq][i]
    BY <2>1
  <2> HIDE DEF c
  <2>4. IsPrefixOf(kv[seq], c)
    BY <2>1, <2>2, <2>3 DEF IsPrefixOf
  <2> QED
    BY <2>2, <2>3, <2>4
<1>f. /\ g \in Seq(Token) /\ Len(prompt) + Len(g) = m + 1
      /\ prompt \o g \in Seq(Token) /\ Len(prompt \o g) = m + 1
      /\ (prompt \o g)[m + 1] = t
      /\ \A i \in 1 .. m : (prompt \o g)[i] = (prompt \o generated)[i]
      /\ Len(prompt \o generated) = m
  BY <1>c
<1> HIDE DEF c, g, m
<1>g. IsPrefixOf(prompt \o g, c)
  <2>1. \A i \in 1 .. m : (prompt \o generated)[i] = kv[seq][i]
    BY <1>d, <1>f DEF IsPrefixOf
  <2>2. \A i \in 1 .. m + 1 : i \in 1 .. m \/ i = m + 1
    BY <1>c
  <2>3. \A i \in 1 .. m + 1 : (prompt \o g)[i] = c[i]
    BY <1>e, <1>f, <2>1, <2>2, Zenon
  <2>4. Len(prompt \o g) <= Len(c)
    BY <1>c, <1>e, <1>f
  <2> QED
    BY <1>f, <2>3, <2>4, Zenon DEF IsPrefixOf
<1>h. /\ grown \in [Seqs -> Seq(Token)] /\ grown[seq] = c
      /\ \A p \in Seqs : p # seq => grown[p] = kv[p]
  BY <1>c, <1>e, UpdateSpec, Zenon
<1> HIDE DEF grown
<1>i. /\ kv' \in [Seqs -> Seq(Token)] /\ kv'[seq] = c
      /\ \A p \in Seqs : p # seq => kv'[p] = kv[p]
  <2>1. CASE ~stopHit
    BY <1>b, <1>h, <2>1
  <2>2. CASE stopHit
    <3>1. SubSeq(c, 1, Len(prompt) + Len(generated')) = c
      BY <1>b, <1>c, <1>e, <1>f
    <3>2. kv' = [grown EXCEPT ![seq] = c]
      BY <1>b, <1>h, <2>2, <3>1 DEF SeqRm
    <3> QED
      BY <1>c, <1>e, <1>h, <3>2, UpdateSpec, Zenon
  <2> QED
    BY <2>1, <2>2
<1>j. prompt \o g = c
  <2>1. Len(c) = Len(prompt \o g) /\ \A i \in 1 .. Len(c) : c[i] = (prompt \o g)[i]
    BY <1>c, <1>e, <1>f, <1>g DEF IsPrefixOf
  <2> QED
    BY <1>e, <1>f, <2>1, SameSeq
<1>k. prompt \o generated = kv[seq]
  <2>1. prompt \o generated \in Seq(Token)
    BY <1>c
  <2>2. \A i \in 1 .. m : (prompt \o generated)[i] = kv[seq][i]
    BY <1>d, <1>f DEF IsPrefixOf
  <2> QED
    BY <1>b, <1>c, <1>f, <2>1, <2>2, SameSeq
<1> QED
  BY <1>b, <1>c, <1>e, <1>f, <1>h, <1>i, <1>j, <1>k

\* A generated token joins the sequence and the text at once.
LEMMA GenerateTokenIInv ==
    ASSUME IInv, NEW t \in Token, NEW stopHit \in BOOLEAN,
           GenerateToken(t, stopHit)
    PROVE  IInv'
<1> DEFINE c == kv'[seq]
           g == generated'
<1>a. TypeOK /\ InFlightContext /\ CachedTokensInKV
  BY DEF IInv
<1>b. /\ pc = "generate" /\ pc' = IF stopHit THEN "persist" ELSE "generate"
      /\ UNCHANGED <<alloc, table, request, plan, fed, failed, status>>
  BY Zenon DEF GenerateToken
<1>c. /\ prompt \in Seq(Token) /\ seq \in Seqs
      /\ kv \in [Seqs -> Seq(Token)] /\ kv[seq] \in Seq(Token)
  BY <1>a DEF TypeOK
<1>d. seq = IF sess = NoSid THEN 0 ELSE seqOf[sess]
  BY <1>a, <1>b DEF InFlightContext
<1>e. /\ kv' \in [Seqs -> Seq(Token)]
      /\ \A p \in Seqs : p # seq => kv'[p] = kv[p]
      /\ g \in Seq(Token) /\ c = prompt \o g /\ logits' = c
      /\ IsPrefixOf(kv[seq], c)
  BY TokenEffect
<1>f. c \in Seq(Token) /\ IsPrefixOf(prompt \o g, c)
  BY <1>c, <1>e DEF IsPrefixOf
<1>1. TypeOK'
  <2>1. logits' \in Seq(Token) /\ generated' \in Seq(Token) /\ kv' \in [Seqs -> Seq(Token)]
    BY <1>e, <1>f
  <2>2. pc' \in {"generate", "persist"}
    BY <1>b
  <2>3. UNCHANGED <<alloc, table, request, plan, fed, failed, status>>
    BY <1>b
  <2> QED
    BY <1>a, <2>1, <2>2, <2>3, SMTT(60) DEF TypeOK, alloc, table, request, plan
<1>2. SeqOwnership' /\ FreeSeqsAreEmpty' /\ CachedTokensInKV'
  <2>1. UNCHANGED <<in_use, live, seqOf, tokens>>
    BY <1>b DEF alloc, table
  <2>2. sess # NoSid => IsPrefixOf(tokens'[sess], kv'[seq])
    <3>1. SUFFICES ASSUME sess # NoSid PROVE IsPrefixOf(tokens[sess], c)
      BY <2>1
    <3>2. sess \in live /\ tokens[sess] \in Seq(Token)
      BY <1>a, <3>1 DEF TypeOK
    <3>3. IsPrefixOf(tokens[sess], kv[seq])
      BY <1>a, <1>d, <3>1, <3>2 DEF CachedTokensInKV
    <3> QED
      BY <1>c, <1>e, <1>f, <3>2, <3>3, PrefixTransitive
  <2> QED
    BY <1>c, <1>d, <1>e, <2>1, <2>2, OwnSeqIInv
<1>3. InFlightContext'
  <2>1. /\ pc' \in {"generate", "persist"} /\ seq' = seq /\ sess' = sess
        /\ seqOf' = seqOf /\ prompt' = prompt
    BY <1>b DEF plan, request, table
  <2>2. IsPrefixOf(prompt \o generated, kv[seq])'
    BY <1>f, <2>1 DEF IsPrefixOf
  <2> QED
    BY <1>d, <2>1, <2>2 DEF InFlightContext
<1> QED
  BY <1>1, <1>2, <1>3 DEF IInv

\* The three ways the generation loop ends without decoding a token.
LEMMA GenerateEndsIInv ==
    ASSUME IInv, GenerateFails \/ GenerateEos \/ GenerateBudgetSpent
    PROVE  IInv'
<1>a. /\ pc = "generate" /\ pc' = "persist"
      /\ logits' \in {logits, <<>>} /\ failed' \in {failed, TRUE}
      /\ UNCHANGED <<alloc, table, kv, request, plan, fed, generated, status>>
  BY Zenon DEF GenerateFails, GenerateEos, GenerateBudgetSpent, llama, work
<1> USE DEF alloc, table, request, plan
<1>1. TypeOK'
  <2>1. logits' \in Seq(Token) /\ failed' \in BOOLEAN
    <3>1. logits \in Seq(Token) /\ failed \in BOOLEAN
      BY DEF IInv, TypeOK
    <3> QED
      BY <1>a, <3>1, EmptySeq, Zenon
  <2> QED
    BY <1>a, <2>1, SMTT(60) DEF IInv, TypeOK
<1>2. SeqOwnership' /\ FreeSeqsAreEmpty' /\ CachedTokensInKV'
  BY <1>a, FrameIInv
<1>3. InFlightContext'
  BY <1>a DEF IInv, InFlightContext, IsPrefixOf
<1> QED
  BY <1>1, <1>2, <1>3 DEF IInv

\* What the session records is what its sequence holds.
LEMMA PersistIInv == ASSUME IInv, Persist PROVE IInv'
<1> DEFINE c == prompt \o generated
<1>a. TypeOK /\ InFlightContext
  BY DEF IInv
<1>b. /\ pc = "persist" /\ pc' = "reply"
      /\ UNCHANGED <<alloc, live, seqOf, age, llama, request, plan, work, status>>
      /\ tokens' = IF sess # NoSid THEN [tokens EXCEPT ![sess] = c] ELSE tokens
  BY DEF Persist
<1>c. /\ seq \in Seqs /\ seq = IF sess = NoSid THEN 0 ELSE seqOf[sess]
      /\ IsPrefixOf(c, kv[seq]) /\ c \in Seq(Token)
      /\ tokens \in [Sids -> Seq(Token)]
      /\ sess # NoSid => sess \in Sids
  BY <1>a, <1>b DEF TypeOK, InFlightContext
<1> HIDE DEF c
<1>d. /\ tokens' \in [Sids -> Seq(Token)]
      /\ \A t \in Sids : t # sess => tokens'[t] = tokens[t]
      /\ sess # NoSid => tokens'[sess] = c
  <2>1. CASE sess = NoSid
    BY <1>b, <1>c, <2>1
  <2>2. CASE sess # NoSid
    BY <1>b, <1>c, <2>2, UpdateSpec, Zenon
  <2> QED
    BY <2>1, <2>2
<1>1. TypeOK'
  <2>1. /\ UNCHANGED <<alloc, live, seqOf, age, llama, request, plan, work, status>>
        /\ pc' = "reply" /\ tokens' \in [Sids -> Seq(Token)]
    BY <1>b, <1>d
  <2>2. /\ in_use' \subseteq SeqIds /\ cursor' \in Seqs /\ live' \subseteq Sids
        /\ seqOf' \in [Sids -> Seqs] /\ age' \in [Sids -> Nat]
        /\ kv' \in [Seqs -> Seq(Token)] /\ logits' \in Seq(Token)
    BY <1>a, <2>1 DEF TypeOK, alloc, llama
  <2>3. /\ header' \in Sids \union {NoSid} /\ fallback' \in BOOLEAN
        /\ prompt' \in Seq(Token) /\ max_tokens' \in Int
        /\ sess' \in live' \union {NoSid} /\ seq' \in Seqs /\ n_past' \in Nat
    BY <1>a, <2>1 DEF TypeOK, request, plan
  <2>4. fed' \in Nat /\ generated' \in Seq(Token) /\ failed' \in BOOLEAN /\ status' \in {200, 503}
    BY <1>a, <2>1 DEF TypeOK, work
  <2> QED
    BY <2>1, <2>2, <2>3, <2>4 DEF TypeOK
<1>2. SeqOwnership' /\ FreeSeqsAreEmpty' /\ CachedTokensInKV'
  <2>1. UNCHANGED <<in_use, live, seqOf, kv>>
    BY <1>b DEF alloc, llama
  <2>2. sess # NoSid => IsPrefixOf(tokens'[sess], kv'[seq])
    BY <1>c, <1>d, <2>1
  <2> QED
    BY <1>c, <1>d, <2>1, <2>2, OwnSeqIInv
<1>3. InFlightContext'
  BY <1>b DEF InFlightContext
<1> QED
  BY <1>1, <1>2, <1>3 DEF IInv

\* The locals of complete_stream die.
LEMMA ReplyIInv == ASSUME IInv, Reply PROVE IInv'
<1>a. /\ pc' = "idle" /\ status' \in {200, 503}
      /\ header' = NoSid /\ fallback' = FALSE /\ prompt' = <<>>
      /\ max_tokens' = 0 /\ sess' = NoSid /\ seq' = 0 /\ n_past' = 0
      /\ fed' = 0 /\ generated' = <<>> /\ failed' = FALSE
      /\ UNCHANGED <<in_use, cursor, live, seqOf, tokens, age, kv, logits>>
  BY ZenonT(30) DEF Reply, alloc, table, llama
<1>1. TypeOK'
  <2>1. seq' \in Seqs
    BY <1>a, MaxSeqsAssumption DEF Seqs
  <2>2. prompt' \in Seq(Token) /\ generated' \in Seq(Token)
    BY <1>a, EmptySeq, Zenon
  <2>3. TypeOK
    BY DEF IInv
  <2>4. /\ pc' = "idle" /\ status' \in {200, 503} /\ header' = NoSid
        /\ fallback' \in BOOLEAN /\ failed' \in BOOLEAN /\ sess' = NoSid
        /\ max_tokens' = 0 /\ n_past' = 0 /\ fed' = 0
        /\ UNCHANGED <<in_use, cursor, live, seqOf, tokens, age, kv, logits>>
    BY <1>a, Zenon
  <2> QED
    BY <2>1, <2>2, <2>3, <2>4, SMTT(60) DEF TypeOK
<1>2. SeqOwnership' /\ FreeSeqsAreEmpty' /\ CachedTokensInKV'
  BY <1>a, FrameIInv
<1>3. InFlightContext'
  BY <1>a DEF InFlightContext
<1> QED
  BY <1>1, <1>2, <1>3 DEF IInv

-----------------------------------------------------------------------------
(* The theorems *)

\* Every step of the server preserves the invariant.
LEMMA NextIInv == IInv /\ [Next]_vars => IInv'
<1> SUFFICES ASSUME IInv, [Next]_vars PROVE IInv'
  OBVIOUS
<1>1. CASE ClientRequest
  BY <1>1, BeginIInv, BeginEmptyIInv DEF ClientRequest
<1>2. CASE Resolve
  BY <1>2, FindIInv, AllocIInv, EvictThenAllocIInv, EvictThenStatelessIInv,
     MatchIInv, NoSessionIInv DEF Resolve
<1>3. CASE Compute
  BY <1>3, TrimIInv, ClearStatelessIInv, AcceptIInv, ContextExhaustedIInv,
     PrefillChunkIInv, PrefillFailsIInv, PrefillDoneIInv, GenerateTokenIInv,
     GenerateEndsIInv, PersistIInv, ReplyIInv DEF Compute
<1>4. CASE UNCHANGED vars
  <2> USE <1>4 DEF vars, alloc, table, llama, request, plan, work
  <2>1. TypeOK'
    BY DEF IInv, TypeOK
  <2>2. SeqOwnership' /\ FreeSeqsAreEmpty' /\ CachedTokensInKV'
    BY FrameIInv
  <2>3. InFlightContext'
    BY DEF IInv, InFlightContext, IsPrefixOf
  <2> QED
    BY <2>1, <2>2, <2>3 DEF IInv
<1> QED
  BY <1>1, <1>2, <1>3, <1>4 DEF Next

\* The parts of IInv hold of every behaviour: type correctness, exclusive
\* ownership of KV sequences, empty recycled sequences, cached tokens that are
\* really in the KV, and the in-flight request's view of its sequence.
THEOREM InductiveInvariant == Spec => []IInv
<1>1. Init => IInv
  BY InitIInv
<1>2. IInv /\ [Next]_vars => IInv'
  BY NextIInv
<1> QED
  BY <1>1, <1>2, PTL DEF Spec

\* complete_stream never touches a state outside the types: in particular the
\* Session pointer it holds always points into the table, and the allocator's
\* cursor and ids stay in range.
THEOREM TypeCorrect == Spec => []TypeOK
<1>1. IInv => TypeOK
  BY DEF IInv
<1> QED
  BY <1>1, InductiveInvariant, PTL

\* Exclusive ownership of KV sequences: the allocator's ids in use are exactly
\* the sessions' ids, one session each, never the stateless sequence 0.
THEOREM ExclusiveSequences == Spec => []SeqOwnership
<1>1. IInv => SeqOwnership
  BY DEF IInv
<1> QED
  BY <1>1, InductiveInvariant, PTL

\* A sequence id that eviction gave back holds no tokens of its old session.
THEOREM RecycledSequencesAreEmpty == Spec => []FreeSeqsAreEmpty
<1>1. IInv => FreeSeqsAreEmpty
  BY DEF IInv
<1> QED
  BY <1>1, InductiveInvariant, PTL

\* The reuse of a conversation's prefix is sound: the tokens a session records
\* as cached are in its own sequence, position by position.
THEOREM ReuseIsSound == Spec => []CachedTokensInKV
<1>1. IInv => CachedTokensInKV
  BY DEF IInv
<1> QED
  BY <1>1, InductiveInvariant, PTL

\* While a request runs, the prefix of its sequence is the part of prompt and
\* generated text it has processed, whatever earlier requests left behind.
THEOREM InFlightSound == Spec => []InFlightContext
<1>1. IInv => InFlightContext
  BY DEF IInv
<1> QED
  BY <1>1, InductiveInvariant, PTL

\* The eviction inside SessionTable::insert is dead code: there are never more
\* sessions than ids in use, and take() found an id that is not in use.
LEMMA HasRoom == IInv => InsertNeverEvicts
<1>1. SUFFICES ASSUME IInv, ~TakeFails(in_use, cursor)
               PROVE  Cardinality(live) < Capacity
  BY DEF InsertNeverEvicts
<1>2. TypeOK /\ SeqOwnership
  BY <1>1 DEF IInv
<1>3. PICK id \in SeqIds : id \notin in_use
  <2>1. PICK i \in 1 .. MaxSeqs - 1 : SweepHit(in_use, cursor, i)
    BY <1>1 DEF TakeFails
  <2>2. SweepIdx(cursor, i) \in SeqIds
    BY <1>2, <2>1, MaxSeqsAssumption DEF SweepHit, SweepIdx, SeqIds, Seqs, TypeOK
  <2> QED
    BY <2>1, <2>2 DEF SweepHit
<1> DEFINE Q == SeqIds \ {id}
           f == [s \in live |-> seqOf[s]]
<1>4. IsFiniteSet(SeqIds) /\ Cardinality(SeqIds) = MaxSeqs - 1
  BY MaxSeqsAssumption, FS_Interval DEF SeqIds
<1>5. IsFiniteSet(Q) /\ Cardinality(Q) = MaxSeqs - 2
  <2>1. Cardinality(Q) = Cardinality(SeqIds) - 1
    BY <1>3, <1>4, FS_RemoveElement
  <2> QED
    BY <1>4, <2>1, FS_RemoveElement, MaxSeqsAssumption
<1>6. f \in Injection(live, Q)
  <2>1. \A s \in live : seqOf[s] \in in_use
    BY <1>2 DEF SeqOwnership, SeqsOf
  <2>2. f \in [live -> Q]
    BY <1>2, <1>3, <2>1 DEF TypeOK
  <2>3. \A s, t \in live : f[s] = f[t] => s = t
    BY <1>2 DEF SeqOwnership
  <2> QED
    BY <2>2, <2>3 DEF Injection, IsInjective
<1>7. Cardinality(live) <= Cardinality(Q) /\ IsFiniteSet(live)
  BY <1>5, <1>6, FS_Injection
<1>8. Cardinality(live) \in Nat
  BY <1>7, FS_CardinalityType
<1> QED
  BY <1>5, <1>7, <1>8, MaxSeqsAssumption DEF Capacity

\* The same, of every behaviour of the server.
THEOREM InsertionHasRoom == Spec => []InsertNeverEvicts
  BY HasRoom, InductiveInvariant, PTL

-----------------------------------------------------------------------------
(* What the request samples from *)

\* While the prompt is fed, the sequence ends with what was fed and the last chunk
\* leaves its logits; from the first decoded token on both are the request's.
Decoded ==
    /\ (pc = "prefill" /\ fed > 0) =>
          /\ Len(kv[seq]) = n_past + fed
          /\ fed = NFeed => logits = kv[seq]
    /\ DecodedContextIsRequest

\* When all of the prompt is skipped or fed, and the sequence holds no more, it
\* holds the prompt.
LEMMA PromptIsFed ==
    ASSUME IInv, pc = "prefill", fed >= NFeed, Len(kv[seq]) = n_past + fed
    PROVE  fed = NFeed /\ kv[seq] = prompt /\ prompt = prompt \o generated
<1>1. /\ prompt \in Seq(Token) /\ n_past \in Nat /\ fed \in Nat /\ kv[seq] \in Seq(Token)
      /\ n_past + fed <= Len(prompt) /\ generated = <<>>
      /\ \A i \in 1 .. n_past + fed : kv[seq][i] = prompt[i]
  <2>1. /\ prompt \in Seq(Token) /\ n_past \in Nat /\ fed \in Nat
        /\ kv \in [Seqs -> Seq(Token)] /\ seq \in Seqs
    BY DEF IInv, TypeOK
  <2>2. /\ n_past + fed <= Len(prompt) /\ generated = <<>>
        /\ \A i \in 1 .. n_past + fed : kv[seq][i] = prompt[i]
    BY DEF IInv, InFlightContext
  <2> QED
    BY <2>1, <2>2
<1>2. fed = NFeed /\ Len(kv[seq]) = Len(prompt)
  BY <1>1, SMTT(30) DEF NFeed
<1>3. \A i \in 1 .. Len(prompt) : kv[seq][i] = prompt[i]
  BY <1>1, <1>2 DEF NFeed
<1> QED
  BY <1>1, <1>2, <1>3, SameSeq

\* A chunk continues the sequence; the one that ends the prompt asks for logits.
LEMMA ChunkDecoded == ASSUME IInv, PrefillChunk PROVE Decoded'
<1>1. /\ pc' = "prefill" /\ seq' = seq /\ n_past' = n_past /\ prompt' = prompt
      /\ fed' = fed + ChunkLen
      /\ logits' = IF fed + ChunkLen = NFeed THEN kv'[seq] ELSE <<>>
  BY Zenon DEF PrefillChunk, request, plan
<1>2. Len(kv'[seq]) = n_past + fed + ChunkLen /\ ChunkLen \in Nat
  BY ChunkEffect
<1>3. fed \in Nat /\ n_past \in Nat
  BY DEF IInv, TypeOK
<1>4. NFeed' = NFeed
  BY <1>1 DEF NFeed
<1>5. Len(kv'[seq]) = n_past + fed'
  BY <1>1, <1>2, <1>3
<1> QED
  BY <1>1, <1>4, <1>5 DEF Decoded, DecodedContextIsRequest

\* The step to the generation loop and the steps of the loop.
LEMMA GenerationDecoded ==
    ASSUME IInv, Decoded,
           PrefillDone \/ \E t \in Token, stopHit \in BOOLEAN : GenerateToken(t, stopHit)
    PROVE  Decoded'
<1>1. CASE PrefillDone
  <2>1. /\ pc = "prefill" /\ fed >= NFeed /\ pc' = "generate" /\ generated = <<>>
        /\ UNCHANGED <<prompt, seq, fed, generated, kv, logits>>
    BY <1>1 DEF PrefillDone, llama, request, plan, work, IInv, InFlightContext
  <2>2. fed > 0 => kv[seq] = prompt \o generated /\ logits = kv[seq]
    BY <2>1, PromptIsFed DEF Decoded
  <2> QED
    BY <2>1, <2>2 DEF Decoded, DecodedContextIsRequest
<1>2. ASSUME NEW t \in Token, NEW stopHit \in BOOLEAN, GenerateToken(t, stopHit)
      PROVE  Decoded'
  <2>1. pc' # "prefill" /\ prompt' = prompt /\ seq' = seq
    BY <1>2, Zenon DEF GenerateToken, request, plan
  <2>2. kv'[seq] = prompt \o generated' /\ logits' = kv'[seq]
    BY <1>2, TokenEffect
  <2> QED
    BY <2>1, <2>2 DEF Decoded, DecodedContextIsRequest
<1> QED
  BY <1>1, <1>2

\* A request that decoded anything samples from its own context: its sequence and
\* the logits are those of prompt and generated text and of nothing else.
THEOREM SamplesOwnContext == Spec => []DecodedContextIsRequest
<1>1. Init => Decoded
  BY DEF Init, Decoded, DecodedContextIsRequest
<1>2. IInv /\ Decoded /\ [Next]_vars => Decoded'
  <2> SUFFICES ASSUME IInv, Decoded, [Next]_vars PROVE Decoded'
    OBVIOUS
  <2>1. CASE ClientRequest
    BY <2>1, Zenon DEF ClientRequest, Begin, BeginEmpty, Decoded, DecodedContextIsRequest
  <2>2. CASE Resolve
    BY <2>2, Zenon DEF Resolve, FindSession, AllocSession, EvictThenAlloc, EvictThenStateless,
       MatchPrefix, NoSession, Decoded, DecodedContextIsRequest
  <2>3. CASE AcceptBudget
    BY <2>3 DEF AcceptBudget, work, IInv, InFlightContext, Decoded, DecodedContextIsRequest
  <2>4. CASE TrimSession \/ ClearStateless \/ ContextExhausted \/ PrefillFails \/ GenerateFails
             \/ GenerateEos \/ GenerateBudgetSpent \/ Persist \/ Reply
    <3>1. pc' \notin {"prefill", "generate"}
      BY <2>4, Zenon DEF TrimSession, ClearStateless, ContextExhausted, PrefillFails,
         GenerateFails, GenerateEos, GenerateBudgetSpent, Persist, Reply
    <3> QED
      BY <3>1 DEF Decoded, DecodedContextIsRequest
  <2>5. CASE UNCHANGED vars
    BY <2>5 DEF vars, llama, request, plan, work, Decoded, DecodedContextIsRequest, NFeed
  <2> QED
    BY <2>1, <2>2, <2>3, <2>4, <2>5, ChunkDecoded, GenerationDecoded DEF Next, Compute
<1>3. Decoded => DecodedContextIsRequest
  BY DEF Decoded
<1> QED
  BY <1>1, <1>2, <1>3, InductiveInvariant, PTL DEF Spec

-----------------------------------------------------------------------------
(* Prompts that fit one batch *)

Matched(s) == tokens[s] = kv[seqOf[s]]

\* With a chunk per prompt: every session but the request's matches its sequence,
\* and so does the request's until the chunk and again after Persist.  In between
\* the sequence has what Persist will record.
Matching ==
    /\ Len(prompt) <= MaxPrompt
    /\ \A s \in live : s # sess => Matched(s)
    /\ (sess # NoSid /\ (pc \in {"trim", "budget", "reply"} \/ (pc = "prefill" /\ fed = 0)))
          => Matched(sess)
    /\ (sess # NoSid /\ pc \in {"budget", "prefill"}) => Len(kv[seq]) = n_past + fed
    /\ (pc = "prefill" /\ fed > 0) => fed = NFeed
    /\ (sess # NoSid /\ pc \in {"generate", "persist"}) => kv[seq] = prompt \o generated

\* A step of a request that changes no sequence but its own leaves the other
\* sessions as they match.
LEMMA OthersMatch ==
    ASSUME IInv, Matching, NEW q \in Seqs,
           q = IF sess = NoSid THEN 0 ELSE seqOf[sess],
           UNCHANGED <<live, seqOf, sess>>,
           \A p \in Seqs : p # q => kv'[p] = kv[p],
           \A t \in Sids : t # sess => tokens'[t] = tokens[t]
    PROVE  \A s \in live' : s # sess' => tokens'[s] = kv'[seqOf'[s]]
<1> SUFFICES ASSUME NEW s \in live, s # sess PROVE tokens'[s] = kv'[seqOf[s]]
  OBVIOUS
<1>1. tokens[s] = kv[seqOf[s]] /\ seqOf[s] \in Seqs /\ s \in Sids
  BY DEF Matching, Matched, IInv, TypeOK
<1>2. seqOf[s] # q
  BY DEF IInv, SeqOwnership, SeqsOf, TypeOK
<1> QED
  BY <1>1, <1>2, Zenon

\* What is left of the table after an eviction matches as before.
LEMMA SurvivorsMatch ==
    ASSUME IInv, Matching, pc = "resolve", NEW gone \in SUBSET live,
           kv' = FreeKV(SeqsOf(gone)),
           \A t \in live \ gone : seqOf'[t] = seqOf[t] /\ tokens'[t] = tokens[t]
    PROVE  \A t \in live \ gone : tokens'[t] = kv'[seqOf'[t]]
<1> SUFFICES ASSUME NEW t \in live \ gone PROVE tokens[t] = kv'[seqOf[t]]
  OBVIOUS
<1>1. seqOf[t] \in Seqs /\ t # sess /\ live \subseteq Sids
  BY ServerAssumption DEF IInv, TypeOK, InFlightContext
<1>2. \A g \in gone : seqOf[g] # seqOf[t]
  BY DEF IInv, SeqOwnership
<1>3. seqOf[t] \notin SeqsOf(gone)
  BY <1>2 DEF SeqsOf
<1> QED
  BY <1>1, <1>3 DEF FreeKV, Matching, Matched

\* A session enters the table with no tokens, on a sequence that holds none.
LEMMA InsertMatches ==
    ASSUME IInv, Matching, pc = "resolve", NEW gone \in SUBSET live, NEW id \in SeqIds,
           header \in Sids \ live, id \notin in_use \ SeqsOf(gone),
           Insert(header, id, gone), kv' = FreeKV(SeqsOf(gone))
    PROVE  \A s \in live' : tokens'[s] = kv'[seqOf'[s]]
<1>1. /\ live' = (live \ gone) \union {header}
      /\ seqOf' = [t \in Sids |-> IF t = header THEN id ELSE Erased(seqOf, gone, NoSeq)[t]]
      /\ tokens' = Erased(tokens, gone \union {header}, <<>>)
      /\ live \subseteq Sids
  BY DEF Insert, IInv, TypeOK
<1>2. \A t \in live \ gone : seqOf'[t] = seqOf[t] /\ tokens'[t] = tokens[t]
  BY <1>1 DEF Erased
<1>3. kv'[id] = <<>> /\ seqOf'[header] = id /\ tokens'[header] = <<>>
  BY <1>1 DEF FreeKV, Erased, IInv, FreeSeqsAreEmpty, SeqIds, Seqs
<1> QED
  BY <1>1, <1>2, <1>3, SurvivorsMatch

\* Whichever way the request found its session, or none, all sessions match.
LEMMA ResolveMatches == ASSUME IInv, Matching, Resolve PROVE Matching'
<1>1. /\ pc = "resolve" /\ pc' = "trim" /\ prompt' = prompt /\ sess = NoSid
      /\ live \subseteq Sids /\ NoSid \notin live
  <2>1. pc = "resolve" /\ pc' = "trim" /\ prompt' = prompt
    BY DEF Resolve, FindSession, AllocSession, EvictThenAlloc, EvictThenStateless,
       MatchPrefix, NoSession, request
  <2> QED
    BY <2>1, ServerAssumption DEF IInv, TypeOK, InFlightContext
<1>2. \A s \in live : tokens[s] = kv[seqOf[s]]
  BY <1>1 DEF Matching, Matched
<1>3. (\A s \in live' : tokens'[s] = kv'[seqOf'[s]]) /\ sess' \in live' \union {NoSid}
  <2>1. ASSUME NEW id \in Seqs, AllocSession(id)
        PROVE  (\A s \in live' : tokens'[s] = kv'[seqOf'[s]]) /\ sess' \in live'
    <3> DEFINE gone == IF Cardinality(live) >= Capacity THEN LRU ELSE {}
    <3>1. /\ header \in Sids \ live /\ Insert(header, id, gone)
          /\ kv' = FreeKV(SeqsOf(gone)) /\ sess' = header
      BY <2>1, Zenon DEF AllocSession
    <3>2. id \in SeqIds \ in_use
      BY <2>1, TakesSpec DEF AllocSession, IInv, TypeOK
    <3>3. gone \in SUBSET live
      BY DEF LRU
    <3> HIDE DEF gone
    <3>4. header \in live'
      BY <3>1 DEF Insert
    <3> QED
      BY <1>1, <3>1, <3>2, <3>3, <3>4, InsertMatches
  <2>2. ASSUME NEW id \in Seqs, EvictThenAlloc(id)
        PROVE  (\A s \in live' : tokens'[s] = kv'[seqOf'[s]]) /\ sess' \in live'
    <3>1. /\ header \in Sids \ live /\ Insert(header, id, LRU)
          /\ kv' = FreeKV(SeqsOf(LRU)) /\ sess' = header
      BY <2>2, Zenon DEF EvictThenAlloc
    <3>2. id \in SeqIds /\ id \notin in_use \ SeqsOf(LRU)
      BY <2>2, TakesSpec DEF EvictThenAlloc, FreedIds, IInv, TypeOK
    <3>3. LRU \in SUBSET live /\ header \in live'
      BY <3>1 DEF LRU, Insert
    <3> QED
      BY <1>1, <3>1, <3>2, <3>3, InsertMatches
  <2>3. ASSUME EvictThenStateless
        PROVE  (\A s \in live' : tokens'[s] = kv'[seqOf'[s]]) /\ sess' = NoSid
    <3>1. /\ live' = live \ LRU /\ kv' = FreeKV(SeqsOf(LRU)) /\ LRU \in SUBSET live
          /\ \A t \in live \ LRU : seqOf'[t] = seqOf[t] /\ tokens'[t] = tokens[t]
      BY <1>1, <2>3 DEF EvictThenStateless, Erased, LRU
    <3>2. sess' = NoSid
      BY <1>1, <2>3 DEF EvictThenStateless, plan
    <3> QED
      BY <1>1, <3>1, <3>2, SurvivorsMatch
  <2>4. ASSUME FindSession \/ (\E s \in Sids : MatchPrefix(s)) \/ NoSession
        PROVE  (\A s \in live' : tokens'[s] = kv'[seqOf'[s]]) /\ sess' \in live' \union {NoSid}
    <3>1. UNCHANGED <<live, seqOf, tokens, kv>> /\ sess' \in live \union {NoSid}
      BY <1>1, <2>4 DEF FindSession, MatchPrefix, NoSession, BestPrefix, HoldsPrefix, llama,
         table, plan
    <3> QED
      BY <1>2, <3>1
  <2> QED
    BY <2>1, <2>2, <2>3, <2>4 DEF Resolve
<1>4. Len(prompt) <= MaxPrompt
  BY DEF Matching
<1> QED
  BY <1>1, <1>3, <1>4 DEF Matching, Matched

\* Trimming cuts the session's tokens and its sequence at the same place.
LEMMA TrimMatches == ASSUME IInv, Matching, TrimSession PROVE Matching'
<1> DEFINE k == CommonPrefix(tokens[sess], prompt)
           q == seqOf[sess]
<1>1. /\ pc = "trim" /\ pc' = "budget" /\ sess # NoSid /\ n_past' = k /\ seq' = q
      /\ UNCHANGED <<live, seqOf, prompt, sess, fed>>
  BY DEF TrimSession, request, work
<1>2. /\ sess \in live /\ sess \in Sids /\ q \in Seqs
      /\ tokens \in [Sids -> Seq(Token)] /\ kv \in [Seqs -> Seq(Token)]
      /\ prompt \in Seq(Token) /\ fed = 0
  BY <1>1 DEF IInv, TypeOK, InFlightContext
<1>3. k \in Nat /\ k <= Len(tokens[sess])
  BY <1>2, CommonPrefixSpec
<1>4. tokens[sess] = kv[q]
  BY <1>1 DEF Matching, Matched
<1> DEFINE c == SubSeq(kv[q], 1, k)
<1>5. \/ k = Len(tokens[sess]) /\ kv' = kv /\ tokens' = tokens
      \/ kv' = [kv EXCEPT ![q] = c] /\ tokens' = [tokens EXCEPT ![sess] = c]
  <2> HIDE DEF c
  <2>1. CASE k < Len(tokens[sess])
    BY <1>4, <2>1 DEF TrimSession, SeqRm, c
  <2>2. CASE ~(k < Len(tokens[sess]))
    BY <1>2, <1>3, <2>2 DEF TrimSession
  <2> QED
    BY <2>1, <2>2
<1>6. c \in Seq(Token) /\ Len(c) = k
  BY <1>2, <1>3, <1>4
<1> HIDE DEF k, q, c
<1>7. /\ tokens'[sess] = kv'[q] /\ Len(kv'[q]) = k
      /\ \A p \in Seqs : p # q => kv'[p] = kv[p]
      /\ \A t \in Sids : t # sess => tokens'[t] = tokens[t]
  BY <1>2, <1>4, <1>5, <1>6, UpdateSpec
<1>8. \A s \in live' : s # sess' => tokens'[s] = kv'[seqOf'[s]]
  BY <1>1, <1>2, <1>7, OthersMatch DEF q
<1>9. Len(prompt) <= MaxPrompt /\ k + 0 = k
  BY <1>3 DEF Matching
<1> QED
  BY <1>1, <1>2, <1>7, <1>8, <1>9 DEF Matching, Matched, q

\* The stateless path, the budget check and a request without room.
LEMMA BudgetMatches ==
    ASSUME IInv, Matching, ClearStateless \/ AcceptBudget \/ ContextExhausted
    PROVE  Matching'
<1>1. /\ Len(prompt) <= MaxPrompt
      /\ seq \in Seqs /\ 0 \in Seqs /\ sess \in live \union {NoSid} /\ live \subseteq Sids
      /\ tokens \in [Sids -> Seq(Token)] /\ kv \in [Seqs -> Seq(Token)]
  BY MaxSeqsAssumption, SMTT(30) DEF IInv, TypeOK, Matching, Seqs
<1>2. CASE ClearStateless
  <2>1. /\ pc' = "budget" /\ sess = NoSid /\ kv' = FreeKV({0})
        /\ UNCHANGED <<live, seqOf, tokens, prompt, sess>>
    BY <1>2 DEF ClearStateless, table, request, plan
  <2>2. \A p \in Seqs : p # 0 => kv'[p] = kv[p]
    BY <2>1 DEF FreeKV
  <2>3. \A s \in live' : s # sess' => tokens'[s] = kv'[seqOf'[s]]
    BY <1>1, <2>1, <2>2, OthersMatch
  <2> QED
    BY <1>1, <2>1, <2>3 DEF Matching, Matched
<1>3. CASE AcceptBudget
  <2>1. /\ pc = "budget" /\ pc' = "prefill" /\ fed = 0
        /\ UNCHANGED <<live, seqOf, tokens, kv, prompt, sess, seq, n_past, fed>>
    BY <1>3 DEF AcceptBudget, table, llama, request, work, IInv, InFlightContext
  <2> QED
    BY <2>1 DEF Matching, Matched
<1>4. CASE ContextExhausted
  <2>1. /\ pc = "budget" /\ pc' = "reply"
        /\ UNCHANGED <<live, seqOf, prompt, sess>>
        /\ IF sess # NoSid
           THEN kv' = FreeKV({seq}) /\ tokens' = [tokens EXCEPT ![sess] = <<>>]
           ELSE UNCHANGED <<kv, tokens>>
    BY <1>4 DEF ContextExhausted, request
  <2>2. seq = IF sess = NoSid THEN 0 ELSE seqOf[sess]
    BY <2>1 DEF IInv, InFlightContext
  <2>3. /\ \A p \in Seqs : p # seq => kv'[p] = kv[p]
        /\ \A t \in Sids : t # sess => tokens'[t] = tokens[t]
        /\ sess # NoSid => kv'[seq] = <<>> /\ tokens'[sess] = <<>>
    BY <1>1, <2>1 DEF FreeKV
  <2>4. \A s \in live' : s # sess' => tokens'[s] = kv'[seqOf'[s]]
    BY <1>1, <2>1, <2>2, <2>3, OthersMatch
  <2> QED
    BY <1>1, <2>1, <2>2, <2>3, <2>4 DEF Matching, Matched
<1> QED
  BY <1>2, <1>3, <1>4

\* The one chunk is the rest of the prompt; when it fails, nothing was fed.
LEMMA PrefillMatches ==
    ASSUME IInv, Matching, MaxPrompt <= NBatch, PrefillChunk \/ PrefillFails \/ PrefillDone
    PROVE  Matching'
<1>a. pc = "prefill"
  BY DEF PrefillChunk, PrefillFails, PrefillDone
<1>1. /\ Len(prompt) <= MaxPrompt /\ pc = "prefill"
      /\ seq \in Seqs /\ sess \in live \union {NoSid} /\ live \subseteq Sids
      /\ prompt \in Seq(Token) /\ n_past \in Nat /\ fed \in Nat
      /\ MaxPrompt \in Nat /\ NBatch \in Nat /\ Len(prompt) \in Nat
      /\ seq = IF sess = NoSid THEN 0 ELSE seqOf[sess]
  BY <1>a, ServerAssumption DEF IInv, TypeOK, InFlightContext, Matching
<1>2. fed < NFeed => fed = 0
  BY <1>1 DEF Matching
<1>3. CASE PrefillChunk
  <2>1. /\ fed < NFeed /\ fed' = fed + ChunkLen /\ pc' = "prefill"
        /\ UNCHANGED <<live, seqOf, tokens, prompt, sess, seq, n_past>>
    BY <1>1, <1>3 DEF PrefillChunk, table, request, plan
  <2>2. fed = 0 /\ ChunkLen = NFeed /\ NFeed' = NFeed /\ NFeed \in Nat /\ NFeed > 0
    BY <1>1, <1>2, <2>1 DEF ChunkLen, NFeed
  <2>3. /\ Len(kv'[seq]) = n_past + fed + ChunkLen
        /\ \A p \in Seqs : p # seq => kv'[p] = kv[p]
    BY <1>3, ChunkEffect
  <2>4. \A s \in live' : s # sess' => tokens'[s] = kv'[seqOf'[s]]
    BY <1>1, <2>1, <2>3, OthersMatch
  <2>5. fed' = NFeed' /\ fed' > 0 /\ Len(kv'[seq]) = n_past + fed'
    BY <1>1, <2>1, <2>2, <2>3
  <2> QED
    BY <1>1, <2>1, <2>4, <2>5 DEF Matching, Matched
<1>4. CASE PrefillFails
  <2>1. /\ fed < NFeed /\ pc' = "reply"
        /\ UNCHANGED <<live, seqOf, tokens, kv, prompt, sess>>
    BY <1>4 DEF PrefillFails, table, request, plan
  <2> QED
    BY <1>1, <1>2, <2>1 DEF Matching, Matched
<1>5. CASE PrefillDone
  <2>1. /\ fed >= NFeed /\ pc' = "generate"
        /\ UNCHANGED <<live, seqOf, tokens, kv, prompt, sess, seq, generated>>
    BY <1>5 DEF PrefillDone, table, llama, request, plan, work
  <2>2. sess # NoSid => kv[seq] = prompt \o generated
    BY <1>1, <2>1, PromptIsFed DEF Matching
  <2> QED
    BY <2>1, <2>2 DEF Matching, Matched
<1> QED
  BY <1>3, <1>4, <1>5

\* The generation loop, and the record of what it left in the sequence.
LEMMA GenerationMatches ==
    ASSUME IInv, Matching,
           \/ \E t \in Token, stopHit \in BOOLEAN : GenerateToken(t, stopHit)
           \/ GenerateFails \/ GenerateEos \/ GenerateBudgetSpent \/ Persist
    PROVE  Matching'
<1>1. /\ seq \in Seqs /\ sess \in live \union {NoSid} /\ live \subseteq Sids
      /\ tokens \in [Sids -> Seq(Token)] /\ Len(prompt) <= MaxPrompt
  BY DEF IInv, TypeOK, Matching
<1>2. ASSUME NEW t \in Token, NEW stopHit \in BOOLEAN, GenerateToken(t, stopHit)
      PROVE  Matching'
  <2>1. /\ pc = "generate" /\ pc' \in {"generate", "persist"}
        /\ UNCHANGED <<live, seqOf, tokens, prompt, sess, seq>>
    BY <1>2 DEF GenerateToken, table, request, plan
  <2>2. kv'[seq] = prompt \o generated' /\ \A p \in Seqs : p # seq => kv'[p] = kv[p]
    BY <1>2, TokenEffect
  <2>3. seq = IF sess = NoSid THEN 0 ELSE seqOf[sess]
    BY <2>1 DEF IInv, InFlightContext
  <2>4. \A s \in live' : s # sess' => tokens'[s] = kv'[seqOf'[s]]
    BY <1>1, <2>1, <2>2, <2>3, OthersMatch
  <2> QED
    BY <1>1, <2>1, <2>2, <2>4 DEF Matching, Matched
<1>3. CASE GenerateFails \/ GenerateEos \/ GenerateBudgetSpent
  <2>1. /\ pc = "generate" /\ pc' = "persist"
        /\ UNCHANGED <<live, seqOf, tokens, kv, prompt, sess, seq, generated>>
    BY <1>3 DEF GenerateFails, GenerateEos, GenerateBudgetSpent, table, llama, request, plan, work
  <2> QED
    BY <2>1 DEF Matching, Matched
<1>4. CASE Persist
  <2>1. /\ pc = "persist" /\ pc' = "reply"
        /\ UNCHANGED <<live, seqOf, kv, prompt, sess>>
        /\ tokens' = IF sess # NoSid THEN [tokens EXCEPT ![sess] = prompt \o generated]
                                     ELSE tokens
    BY <1>4 DEF Persist, llama, request, plan
  <2>2. seq = IF sess = NoSid THEN 0 ELSE seqOf[sess]
    BY <2>1 DEF IInv, InFlightContext
  <2>3. /\ \A t \in Sids : t # sess => tokens'[t] = tokens[t]
        /\ sess # NoSid => tokens'[sess] = kv[seqOf[sess]]
    BY <1>1, <2>1, <2>2 DEF Matching
  <2> QED
    BY <1>1, <2>1, <2>3 DEF Matching, Matched
<1> QED
  BY <1>2, <1>3, <1>4

\* session.hpp has a session's tokens be everything in the KV on its sequence.
\* They are, between requests, when every prompt fits one batch.
THEOREM TokensAreTheSequence == MaxPrompt <= NBatch => (Spec => []TokensMatchKV)
<1> SUFFICES ASSUME MaxPrompt <= NBatch PROVE Spec => []TokensMatchKV
  OBVIOUS
<1>1. Init => Matching
  BY ServerAssumption DEF Init, Matching
<1>2. IInv /\ Matching /\ [Next]_vars => Matching'
  <2> SUFFICES ASSUME IInv, Matching, [Next]_vars PROVE Matching'
    OBVIOUS
  <2>1. CASE ClientRequest
    <3>1. /\ UNCHANGED <<live, seqOf, tokens, kv, sess>>
          /\ pc = "idle" /\ pc' \in {"idle", "resolve"}
          /\ prompt' \in Prompts \union {prompt} /\ sess = NoSid
      BY <2>1 DEF ClientRequest, Begin, BeginEmpty, table, llama, request, plan, IInv,
         InFlightContext
    <3>2. Len(prompt') <= MaxPrompt
      BY <3>1, ServerAssumption DEF Prompts, Matching
    <3> QED
      BY <3>1, <3>2 DEF Matching, Matched
  <2>2. CASE Reply
    <3>1. /\ UNCHANGED <<live, seqOf, tokens, kv>> /\ pc = "reply" /\ pc' = "idle"
          /\ sess' = NoSid /\ prompt' = <<>>
      BY <2>2 DEF Reply, table, llama
    <3>2. \A s \in live : Matched(s)
      BY <3>1, ServerAssumption DEF Matching, IInv, TypeOK
    <3>3. Len(prompt') <= MaxPrompt
      BY <3>1, ServerAssumption
    <3> QED
      BY <3>1, <3>2, <3>3 DEF Matching, Matched
  <2>3. CASE UNCHANGED vars
    BY <2>3 DEF vars, table, llama, request, plan, work, Matching, Matched, NFeed
  <2> QED
    BY <2>1, <2>2, <2>3, ResolveMatches, TrimMatches, BudgetMatches, PrefillMatches,
       GenerationMatches DEF Next, Compute
<1>3. IInv /\ Matching => TokensMatchKV
  BY ServerAssumption DEF IInv, TypeOK, InFlightContext, Matching, Matched, TokensMatchKV
<1> QED
  BY <1>1, <1>2, <1>3, InductiveInvariant, PTL DEF Spec

-----------------------------------------------------------------------------
(* The cache keeps the promise of Conversations *)

\* What the table lists for a conversation, and what the stages of
\* complete_stream take their sequence to hold.
Believed == [s \in Sids |-> IF s \in live THEN tokens[s] ELSE <<>>]
Claimed  == IF pc \in {"generate", "persist"} THEN prompt \o generated
            ELSE IF pc \in {"budget", "prefill"} THEN SubSeq(prompt, 1, n_past + fed)
            ELSE <<>>

\* The beginning of a sequence.
LEMMA FirstSpec ==
    ASSUME NEW S, NEW s \in Seq(S), NEW n \in 0 .. Len(s)
    PROVE  /\ SubSeq(s, 1, n) \in Seq(S) /\ Len(SubSeq(s, 1, n)) = n
           /\ \A i \in 1 .. n : SubSeq(s, 1, n)[i] = s[i]
  OBVIOUS

\* Two sequences that agree up to n begin alike.
LEMMA SameFirst ==
    ASSUME NEW S, NEW s \in Seq(S), NEW t \in Seq(S), NEW n \in Nat,
           n <= Len(s), n <= Len(t), \A i \in 1 .. n : s[i] = t[i]
    PROVE  SubSeq(s, 1, n) = SubSeq(t, 1, n)
<1>1. n \in 0 .. Len(s) /\ n \in 0 .. Len(t)
  OBVIOUS
<1>2. /\ SubSeq(s, 1, n) \in Seq(S) /\ Len(SubSeq(s, 1, n)) = n
      /\ \A i \in 1 .. n : SubSeq(s, 1, n)[i] = s[i]
  BY <1>1, FirstSpec
<1>3. /\ SubSeq(t, 1, n) \in Seq(S) /\ Len(SubSeq(t, 1, n)) = n
      /\ \A i \in 1 .. n : SubSeq(t, 1, n)[i] = t[i]
  BY <1>1, FirstSpec
<1> QED
  BY <1>2, <1>3, SameSeq, Zenon

\* A whole sequence is its own beginning.
LEMMA FirstAll == ASSUME NEW S, NEW s \in Seq(S)  PROVE SubSeq(s, 1, Len(s)) = s
  OBVIOUS

\* A prefix of t is a beginning of t.
LEMMA PrefixIsFirst ==
    ASSUME NEW S, NEW s \in Seq(S), NEW t \in Seq(S), IsPrefixOf(s, t)
    PROVE  SubSeq(t, 1, Len(s)) = s
<1>1. Len(s) \in Nat /\ Len(s) <= Len(t) /\ \A i \in 1 .. Len(s) : t[i] = s[i]
  BY DEF IsPrefixOf
<1>2. SubSeq(t, 1, Len(s)) = SubSeq(s, 1, Len(s))
  BY <1>1, SameFirst
<1> QED
  BY <1>2, FirstAll

\* What the table lists is in the sequence: the mapped memory is the listed one.
LEMMA MemoryIsBelieved == IInv => Memory = Believed
<1> SUFFICES ASSUME IInv  PROVE Memory = Believed
  OBVIOUS
<1>1. /\ tokens \in [Sids -> Seq(Token)] /\ seqOf \in [Sids -> Seqs]
      /\ kv \in [Seqs -> Seq(Token)] /\ live \subseteq Sids
  BY DEF IInv, TypeOK
<1>2. \A s \in live : SubSeq(kv[seqOf[s]], 1, Len(tokens[s])) = tokens[s]
  <2> TAKE s \in live
  <2>1. tokens[s] \in Seq(Token) /\ kv[seqOf[s]] \in Seq(Token)
    BY <1>1
  <2>2. IsPrefixOf(tokens[s], kv[seqOf[s]])
    BY DEF IInv, CachedTokensInKV
  <2> QED
    BY <2>1, <2>2, PrefixIsFirst
<1> QED
  BY <1>2, Zenon DEF Memory, Believed

\* The sequence of the request holds what the stage relies on: the mapped context
\* is the claimed one.
LEMMA ContextIsClaimed == IInv => Context = Claimed
<1> SUFFICES ASSUME IInv  PROVE Context = Claimed
  OBVIOUS
<1>1. /\ kv \in [Seqs -> Seq(Token)] /\ seq \in Seqs /\ prompt \in Seq(Token)
      /\ generated \in Seq(Token) /\ n_past \in Nat /\ fed \in Nat
  BY DEF IInv, TypeOK
<1>2. kv[seq] \in Seq(Token)
  BY <1>1
<1>3. CASE pc \in {"generate", "persist"}
  <2>1. IsPrefixOf(prompt \o generated, kv[seq])
    BY <1>3 DEF IInv, InFlightContext
  <2>2. /\ prompt \o generated \in Seq(Token)
        /\ Len(prompt \o generated) = Len(prompt) + Len(generated)
    BY <1>1, ConcatSpec
  <2>3. SubSeq(kv[seq], 1, Len(prompt \o generated)) = prompt \o generated
    BY <1>2, <2>1, <2>2, PrefixIsFirst
  <2> QED
    BY <1>3, <2>2, <2>3 DEF Context, Claimed, Stage, Reached
<1>4. CASE pc \in {"budget", "prefill"}
  <2>1. /\ n_past + fed <= Len(prompt) /\ n_past + fed <= Len(kv[seq])
        /\ \A i \in 1 .. n_past + fed : kv[seq][i] = prompt[i] /\ n_past + fed \in Nat
    BY <1>1, <1>2, <1>4 DEF IInv, InFlightContext
  <2>2. SubSeq(kv[seq], 1, n_past + fed) = SubSeq(prompt, 1, n_past + fed)
    BY <1>1, <1>2, <2>1, SameFirst
  <2> QED
    BY <1>4, <2>2 DEF Context, Claimed, Stage, Reached
<1>5. CASE pc \notin {"budget", "prefill", "generate", "persist"}
  BY <1>5 DEF Context, Claimed, Stage
<1> QED
  BY <1>3, <1>4, <1>5

\* The stage of the abstract request.
LEMMA StageSpec ==
    /\ pc = "idle" => Stage = "idle"
    /\ pc = "resolve" => Stage = "asked"
    /\ pc = "trim" => Stage = "attached"
    /\ pc \in {"budget", "prefill", "generate", "persist"} => Stage = "reading"
    /\ pc = "reply" => Stage = "over"
  BY DEF Stage

\* The mapped variables, before and after a step.
LEMMA Mapped ==
    IInv /\ [Next]_vars =>
        /\ Memory = Believed /\ Context = Claimed
        /\ Memory' = Believed' /\ Context' = Claimed'
        /\ IInv'
<1>1. (IInv => Memory = Believed /\ Context = Claimed)'
  BY MemoryIsBelieved, ContextIsClaimed, PTL
<1> QED
  BY <1>1, MemoryIsBelieved, ContextIsClaimed, NextIInv

-----------------------------------------------------------------------------
\* No two conversations were used at the same time: the least recently used is
\* one at most.
AgesDistinct == \A s, t \in live : age[s] = age[t] => s = t

\* touch() gives s an age of its own, and the others theirs in the old order.
LEMMA TouchedDistinct ==
    ASSUME TypeOK, AgesDistinct, NEW gone \in SUBSET live, NEW s \in Sids,
           NEW f, \A t \in Sids \ gone : f[t] = Touched(live \ gone, s)[t]
    PROVE  \A t, u \in (live \ gone) \union {s} : s \notin gone /\ f[t] = f[u] => t = u
<1> DEFINE keys == live \ gone
<1>1. /\ \A t \in keys : age[t] \in Nat /\ t \in Sids \ gone
      /\ \A t, u \in keys : age[t] = age[u] => t = u
  <2>1. live \subseteq Sids /\ age \in [Sids -> Nat]
    BY DEF TypeOK
  <2>2. \A t \in live : age[t] \in Nat /\ t \in Sids
    BY <2>1
  <2>3. \A t, u \in live : age[t] = age[u] => t = u
    BY DEF AgesDistinct
  <2>4. \A t \in keys : t \in live /\ t \notin gone
    OBVIOUS
  <2> QED
    BY <2>2, <2>3, <2>4, Zenon
<1>2. \A t \in Sids : Touched(keys, s)[t] =
        IF t = s THEN 0 ELSE IF t \in keys /\ (s \notin keys \/ age[t] < age[s])
                             THEN age[t] + 1 ELSE age[t]
  BY DEF Touched
<1> HIDE DEF keys
<1>3. SUFFICES ASSUME s \notin gone, NEW t \in keys \union {s}, NEW u \in keys \union {s},
                      f[t] = f[u]
               PROVE  t = u
  BY DEF keys
<1>4. f[t] = Touched(keys, s)[t] /\ f[u] = Touched(keys, s)[u] /\ t \in Sids /\ u \in Sids
  BY <1>1, <1>3 DEF keys
<1>5. ASSUME NEW x \in keys \union {s}
      PROVE  /\ x = s => Touched(keys, s)[x] = 0
             /\ x # s => /\ x \in keys /\ age[x] \in Nat
                        /\ Touched(keys, s)[x] = IF s \notin keys \/ age[x] < age[s]
                                                THEN age[x] + 1 ELSE age[x]
  <2>1. x \in Sids
    BY <1>1, <1>3
  <2> QED
    BY <1>1, <1>2, <2>1
<1>6. ASSUME NEW x \in keys, x # s
      PROVE  s \in keys => age[x] # age[s] /\ age[s] \in Nat
  BY <1>1, <1>6
<1>7. ASSUME NEW x \in keys \union {s}, x # s  PROVE Touched(keys, s)[x] # 0
  <2>1. /\ x \in keys /\ age[x] \in Nat
        /\ Touched(keys, s)[x] = IF s \notin keys \/ age[x] < age[s] THEN age[x] + 1 ELSE age[x]
    BY <1>5, <1>7
  <2>2. s \in keys => age[x] # age[s] /\ age[s] \in Nat
    BY <1>6, <1>7, <2>1
  <2> QED
    BY <2>1, <2>2
<1>8. CASE t = s \/ u = s
  BY <1>3, <1>4, <1>5, <1>7, <1>8, Zenon
<1>9. CASE t # s /\ u # s
  <2>1. /\ t \in keys /\ age[t] \in Nat
        /\ f[t] = IF s \notin keys \/ age[t] < age[s] THEN age[t] + 1 ELSE age[t]
    BY <1>3, <1>4, <1>5, <1>9, Zenon
  <2>2. /\ u \in keys /\ age[u] \in Nat
        /\ f[u] = IF s \notin keys \/ age[u] < age[s] THEN age[u] + 1 ELSE age[u]
    BY <1>3, <1>4, <1>5, <1>9, Zenon
  <2>3. s \in keys => age[t] # age[s] /\ age[u] # age[s] /\ age[s] \in Nat
    BY <1>6, <1>9, <2>1, <2>2
  <2>4. age[t] = age[u]
    <3> HIDE DEF keys
    <3>1. CASE s \notin keys
      <4>1. f[t] = age[t] + 1 /\ f[u] = age[u] + 1
        BY <3>1, <2>1, <2>2, Zenon
      <4> QED
        BY <4>1, <1>3, <2>1, <2>2
    <3>2. CASE s \in keys
      <4>1. f[t] = IF age[t] < age[s] THEN age[t] + 1 ELSE age[t]
        BY <3>2, <2>1, Zenon
      <4>2. f[u] = IF age[u] < age[s] THEN age[u] + 1 ELSE age[u]
        BY <3>2, <2>2, Zenon
      <4> QED
        BY <4>1, <4>2, <3>2, <1>3, <2>1, <2>2, <2>3
    <3> QED
      BY <3>1, <3>2
  <2> QED
    BY <1>1, <2>1, <2>2, <2>4
<1> QED
  BY <1>8, <1>9

\* So does the insertion of a new session.
LEMMA InsertDistinct ==
    ASSUME TypeOK, AgesDistinct, NEW gone \in SUBSET live, NEW s \in Sids \ live, NEW id,
           Insert(s, id, gone)
    PROVE  AgesDistinct'
<1>1. live' = (live \ gone) \union {s} /\ s \notin gone
  BY DEF Insert
<1>2. \A t \in Sids \ gone : age'[t] = Touched(live \ gone, s)[t]
  BY DEF Insert, Erased
<1> QED
  BY <1>1, <1>2, TouchedDistinct DEF AgesDistinct

\* Every step keeps the ages apart.
LEMMA AgesStep == IInv /\ AgesDistinct /\ [Next]_vars => AgesDistinct'
<1> SUFFICES ASSUME IInv, AgesDistinct, [Next]_vars  PROVE AgesDistinct'
  OBVIOUS
<1>0. TypeOK
  BY DEF IInv
<1>1. CASE UNCHANGED <<live, age>>
  BY <1>1 DEF AgesDistinct
<1>2. ASSUME NEW s \in live, age' = Touched(live, s), live' = live  PROVE AgesDistinct'
  <2>1. s \in Sids /\ s \notin {} /\ {} \in SUBSET live /\ live \ {} = live
        /\ live \union {s} = live /\ Sids \ {} = Sids
    BY <1>0 DEF TypeOK
  <2>2. \A t \in Sids \ {} : age'[t] = Touched(live \ {}, s)[t]
    BY <1>2, <2>1
  <2>3. \A t, u \in (live \ {}) \union {s} : s \notin {} /\ age'[t] = age'[u] => t = u
    BY <1>0, <2>1, <2>2, TouchedDistinct
  <2> QED
    BY <1>2, <2>1, <2>3 DEF AgesDistinct
<1>3. CASE FindSession
  BY <1>2, <1>3 DEF FindSession
<1>4. CASE \E s \in Sids : MatchPrefix(s)
  BY <1>2, <1>4 DEF MatchPrefix, BestPrefix, HoldsPrefix
<1>5. LRU \subseteq live
  BY DEF LRU
<1>6. CASE \E id \in Seqs : AllocSession(id)
  BY <1>0, <1>5, <1>6, InsertDistinct DEF AllocSession
<1>7. CASE \E id \in Seqs : EvictThenAlloc(id)
  BY <1>0, <1>5, <1>7, InsertDistinct DEF EvictThenAlloc
<1>8. CASE EvictThenStateless
  BY <1>0, <1>8 DEF EvictThenStateless, Erased, AgesDistinct, TypeOK
<1>9. CASE NoSession
  BY <1>9, <1>1 DEF NoSession, table
<1>10. CASE ClientRequest
  BY <1>10, <1>1 DEF ClientRequest, Begin, BeginEmpty, table
<1>11. CASE Compute
  BY <1>11, <1>1 DEF Compute, TrimSession, ClearStateless, AcceptBudget, ContextExhausted,
     PrefillChunk, PrefillFails, PrefillDone, GenerateToken, GenerateFails, GenerateEos,
     GenerateBudgetSpent, Persist, Reply, table
<1>12. CASE UNCHANGED vars
  BY <1>12, <1>1 DEF vars, table
<1> QED
  BY <1>3, <1>4, <1>6, <1>7, <1>8, <1>9, <1>10, <1>11, <1>12 DEF Next, Resolve

\* min_element has one answer at most.
LEMMA EvictsOne == ASSUME TypeOK, AgesDistinct  PROVE \A s, t \in LRU : s = t
<1> SUFFICES ASSUME NEW s \in LRU, NEW t \in LRU  PROVE s = t
  OBVIOUS
<1>1. s \in live /\ t \in live /\ age[s] <= age[t] /\ age[t] <= age[s]
  BY DEF LRU
<1>2. age[s] \in Nat /\ age[t] \in Nat
  BY <1>1 DEF TypeOK
<1>3. age[s] = age[t]
  BY <1>1, <1>2
<1> QED
  BY <1>1, <1>3 DEF AgesDistinct

\* What take() overlooks: when its sweep fails, an id that is free all the same can
\* only be the slot just before the cursor.
LEMMA SweepMisses ==
    ASSUME NEW used, NEW c \in Seqs, TakeFails(used, c), NEW q \in SeqIds \ used
    PROVE  CursorAfter(q) = c
<1>1. SUFFICES ASSUME CursorAfter(q) # c PROVE FALSE
  OBVIOUS
<1>2. /\ c \in Int /\ 0 <= c /\ c < MaxSeqs
      /\ q \in Int /\ 1 <= q /\ q < MaxSeqs /\ MaxSeqs \in Int
  BY MaxSeqsAssumption DEF Seqs, SeqIds
<1>3. \A x \in Int : 0 <= x /\ x < MaxSeqs =>
          x % MaxSeqs = x /\ (x + MaxSeqs) % MaxSeqs = x
  BY <1>2
<1>4. ~(q + 1 = c) /\ ~(q + 1 = MaxSeqs /\ c = 0)
  <2>1. q + 1 = c => CursorAfter(q) = c
    BY <1>2, <1>3 DEF CursorAfter
  <2>2. q + 1 = MaxSeqs /\ c = 0 => CursorAfter(q) = c
    <3>1. (0 + MaxSeqs) % MaxSeqs = 0
      BY <1>2, <1>3
    <3> QED
      BY <1>2, <3>1 DEF CursorAfter
  <2> QED
    BY <1>1, <2>1, <2>2
<1>5. PICK i \in 1 .. MaxSeqs - 1 : SweepIdx(c, i) = q
  <2>1. CASE c <= q
    <3> DEFINE j == q - c + 1
    <3>1. j \in 1 .. MaxSeqs - 1 /\ c + j - 1 = q
      BY <1>2, <1>4, <2>1
    <3>2. q % MaxSeqs = q
      BY <1>2, <1>3
    <3> HIDE DEF j
    <3> QED
      BY <3>1, <3>2, Zenon DEF SweepIdx
  <2>2. CASE q < c
    <3> DEFINE j == q - c + 1 + MaxSeqs
    <3>1. j \in 1 .. MaxSeqs - 1 /\ c + j - 1 = q + MaxSeqs
      BY <1>2, <1>4, <2>2
    <3>2. (q + MaxSeqs) % MaxSeqs = q
      BY <1>2, <1>3
    <3> HIDE DEF j
    <3> QED
      BY <3>1, <3>2, Zenon DEF SweepIdx
  <2> QED
    BY <1>2, <2>1, <2>2
<1> QED
  BY <1>2, <1>5 DEF TakeFails, SweepHit

\* So all ids but one, at most, are in use.
LEMMA FailureMeansFull ==
    ASSUME NEW used \in SUBSET SeqIds, NEW c \in Seqs, TakeFails(used, c)
    PROVE  IsFiniteSet(used) /\ Cardinality(used) \in Nat /\ Cardinality(used) >= Capacity - 1
<1>1. IsFiniteSet(SeqIds) /\ Cardinality(SeqIds) = Capacity /\ Capacity \in Nat
  BY MaxSeqsAssumption, FS_Interval DEF SeqIds, Capacity
<1>2. IsFiniteSet(used) /\ Cardinality(used) \in Nat
  BY <1>1, FS_Subset, FS_CardinalityType
<1>3. CASE used = SeqIds
  BY <1>1, <1>2, <1>3
<1>4. CASE used # SeqIds
  <2>1. PICK q \in SeqIds \ used : TRUE
    BY <1>4
  <2>2. ASSUME NEW r \in SeqIds \ used PROVE r = q
    <3>1. CursorAfter(r) = CursorAfter(q)
      BY <2>1, SweepMisses
    <3>2. /\ r \in Int /\ 1 <= r /\ r < MaxSeqs /\ q \in Int /\ 1 <= q /\ q < MaxSeqs
          /\ MaxSeqs \in Int
      BY MaxSeqsAssumption DEF SeqIds
    <3>3. \A x \in Int : 1 <= x /\ x < MaxSeqs =>
             (x + 1) % MaxSeqs = IF x + 1 = MaxSeqs THEN 0 ELSE x + 1
      <4> SUFFICES ASSUME NEW x \in Int, 1 <= x, x < MaxSeqs
                   PROVE  (x + 1) % MaxSeqs = IF x + 1 = MaxSeqs THEN 0 ELSE x + 1
        OBVIOUS
      <4>1. CASE x + 1 = MaxSeqs
        BY <3>2, <4>1
      <4>2. CASE x + 1 < MaxSeqs
        BY <3>2, <4>2
      <4> QED
        BY <3>2, <4>1, <4>2
    <3> QED
      BY <3>1, <3>2, <3>3 DEF CursorAfter
  <2>3. used \union {q} = SeqIds /\ q \notin used
    BY <2>1, <2>2
  <2>4. Cardinality(SeqIds) = Cardinality(used) + 1
    BY <1>2, <2>3, FS_AddElement
  <2> QED
    BY <1>1, <1>2, <2>4
<1> QED
  BY <1>3, <1>4

\* There are as many conversations as ids in use.
LEMMA OneIdEach ==
    TypeOK /\ SeqOwnership =>
        IsFiniteSet(live) /\ IsFiniteSet(in_use) /\ Cardinality(live) = Cardinality(in_use)
<1> SUFFICES ASSUME TypeOK, SeqOwnership
             PROVE  IsFiniteSet(live) /\ IsFiniteSet(in_use)
                    /\ Cardinality(live) = Cardinality(in_use)
  OBVIOUS
<1> DEFINE f == [s \in live |-> seqOf[s]]
<1>1. IsFiniteSet(in_use)
  <2>1. IsFiniteSet(SeqIds)
    BY MaxSeqsAssumption, FS_Interval DEF SeqIds
  <2>2. in_use \subseteq SeqIds
    BY DEF TypeOK
  <2> QED
    BY <2>1, <2>2, FS_Subset
<1>2. f \in Injection(live, in_use) /\ f \in Surjection(live, in_use)
  <2>1. f \in [live -> in_use] /\ \A s, t \in live : f[s] = f[t] => s = t
    BY DEF SeqOwnership, SeqsOf
  <2>2. \A q \in in_use : \E s \in live : f[s] = q
    BY DEF SeqOwnership, SeqsOf
  <2> QED
    BY <2>1, <2>2 DEF Injection, IsInjective, Surjection
<1> HIDE DEF f
<1> QED
  BY <1>1, <1>2, FS_Injection

\* An eviction costs a conversation only when all ids but one, at most, are taken,
\* and it costs one only: ids that are given back are found by the next eviction at
\* the latest, and none is ever lost.
THEOREM EvictsFromFullCache == Spec => EvictionKeepsCacheFull
<1>1. ASSUME IInv, AgesDistinct, [Next]_vars, live \ live' # {}
      PROVE  Cardinality(live') >= Capacity - 1
  <2>1. /\ TypeOK /\ SeqOwnership /\ IInv' /\ in_use \subseteq SeqIds /\ cursor \in Seqs
        /\ live \subseteq Sids
    BY <1>1, NextIInv DEF IInv, TypeOK
  <2>2. /\ IsFiniteSet(in_use') /\ Cardinality(live') = Cardinality(in_use')
        /\ IsFiniteSet(in_use) /\ Cardinality(live) = Cardinality(in_use)
    <3>1. (TypeOK /\ SeqOwnership)'
      BY <2>1 DEF IInv
    <3>2. (IsFiniteSet(live) /\ IsFiniteSet(in_use) /\ Cardinality(live) = Cardinality(in_use))'
      BY <3>1, OneIdEach, PTL
    <3> QED
      BY <2>1, <3>2, OneIdEach
  <2>3. SeqsOf(LRU) \subseteq in_use /\ \A q, r \in SeqsOf(LRU) : q = r
    BY <1>1, <2>1, EvictsOne DEF SeqOwnership, SeqsOf, LRU
  <2>4. CASE EvictThenStateless
    <3>1. /\ FreedIds \subseteq SeqIds /\ TakeFails(FreedIds, cursor) /\ in_use' = FreedIds
      BY <2>1, <2>4 DEF EvictThenStateless, FreedIds
    <3>2. Cardinality(FreedIds) >= Capacity - 1
      BY <2>1, <3>1, FailureMeansFull
    <3> QED
      BY <2>2, <3>1, <3>2
  <2>5. ASSUME NEW id \in Seqs, EvictThenAlloc(id) PROVE Cardinality(live') >= Capacity - 1
    <3>1. /\ TakeFails(in_use, cursor) /\ Takes(FreedIds, cursor, id)
          /\ in_use' = FreedIds \union {id}
      BY <2>5 DEF EvictThenAlloc
    <3>2. Cardinality(in_use) \in Nat /\ Cardinality(in_use) >= Capacity - 1
      BY <2>1, <3>1, FailureMeansFull
    <3>3. id \notin FreedIds
      BY <3>1 DEF Takes, SweepHit
    <3>4. IsFiniteSet(FreedIds) /\ Cardinality(FreedIds) \in Nat
          /\ Cardinality(FreedIds) >= Cardinality(in_use) - 1
      <4>1. CASE SeqsOf(LRU) = {}
        BY <2>2, <3>2, <4>1 DEF FreedIds
      <4>2. CASE SeqsOf(LRU) # {}
        <5>1. PICK q \in SeqsOf(LRU) : SeqsOf(LRU) = {q}
          BY <2>3, <4>2
        <5>2. FreedIds = in_use \ {q}
          BY <5>1 DEF FreedIds
        <5>3. IsFiniteSet(FreedIds)
              /\ Cardinality(FreedIds) = IF q \in in_use THEN Cardinality(in_use) - 1
                                                         ELSE Cardinality(in_use)
          BY <2>2, <5>2, FS_RemoveElement
        <5>4. Cardinality(FreedIds) \in Nat
          BY <5>3, FS_CardinalityType
        <5> QED
          BY <3>2, <5>3, <5>4
      <4> QED
        BY <4>1, <4>2
    <3>5. Cardinality(in_use') = Cardinality(FreedIds) + 1
      BY <3>1, <3>3, <3>4, FS_AddElement
    <3>6. Capacity \in Nat
      BY MaxSeqsAssumption DEF Capacity
    <3> QED
      BY <2>2, <3>2, <3>4, <3>5, <3>6
  <2>6. CASE ~(EvictThenStateless \/ \E id \in Seqs : EvictThenAlloc(id))
    <3>1. live' = live \/ \E s : live' = live \union {s}
      <4>1. ASSUME NEW id \in Seqs, AllocSession(id) PROVE live' = live \union {header}
        <5>1. Cardinality(live) < Capacity
          <6>1. ~TakeFails(in_use, cursor)
            BY <4>1 DEF AllocSession, Takes, TakeFails
          <6> QED
            BY <1>1, <4>1, <6>1, HasRoom DEF AllocSession, InsertNeverEvicts
        <5>2. Cardinality(live) \in Nat /\ Capacity \in Nat
          BY <2>2, FS_CardinalityType, MaxSeqsAssumption DEF Capacity
        <5>3. ~(Cardinality(live) >= Capacity)
          BY <5>1, <5>2
        <5> QED
          BY <4>1, <5>3 DEF AllocSession, Insert
      <4> QED
        BY <1>1, <2>6, <4>1 DEF Next, Resolve, ClientRequest, Compute, vars, table, FindSession,
           MatchPrefix, NoSession, Begin, BeginEmpty, TrimSession, ClearStateless, AcceptBudget,
           ContextExhausted, PrefillChunk, PrefillFails, PrefillDone, GenerateToken,
           GenerateFails, GenerateEos, GenerateBudgetSpent, Persist, Reply
    <3> QED
      BY <1>1, <3>1
  <2> QED
    BY <2>4, <2>5, <2>6
<1>2. Init => AgesDistinct
  BY DEF Init, AgesDistinct
<1> QED
  BY <1>1, <1>2, InitIInv, NextIInv, AgesStep, PTL DEF Spec, EvictionKeepsCacheFull

-----------------------------------------------------------------------------
\* find_by_prefix and the abstract match agree.
LEMMA MatchesSpec ==
    ASSUME TypeOK, Memory = Believed, NEW s \in Sids
    PROVE  /\ Promise!Matches(s) <=> HoldsPrefix(s, prompt)
           /\ HoldsPrefix(s, prompt) => Memory[s] = tokens[s]
<1>1. tokens[s] \in Seq(Token) /\ prompt \in Seq(Token)
  BY DEF TypeOK
<1>2. Memory[s] = IF s \in live THEN tokens[s] ELSE <<>>
  BY DEF Believed
<1>3. ASSUME Len(tokens[s]) <= Len(prompt)
      PROVE  (\A i \in 1 .. Len(tokens[s]) : tokens[s][i] = prompt[i])
                <=> tokens[s] = SubSeq(prompt, 1, Len(tokens[s]))
  <2>1. Len(tokens[s]) \in 0 .. Len(prompt)
    BY <1>1, <1>3
  <2>2. LET p == SubSeq(prompt, 1, Len(tokens[s]))
        IN  /\ p \in Seq(Token) /\ Len(p) = Len(tokens[s])
            /\ \A i \in 1 .. Len(tokens[s]) : p[i] = prompt[i]
    BY <1>1, <2>1, FirstSpec
  <2>3. ASSUME \A i \in 1 .. Len(tokens[s]) : tokens[s][i] = prompt[i]
        PROVE  tokens[s] = SubSeq(prompt, 1, Len(tokens[s]))
    BY <1>1, <2>2, <2>3, SameSeq
  <2>4. ASSUME tokens[s] = SubSeq(prompt, 1, Len(tokens[s]))
        PROVE  \A i \in 1 .. Len(tokens[s]) : tokens[s][i] = prompt[i]
    BY <2>2, <2>4, Zenon
  <2> QED
    BY <2>3, <2>4
<1>4. CASE s \in live
  BY <1>2, <1>3, <1>4 DEF Promise!Matches, Promise!First, HoldsPrefix
<1>5. CASE s \notin live
  BY <1>2, <1>5 DEF Promise!Matches, HoldsPrefix
<1> QED
  BY <1>4, <1>5

\* A handler that takes infer_mu asks.
LEMMA BeginAsks ==
    ASSUME IInv, [Next]_vars,
           NEW h \in Sids \union {NoSid}, NEW fb \in BOOLEAN, NEW p \in Prompts,
           NEW m \in MaxTokens, Begin(h, fb, p, m)
    PROVE  Promise!Ask
<1>1. /\ Memory = Believed /\ Context = Claimed
      /\ Memory' = Believed' /\ Context' = Claimed'
  BY Mapped
<1>2. Stage = "idle" /\ Stage' = "asked"
  BY StageSpec DEF Stage, Begin
<1>3. Believed' = Believed /\ Claimed' = <<>> /\ Claimed = <<>>
  BY DEF Begin, Believed, Claimed, table
<1>4. p \in Seq(Token)
  BY DEF Prompts
<1> QED
  BY <1>1, <1>2, <1>3, <1>4 DEF Begin, Promise!Ask, work

\* A session found by its id is the conversation that was named.
LEMMA FindAttaches == ASSUME IInv, [Next]_vars, FindSession PROVE Promise!Attach
<1>1. /\ Memory = Believed /\ Context = Claimed
      /\ Memory' = Believed' /\ Context' = Claimed'
  BY Mapped
<1>2. Stage = "asked" /\ Stage' = "attached"
  BY DEF Stage, FindSession
<1>3. Believed' = Believed /\ Claimed' = <<>> /\ Claimed = <<>>
  BY DEF FindSession, Believed, Claimed
<1>4. header \in Sids /\ header # NoSid
  BY ServerAssumption DEF FindSession, IInv, TypeOK
<1>5. Promise!MayContinue(header)
  BY <1>4 DEF Promise!MayContinue
<1> QED
  BY <1>1, <1>2, <1>3, <1>4, <1>5 DEF FindSession, Promise!Attach, request, work

\* find_by_prefix continues the conversation that remembers most of the prompt.
LEMMA MatchAttaches ==
    ASSUME IInv, [Next]_vars, NEW s \in Sids, MatchPrefix(s)  PROVE Promise!Attach
<1>0. TypeOK
  BY DEF IInv
<1>1. /\ Memory = Believed /\ Context = Claimed
      /\ Memory' = Believed' /\ Context' = Claimed'
  BY Mapped
<1>2. Stage = "asked" /\ Stage' = "attached"
  BY DEF Stage, MatchPrefix
<1>3. Believed' = Believed /\ Claimed' = <<>> /\ Claimed = <<>>
  BY DEF MatchPrefix, Believed, Claimed
<1>4. /\ HoldsPrefix(s, prompt) /\ header = NoSid /\ fallback
      /\ \A t \in Sids : HoldsPrefix(t, prompt) => Len(tokens[t]) <= Len(tokens[s])
  BY DEF MatchPrefix, BestPrefix
<1>5. Promise!MayContinue(s)
  <2>1. \A t \in Sids : /\ Promise!Matches(t) <=> HoldsPrefix(t, prompt)
                        /\ HoldsPrefix(t, prompt) => Memory[t] = tokens[t]
    BY <1>0, <1>1, MatchesSpec
  <2> QED
    BY <1>4, <2>1, Zenon DEF Promise!MayContinue
<1> QED
  BY <1>1, <1>2, <1>3, <1>5 DEF MatchPrefix, Promise!Attach, request, work

\* A request without a session id that matches nothing is left alone.
LEMMA NoSessionAttaches == ASSUME IInv, [Next]_vars, NoSession  PROVE Promise!Attach
<1>0. TypeOK
  BY DEF IInv
<1>1. /\ Memory = Believed /\ Context = Claimed
      /\ Memory' = Believed' /\ Context' = Claimed'
  BY Mapped
<1>2. Stage = "asked" /\ Stage' = "attached"
  BY DEF Stage, NoSession
<1>3. Believed' = Believed /\ Claimed' = <<>> /\ Claimed = <<>>
  BY DEF NoSession, Believed, Claimed, table
<1>4. sess = NoSid /\ sess' = NoSid /\ header = NoSid
  BY DEF NoSession, IInv, InFlightContext, plan
<1>5. Promise!MayContinue(NoSid)
  <2>1. \A t \in Sids : Promise!Matches(t) <=> HoldsPrefix(t, prompt)
    BY <1>0, <1>1, MatchesSpec
  <2> QED
    BY <1>4, <2>1, Zenon DEF Promise!MayContinue, NoSession
<1> QED
  BY <1>1, <1>2, <1>3, <1>4, <1>5 DEF NoSession, Promise!Attach, request, work

\* A named conversation that is not remembered costs one other its memory at most.
LEMMA EvictionAttaches ==
    ASSUME IInv, AgesDistinct, [Next]_vars, NEW gone \in {{}, LRU},
           pc = "resolve", pc' = "trim", header \in Sids \ live, sess' \in {header, NoSid},
           UNCHANGED request, generated' = generated,
           \A t \in Sids : Believed'[t] = IF t \in gone THEN <<>> ELSE Believed[t]
    PROVE  Promise!Attach
<1>0. TypeOK
  BY DEF IInv
<1>1. /\ Memory = Believed /\ Context = Claimed
      /\ Memory' = Believed' /\ Context' = Claimed'
  BY Mapped
<1>2. Stage = "asked" /\ Stage' = "attached"
  BY DEF Stage
<1>3. Claimed' = <<>> /\ Claimed = <<>>
  BY DEF Claimed
<1>4. header # NoSid /\ header \in Sids
  BY ServerAssumption
<1>5. Promise!MayContinue(sess') /\ sess' \in Sids \union {NoSid}
  BY <1>4 DEF Promise!MayContinue
<1>6. Memory[header] = <<>>
  BY <1>1 DEF Believed
<1>7. UNCHANGED Memory \/ \E t \in Sids \ {header} : Memory' = [Memory EXCEPT ![t] = <<>>]
  <2>1. CASE gone = {}
    BY <1>1, <2>1 DEF Believed
  <2>2. CASE gone # {}
    <3>1. PICK t \in gone : TRUE
      BY <2>2
    <3>2. gone = {t} /\ t \in live
      BY <1>0, <2>2, <3>1, EvictsOne DEF LRU
    <3>3. t \in Sids \ {header}
      BY <1>0, <3>2 DEF TypeOK
    <3>4. Believed' = [Believed EXCEPT ![t] = <<>>]
      BY <3>2, <3>3 DEF Believed
    <3> QED
      BY <1>1, <3>3, <3>4
  <2> QED
    BY <2>1, <2>2
<1> QED
  BY <1>1, <1>2, <1>3, <1>4, <1>5, <1>6, <1>7, Zenon DEF Promise!Attach, request

\* A new session starts without tokens; those erased leave none.
LEMMA InsertBelieved ==
    ASSUME TypeOK, NEW gone \in SUBSET live, NEW s \in Sids \ live, NEW id,
           Insert(s, id, gone)
    PROVE  \A t \in Sids : Believed'[t] = IF t \in gone THEN <<>> ELSE Believed[t]
<1> TAKE t \in Sids
<1>1. Believed'[t] = IF t \in live' THEN tokens'[t] ELSE <<>>
  BY DEF Believed
<1>2. Believed[t] = IF t \in live THEN tokens[t] ELSE <<>>
  BY DEF Believed
<1>3. /\ live' = (live \ gone) \union {s} /\ s \notin gone
      /\ tokens'[t] = IF t \in gone \union {s} THEN <<>> ELSE tokens[t]
  BY DEF Insert, Erased
<1> QED
  BY <1>1, <1>2, <1>3

\* The three ways in which a named, unknown conversation gets a sequence or not.
LEMMA EvictingAttaches ==
    ASSUME IInv, AgesDistinct, [Next]_vars,
           \/ \E id \in Seqs : AllocSession(id) \/ EvictThenAlloc(id)
           \/ EvictThenStateless
    PROVE  Promise!Attach
<1>0. TypeOK /\ LRU \subseteq live
  BY DEF IInv, LRU
<1>1. CASE \E id \in Seqs : AllocSession(id)
  <2>1. PICK id \in Seqs : AllocSession(id)
    BY <1>1
  <2> DEFINE gone == IF Cardinality(live) >= Capacity THEN LRU ELSE {}
  <2>2. /\ pc = "resolve" /\ pc' = "trim" /\ header \in Sids \ live /\ sess' = header
        /\ Insert(header, id, gone) /\ UNCHANGED request /\ generated' = generated
    BY <2>1 DEF AllocSession, work
  <2>3. gone \in {{}, LRU} /\ gone \in SUBSET live
    BY <1>0
  <2> HIDE DEF gone
  <2>4. \A t \in Sids : Believed'[t] = IF t \in gone THEN <<>> ELSE Believed[t]
    BY <1>0, <2>2, <2>3, InsertBelieved
  <2> QED
    BY <2>2, <2>3, <2>4, EvictionAttaches
<1>2. CASE \E id \in Seqs : EvictThenAlloc(id)
  <2>1. PICK id \in Seqs : EvictThenAlloc(id)
    BY <1>2
  <2>2. /\ pc = "resolve" /\ pc' = "trim" /\ header \in Sids \ live /\ sess' = header
        /\ Insert(header, id, LRU) /\ UNCHANGED request /\ generated' = generated
    BY <2>1 DEF EvictThenAlloc, work
  <2>3. \A t \in Sids : Believed'[t] = IF t \in LRU THEN <<>> ELSE Believed[t]
    BY <1>0, <2>2, InsertBelieved
  <2> QED
    BY <2>2, <2>3, EvictionAttaches
<1>3. CASE EvictThenStateless
  <2>1. /\ pc = "resolve" /\ pc' = "trim" /\ header \in Sids \ live
        /\ UNCHANGED request /\ generated' = generated /\ sess' = sess
        /\ live' = live \ LRU /\ tokens' = Erased(tokens, LRU, <<>>)
    BY <1>3 DEF EvictThenStateless, work, plan
  <2>2. sess' = NoSid
    BY <2>1 DEF IInv, InFlightContext
  <2>3. \A t \in Sids : Believed'[t] = IF t \in LRU THEN <<>> ELSE Believed[t]
    BY <2>1 DEF Believed, Erased
  <2> QED
    BY <2>1, <2>2, <2>3, EvictionAttaches
<1> QED
  BY <1>1, <1>2, <1>3

-----------------------------------------------------------------------------
\* Cutting the session to the common prefix recalls what it remembers of the prompt.
LEMMA TrimRecalls == ASSUME IInv, [Next]_vars, TrimSession  PROVE Promise!Recall
<1> DEFINE k == CommonPrefix(tokens[sess], prompt)
<1>0. /\ TypeOK /\ tokens \in [Sids -> Seq(Token)] /\ prompt \in Seq(Token) /\ live \subseteq Sids
  BY DEF IInv, TypeOK
<1>1. /\ Memory = Believed /\ Context = Claimed
      /\ Memory' = Believed' /\ Context' = Claimed'
  BY Mapped
<1>2. Stage = "attached" /\ Stage' = "reading"
  BY DEF Stage, TrimSession
<1>3. sess \in live /\ sess \in Sids /\ sess # NoSid /\ tokens[sess] \in Seq(Token)
  BY <1>0 DEF TrimSession, TypeOK
<1>4. /\ k \in 0 .. Len(tokens[sess]) /\ k <= Len(prompt)
      /\ \A i \in 1 .. k : tokens[sess][i] = prompt[i]
      /\ (k < Len(tokens[sess]) /\ k < Len(prompt)) => tokens[sess][k + 1] # prompt[k + 1]
  BY <1>0, <1>3, CommonPrefixSpec
<1>5. n_past' = k /\ fed' = 0 /\ pc' = "budget" /\ prompt' = prompt /\ live' = live
  BY DEF TrimSession, IInv, InFlightContext, work, request
<1>6. tokens' = [tokens EXCEPT ![sess] = SubSeq(tokens[sess], 1, k)]
  <2>1. CASE k < Len(tokens[sess])
    BY <2>1 DEF TrimSession
  <2>2. CASE k = Len(tokens[sess])
    <3>1. SubSeq(tokens[sess], 1, k) = tokens[sess]
      BY <1>3, <2>2, FirstAll
    <3>2. tokens' = tokens
      BY <2>2, <1>3 DEF TrimSession
    <3> QED
      BY <1>0, <3>1, <3>2
  <2> QED
    BY <1>3, <1>4, <2>1, <2>2
<1> HIDE DEF k
<1>7. SubSeq(tokens[sess], 1, k) = SubSeq(prompt, 1, k)
  BY <1>0, <1>3, <1>4, SameFirst
<1>8. Believed' = [Believed EXCEPT ![sess] = SubSeq(prompt, 1, k)]
  BY <1>0, <1>3, <1>5, <1>6, <1>7 DEF Believed
<1>9. Claimed' = SubSeq(prompt, 1, k)
  <2>1. k + 0 = k
    BY <1>4
  <2> QED
    BY <1>5, <2>1 DEF Claimed
<1>10. Believed[sess] = tokens[sess] /\ k \in 0 .. Len(prompt)
  BY <1>0, <1>3, <1>4 DEF Believed
<1>11. Promise!Remembers(sess, k)
  BY <1>1, <1>3, <1>4, <1>7, <1>10 DEF Promise!Remembers, Promise!First
<1>12. /\ Context' = Promise!First(prompt, k)
       /\ Memory' = Promise!Remembering(sess, Promise!First(prompt, k))
  BY <1>1, <1>3, <1>8, <1>9 DEF Promise!Remembering, Promise!First
<1>13. UNCHANGED <<header, fallback, prompt, sess, generated>>
  BY DEF TrimSession, request, work
<1> QED
  BY <1>2, <1>10, <1>11, <1>12, <1>13, Zenon DEF Promise!Recall

\* Without a session nothing is recalled.
LEMMA ClearRecalls == ASSUME IInv, [Next]_vars, ClearStateless  PROVE Promise!Recall
<1>1. /\ Memory = Believed /\ Context = Claimed
      /\ Memory' = Believed' /\ Context' = Claimed'
  BY Mapped
<1>2. Stage = "attached" /\ Stage' = "reading"
  BY DEF Stage, ClearStateless
<1>3. /\ sess = NoSid /\ n_past' = 0 /\ fed' = 0 /\ pc' = "budget" /\ prompt' = prompt
      /\ prompt \in Seq(Token) /\ UNCHANGED <<live, tokens>>
      /\ UNCHANGED <<header, fallback, prompt, sess, generated>>
  BY DEF ClearStateless, IInv, InFlightContext, TypeOK, work, request, plan, table
<1>4. Believed' = Believed /\ Claimed' = SubSeq(prompt, 1, 0)
  BY <1>3 DEF Believed, Claimed
<1>5. 0 \in 0 .. Len(prompt)
  BY <1>3
<1>6. Promise!Remembers(sess, 0)
  BY <1>3 DEF Promise!Remembers
<1>7. /\ Context' = Promise!First(prompt, 0)
      /\ Memory' = Promise!Remembering(sess, Promise!First(prompt, 0))
  BY <1>1, <1>3, <1>4 DEF Promise!Remembering, Promise!First
<1> QED
  BY <1>2, <1>3, <1>5, <1>6, <1>7, Zenon DEF Promise!Recall

\* A chunk of the prefill reads on in the prompt.
LEMMA ChunkReads == ASSUME IInv, [Next]_vars, PrefillChunk  PROVE Promise!Read
<1>1. /\ Memory = Believed /\ Context = Claimed
      /\ Memory' = Believed' /\ Context' = Claimed'
  BY Mapped
<1>2. Stage = "reading" /\ Stage' = "reading"
  BY DEF Stage, PrefillChunk
<1>3. /\ n_past \in Nat /\ fed \in Nat /\ n_past + fed < Len(prompt) /\ fed' = fed + ChunkLen
      /\ prompt \in Seq(Token) /\ pc = "prefill" /\ generated = <<>>
      /\ UNCHANGED <<live, tokens, pc, header, fallback, prompt, sess, n_past, generated>>
  BY DEF PrefillChunk, NFeed, IInv, TypeOK, InFlightContext, request, plan, table
<1>4. ChunkLen \in Nat /\ ChunkLen > 0 /\ ChunkLen <= Len(prompt) - n_past - fed
  BY <1>3, ServerAssumption DEF ChunkLen, NFeed
<1>5. Believed' = Believed /\ Claimed' = SubSeq(prompt, 1, n_past + fed')
  BY <1>3 DEF Believed, Claimed
<1>6. Len(Claimed) = n_past + fed
  <2>1. n_past + fed \in 0 .. Len(prompt)
    BY <1>3
  <2> QED
    BY <1>3, <2>1, FirstSpec DEF Claimed
<1>7. n_past + fed' \in Len(Claimed) + 1 .. Len(prompt)
  BY <1>3, <1>4, <1>6
<1> QED
  BY <1>1, <1>2, <1>3, <1>5, <1>7, Zenon DEF Promise!Read, Promise!First

\* Appending to a concatenation appends to its second part.
LEMMA ConcatAppend ==
    ASSUME NEW S, NEW s \in Seq(S), NEW t \in Seq(S), NEW x \in S
    PROVE  s \o Append(t, x) = Append(s \o t, x)
  OBVIOUS

\* A sampled token is said in the context of prompt and answer.
LEMMA TokenSays ==
    ASSUME IInv, [Next]_vars, NEW t \in Token, NEW stopHit \in BOOLEAN,
           GenerateToken(t, stopHit)
    PROVE  Promise!Say
<1>1. /\ Memory = Believed /\ Context = Claimed
      /\ Memory' = Believed' /\ Context' = Claimed'
  BY Mapped
<1>2. Stage = "reading" /\ Stage' = "reading"
  BY DEF Stage, GenerateToken
<1>3. /\ prompt \in Seq(Token) /\ generated \in Seq(Token) /\ generated' = Append(generated, t)
      /\ pc = "generate" /\ pc' \in {"generate", "persist"}
      /\ UNCHANGED <<live, tokens, header, fallback, prompt, sess>>
  BY DEF GenerateToken, IInv, TypeOK, request, plan, table
<1>4. /\ Believed' = Believed
      /\ Claimed = prompt \o generated /\ Claimed' = prompt \o Append(generated, t)
  BY <1>3 DEF Believed, Claimed
<1>5. Claimed' = Append(Claimed, t)
  BY <1>3, <1>4, ConcatAppend
<1> QED
  BY <1>1, <1>2, <1>3, <1>4, <1>5, Zenon DEF Promise!Say

\* The three ends: the session records the whole context, keeps what was recalled,
\* or restarts empty.
LEMMA EndsFinish ==
    ASSUME IInv, [Next]_vars, Persist \/ PrefillFails \/ ContextExhausted
    PROVE  Promise!Finish
<1>0. /\ TypeOK /\ tokens \in [Sids -> Seq(Token)] /\ live \subseteq Sids
      /\ sess \in live \union {NoSid} /\ NoSid \notin live
  BY ServerAssumption DEF IInv, TypeOK
<1>1. /\ Memory = Believed /\ Context = Claimed
      /\ Memory' = Believed' /\ Context' = Claimed'
  BY Mapped
<1>2. /\ Stage = "reading" /\ Stage' = "over" /\ Claimed' = <<>>
      /\ UNCHANGED <<live, header, fallback, prompt, sess, generated>>
  BY DEF Stage, Claimed, Persist, PrefillFails, ContextExhausted, request, plan, table, work
<1>3. ASSUME NEW l, tokens' = IF sess # NoSid THEN [tokens EXCEPT ![sess] = l] ELSE tokens
      PROVE  Memory' = Promise!Remembering(sess, l)
  <2>1. CASE sess = NoSid
    BY <1>1, <1>2, <1>3, <2>1 DEF Believed, Promise!Remembering
  <2>2. CASE sess # NoSid
    <3>1. Believed' = [Believed EXCEPT ![sess] = l]
      BY <1>0, <1>2, <1>3, <2>2 DEF Believed
    <3> QED
      BY <1>1, <2>2, <3>1 DEF Promise!Remembering
  <2> QED
    BY <2>1, <2>2
<1>4. CASE Persist
  <2>1. Claimed = prompt \o generated
    BY <1>4 DEF Persist, Claimed
  <2>2. Memory' = Promise!Remembering(sess, prompt \o generated)
    BY <1>3, <1>4 DEF Persist
  <2> QED
    BY <1>1, <1>2, <2>1, <2>2, Zenon DEF Promise!Finish
<1>5. CASE PrefillFails
  <2>1. /\ n_past \in Nat /\ fed \in Nat /\ n_past + fed < Len(prompt) /\ prompt \in Seq(Token)
    BY <1>5 DEF PrefillFails, NFeed, IInv, TypeOK
  <2>2. n_past + fed \in 0 .. Len(prompt)
    BY <2>1
  <2>3. Len(Claimed) < Len(prompt)
    BY <1>5, <2>1, <2>2, FirstSpec DEF Claimed, PrefillFails
  <2>4. Believed' = Believed
    BY <1>5 DEF PrefillFails, Believed, table
  <2> QED
    BY <1>1, <1>2, <2>3, <2>4, Zenon DEF Promise!Finish
<1>6. CASE ContextExhausted
  <2>1. generated = <<>>
    BY <1>6 DEF ContextExhausted, IInv, InFlightContext
  <2>2. Memory' = Promise!Remembering(sess, <<>>)
    BY <1>3, <1>6 DEF ContextExhausted
  <2> QED
    BY <1>1, <1>2, <2>1, <2>2, Zenon DEF Promise!Finish
<1> QED
  BY <1>4, <1>5, <1>6

\* complete_stream returns.
LEMMA ReplyAnswers == ASSUME IInv, [Next]_vars, Reply  PROVE Promise!Answer
<1>1. /\ Memory = Believed /\ Context = Claimed
      /\ Memory' = Believed' /\ Context' = Claimed'
  BY Mapped
<1>2. Stage = "over" /\ Stage' = "idle" /\ Believed' = Believed /\ Claimed' = <<>>
  BY DEF Stage, Reply, Believed, Claimed, table
<1> QED
  BY <1>1, <1>2 DEF Promise!Answer, Promise!Idle, Reply

\* The other stages change nothing that the promise speaks of.
LEMMA QuietSteps ==
    ASSUME IInv, [Next]_vars,
           \/ BeginEmpty \/ AcceptBudget \/ PrefillDone \/ GenerateFails \/ GenerateEos
           \/ GenerateBudgetSpent \/ UNCHANGED vars
    PROVE  UNCHANGED Promise!conversationVars
<1>1. /\ Memory = Believed /\ Context = Claimed
      /\ Memory' = Believed' /\ Context' = Claimed'
  BY Mapped
<1>2. UNCHANGED <<live, tokens, header, fallback, prompt, sess, n_past, fed, generated>>
  BY DEF BeginEmpty, AcceptBudget, PrefillDone, GenerateFails, GenerateEos,
     GenerateBudgetSpent, vars, table, request, plan, work
<1>3. Believed' = Believed
  BY <1>2 DEF Believed
<1>4. Stage' = Stage /\ Claimed' = Claimed
  <2>1. CASE BeginEmpty \/ UNCHANGED vars
    BY <1>2, <2>1 DEF BeginEmpty, vars, Stage, Claimed
  <2>2. CASE AcceptBudget
    BY <1>2, <2>2 DEF AcceptBudget, Stage, Claimed
  <2>3. CASE PrefillDone
    <3>1. /\ n_past \in Nat /\ fed \in Nat /\ prompt \in Seq(Token)
          /\ n_past + fed <= Len(prompt) /\ generated = <<>> /\ fed >= Len(prompt) - n_past
      BY <2>3 DEF PrefillDone, NFeed, IInv, TypeOK, InFlightContext
    <3>2. n_past + fed = Len(prompt)
      BY <3>1
    <3>3. SubSeq(prompt, 1, n_past + fed) = prompt
      BY <3>1, <3>2, FirstAll
    <3>4. prompt \o generated = prompt
      BY <3>1
    <3> QED
      BY <1>2, <2>3, <3>3, <3>4 DEF PrefillDone, Stage, Claimed
  <2>4. CASE GenerateFails \/ GenerateEos \/ GenerateBudgetSpent
    BY <1>2, <2>4 DEF GenerateFails, GenerateEos, GenerateBudgetSpent, Stage, Claimed
  <2> QED
    BY <2>1, <2>2, <2>3, <2>4
<1> QED
  BY <1>1, <1>2, <1>3, <1>4 DEF Promise!conversationVars

\* Every step of complete_stream is a step of the promise or changes nothing in it.
LEMMA PromiseStep ==
    IInv /\ AgesDistinct /\ [Next]_vars => [Promise!ConversationNext]_(Promise!conversationVars)
<1> SUFFICES ASSUME IInv, AgesDistinct, [Next]_vars
             PROVE  Promise!ConversationNext \/ UNCHANGED Promise!conversationVars
  OBVIOUS
<1>1. CASE ClientRequest
  BY <1>1, BeginAsks, QuietSteps DEF ClientRequest, Promise!ConversationNext
<1>2. CASE Resolve
  <2>1. Promise!Attach
    BY <1>2, FindAttaches, EvictingAttaches, MatchAttaches, NoSessionAttaches DEF Resolve
  <2> QED
    BY <2>1 DEF Promise!ConversationNext
<1>3. CASE Compute
  BY <1>3, TrimRecalls, ClearRecalls, ChunkReads, TokenSays, EndsFinish, ReplyAnswers, QuietSteps
     DEF Compute, Promise!ConversationNext
<1>4. CASE UNCHANGED vars
  BY <1>4, QuietSteps
<1> QED
  BY <1>1, <1>2, <1>3, <1>4 DEF Next

\* At first nothing is remembered.
LEMMA PromiseInit == Init => Promise!ConversationInit
<1> SUFFICES ASSUME Init  PROVE Promise!ConversationInit
  OBVIOUS
<1>1. Memory = Believed /\ Context = Claimed
  BY InitIInv, MemoryIsBelieved, ContextIsClaimed
<1>2. Believed = [s \in Sids |-> <<>>] /\ Claimed = <<>> /\ Stage = "idle"
  BY DEF Init, Believed, Claimed, Stage
<1> QED
  BY <1>1, <1>2 DEF Init, Promise!ConversationInit, Promise!Idle

\* The session cache of complete_stream, with its sequence ids, eviction, trimming,
\* chunks and failures, implements Conversations: whatever the order of requests, a
\* request reads its own conversation's memory, its prompt and its answer only, and
\* leaves every other conversation alone but one that is evicted whole.
THEOREM CacheKeepsPromise == Spec => CacheIsPrivate
<1>1. Init => AgesDistinct
  BY DEF Init, AgesDistinct
<1>2. Spec => [](IInv /\ AgesDistinct)
  BY <1>1, InitIInv, NextIInv, AgesStep, PTL DEF Spec
<1> QED
  BY <1>2, PromiseInit, PromiseStep, PTL DEF Spec, CacheIsPrivate, Promise!ConversationSpec

=============================================================================
