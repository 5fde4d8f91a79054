---------------------------- MODULE SessionServer ----------------------------
(***************************************************************************)
(* The inference server's session-keyed KV cache: SessionTable together    *)
(* with Server::Impl::complete_stream, which resolves a request to a       *)
(* session, reuses the common token prefix, prefills the rest in chunks of *)
(* n_batch, generates, and records what the sequence now holds.            *)
(*                                                                         *)
(* complete_stream runs under infer_mu from its first line to its return,  *)
(* so one request is in flight at a time; pc names the stage it is in.     *)
(* HTTP threads waiting for the mutex are the nondeterministic choice of   *)
(* the next request in Begin.                                              *)
(***************************************************************************)
EXTENDS SeqAllocator, Sequences

CONSTANTS
    Sids,        \* values of the X-Session-Id header
    NoSid,       \* the empty header
    Token,       \* vocabulary
    NCtx,        \* llama_n_ctx: cells of the unified KV pool
    NBatch,      \* llama_n_batch: largest batch of one llama_decode
    MaxPrompt,   \* bound: length of the prompts considered
    MaxTokens,   \* the values of "max_tokens" considered (any int is legal)
    Word         \* modulus of uint32_t arithmetic

ASSUME ServerAssumption ==
    /\ NoSid \notin Sids
    /\ NCtx \in Nat \ {0}
    /\ NBatch \in Nat \ {0}
    /\ MaxPrompt \in Nat \ {0}
    /\ MaxTokens \subseteq Int
    /\ Word \in Nat \ {0}

VARIABLES
    in_use, cursor,            \* seq_alloc_: in_use_, next_
    live,                      \* keys of sessions_.map_
    seqOf, tokens, age,        \* Session::seq_id, ::tokens, ::last_used
    kv,                        \* llama memory: tokens by position, per sequence
    logits,                    \* the context the logits buffer was computed for
    pc,                        \* stage of the request under infer_mu
    header,                    \* session_id argument (NoSid when empty)
    fallback,                  \* allow_session_fallback
    prompt, max_tokens,        \* prompt_tokens and the token budget
    sess, seq, n_past,         \* sess (NoSid for nullptr), seq, n_past
    fed,                       \* tokens prefilled so far: start of the chunk loop
    generated,                 \* tokens decoded by the generation loop
    failed,                    \* a llama_decode of this request failed
    status                     \* HTTP status of the last finished request

alloc   == <<in_use, cursor>>
table   == <<live, seqOf, tokens, age>>
llama   == <<kv, logits>>
request == <<header, fallback, prompt>>
plan    == <<max_tokens, sess, seq, n_past>>
work    == <<fed, generated, failed>>
vars    == <<alloc, table, llama, pc, request, plan, work, status>>

Prompts == UNION {[1 .. n -> Token] : n \in 1 .. MaxPrompt}

NoSeq == 0      \* seqOf of a key that is not in the table

-----------------------------------------------------------------------------
(* llama.cpp, as complete_stream uses it *)

\* Cells in use in the unified pool: the sum of the sequences' lengths.
PoolUsed ==
    LET sum[q \in -1 .. MaxSeqs - 1] ==
            IF q < 0 THEN 0 ELSE Len(kv[q]) + sum[q - 1]
    IN  sum[MaxSeqs - 1]

\* Mutant of SeqRm: removes from position k - 1.
SeqRmOneMore(mem, q, k) == [mem EXCEPT ![q] = SubSeq(@, 1, k - 1)]

\* The calls llama_memory_seq_rm(mem, q, k, -1): positions k and up leave
\* sequence q.
SeqRm(mem, q, k) == [mem EXCEPT ![q] = SubSeq(@, 1, k)]

\* llama_decode accepts a batch whose positions continue the sequence and
\* for which the pool has free cells; otherwise it reports an error.
DecodeOK(q, pos, n) ==
    /\ pos = Len(kv[q])
    /\ PoolUsed + n <= NCtx

-----------------------------------------------------------------------------
(* SessionTable *)

\* touch(s): s becomes the most recently used (age 0 is the most recent).
Touched(keys, s) ==
    [t \in Sids |-> IF t = s THEN 0
                    ELSE IF t \in keys /\ (s \notin keys \/ age[t] < age[s])
                         THEN age[t] + 1
                         ELSE age[t]]

\* std::min_element over last_used: the least recently used session, none
\* when the table is empty.
LRU == {v \in live : \A t \in live : age[t] <= age[v]}

\* The sequence ids a set of sessions owns.
SeqsOf(S) == {seqOf[s] : s \in S}

\* Mutant of FreeKV: the eviction forgets the KV.
FreeKVForgotten(Q) == kv

\* The calls llama_memory_seq_rm(mem, q, -1, -1), for every sequence q of Q.
FreeKV(Q) == [q \in Seqs |-> IF q \in Q THEN <<>> ELSE kv[q]]

\* The fields of the sessions in gone are destroyed with them.
Erased(f, gone, default) == [t \in Sids |-> IF t \in gone THEN default ELSE f[t]]

\* map_[s] = a fresh session owning id, once the sessions in gone are erased.
Insert(s, id, gone) ==
    /\ live' = (live \ gone) \union {s}
    /\ seqOf' = [t \in Sids |-> IF t = s THEN id ELSE Erased(seqOf, gone, NoSeq)[t]]
    /\ tokens' = Erased(tokens, gone \union {s}, <<>>)
    /\ age' = Erased(Touched(live \ gone, s), gone, 0)

\* Mutant of CommonPrefix: compares lengths, not tokens.
CommonPrefixByLength(a, b) == IF Len(a) < Len(b) THEN Len(a) ELSE Len(b)

\* The length of the longest common prefix of two token sequences.
CommonPrefix(a, b) ==
    CHOOSE k \in 0 .. Len(a) :
        /\ k <= Len(b)
        /\ \A i \in 1 .. k : a[i] = b[i]
        /\ (k < Len(a) /\ k < Len(b)) => a[k + 1] # b[k + 1]

\* Mutant of HoldsPrefix: lengths only.
HoldsPrefixByLength(s, p) ==
    /\ s \in live
    /\ tokens[s] # <<>>
    /\ Len(tokens[s]) <= Len(p)

\* find_by_prefix: s holds a non-empty prefix of p, and none is longer.
HoldsPrefix(s, p) ==
    /\ s \in live
    /\ tokens[s] # <<>>
    /\ Len(tokens[s]) <= Len(p)
    /\ \A i \in 1 .. Len(tokens[s]) : tokens[s][i] = p[i]

BestPrefix(s, p) ==
    /\ HoldsPrefix(s, p)
    /\ \A t \in Sids : HoldsPrefix(t, p) => Len(tokens[t]) <= Len(tokens[s])

-----------------------------------------------------------------------------
Init ==
    /\ in_use = {} /\ cursor = 1
    /\ live = {}
    /\ seqOf = [s \in Sids |-> NoSeq]
    /\ tokens = [s \in Sids |-> <<>>]
    /\ age = [s \in Sids |-> 0]
    /\ kv = [q \in Seqs |-> <<>>]
    /\ logits = <<>>
    /\ pc = "idle"
    /\ header = NoSid /\ fallback = FALSE /\ prompt = <<>>
    /\ max_tokens = 0 /\ sess = NoSid /\ seq = 0 /\ n_past = 0
    /\ fed = 0 /\ generated = <<>> /\ failed = FALSE
    /\ status = 200

\* A handler takes infer_mu with a tokenised, non-empty prompt.  Only
\* /v1/completions forbids the prefix fallback, and it never has a session id.
Begin(h, fb, p, m) ==
    /\ pc = "idle"
    /\ h # NoSid => fb
    /\ header' = h /\ fallback' = fb /\ prompt' = p
    /\ max_tokens' = m
    /\ pc' = "resolve"
    /\ UNCHANGED <<alloc, table, llama, sess, seq, n_past, work, status>>

\* The prompt tokenises to nothing: complete_stream returns at once, before
\* any handler can count it as a failure (stats->prompt_tokens stays 0).
BeginEmpty ==
    /\ pc = "idle"
    /\ status' = 200
    /\ UNCHANGED <<alloc, table, llama, pc, request, plan, work>>

\* sessions_.find(session_id) succeeds.
FindSession ==
    /\ pc = "resolve" /\ header \in live
    /\ age' = Touched(live, header)
    /\ sess' = header
    /\ pc' = "trim"
    /\ UNCHANGED <<alloc, live, seqOf, tokens, llama, request, max_tokens, seq,
                   n_past, work, status>>

\* New session, take() finds an id at once.  insert() evicts the LRU session
\* when the table is full; its KV is freed and its id returned.
AllocSession(id) ==
    LET gone == IF Cardinality(live) >= Capacity THEN LRU ELSE {}
    IN  /\ pc = "resolve" /\ header \in Sids \ live
        /\ Takes(in_use, cursor, id)
        /\ Insert(header, id, gone)
        /\ in_use' = (in_use \union {id}) \ SeqsOf(gone)
        /\ cursor' = CursorAfter(id)
        /\ kv' = FreeKV(SeqsOf(gone))
        /\ sess' = header
        /\ pc' = "trim"
        /\ UNCHANGED <<logits, request, max_tokens, seq, n_past, work, status>>

\* Mutant of FreedIds: give_back is missing.
FreedIdsNotGivenBack == in_use

\* in_use_ after evict_lru and give_back.
FreedIds == in_use \ SeqsOf(LRU)

\* New session, take() returned nullopt: evict_lru, free its KV, give the id
\* back and take again.
EvictThenAlloc(id) ==
    /\ pc = "resolve" /\ header \in Sids \ live
    /\ TakeFails(in_use, cursor)
    /\ Takes(FreedIds, cursor, id)
    /\ Insert(header, id, LRU)
    /\ in_use' = FreedIds \union {id}
    /\ cursor' = CursorAfter(id)
    /\ kv' = FreeKV(SeqsOf(LRU))
    /\ sess' = header
    /\ pc' = "trim"
    /\ UNCHANGED <<logits, request, max_tokens, seq, n_past, work, status>>

\* The second take() fails as well: the request falls back to stateless, and
\* the evicted session is gone all the same.
EvictThenStateless ==
    /\ pc = "resolve" /\ header \in Sids \ live
    /\ TakeFails(in_use, cursor)
    /\ TakeFails(FreedIds, cursor)
    /\ live' = live \ LRU
    /\ seqOf' = Erased(seqOf, LRU, NoSeq)
    /\ tokens' = Erased(tokens, LRU, <<>>)
    /\ age' = Erased(age, LRU, 0)
    /\ in_use' = FreedIds
    /\ kv' = FreeKV(SeqsOf(LRU))
    /\ pc' = "trim"
    /\ UNCHANGED <<cursor, logits, request, plan, work, status>>

\* No header: find_by_prefix picks the session holding the longest prefix.
MatchPrefix(s) ==
    /\ pc = "resolve" /\ header = NoSid /\ fallback
    /\ BestPrefix(s, prompt)
    /\ age' = Touched(live, s)
    /\ sess' = s
    /\ pc' = "trim"
    /\ UNCHANGED <<alloc, live, seqOf, tokens, llama, request, max_tokens, seq,
                   n_past, work, status>>

\* No header and no session to continue: stateless.
NoSession ==
    /\ pc = "resolve" /\ header = NoSid
    /\ fallback => \A s \in Sids : ~HoldsPrefix(s, prompt)
    /\ pc' = "trim"
    /\ UNCHANGED <<alloc, table, llama, request, plan, work, status>>

\* Drop what the session holds beyond the common prefix with this prompt.
TrimSession ==
    /\ pc = "trim" /\ sess # NoSid
    /\ LET k == CommonPrefix(tokens[sess], prompt)
       IN  /\ n_past' = k
           /\ IF k < Len(tokens[sess])
              THEN /\ kv' = SeqRm(kv, seqOf[sess], k)
                   /\ tokens' = [tokens EXCEPT ![sess] = SubSeq(@, 1, k)]
              ELSE UNCHANGED <<kv, tokens>>
    /\ seq' = seqOf[sess]
    /\ pc' = "budget"
    /\ UNCHANGED <<alloc, live, seqOf, age, logits, request, max_tokens, sess,
                   work, status>>

\* The stateless path clears sequence 0 only.
ClearStateless ==
    /\ pc = "trim" /\ sess = NoSid
    /\ kv' = FreeKV({0})
    /\ pc' = "budget"
    /\ UNCHANGED <<alloc, table, logits, request, plan, work, status>>

\* prompt + max_tokens in uint32_t against n_ctx; the budget is cut to what
\* the context leaves.
OverBudget == (Len(prompt) + max_tokens) % Word >= NCtx
CutBudget  == NCtx - Len(prompt) - 1

AcceptBudget ==
    /\ pc = "budget"
    /\ ~OverBudget \/ CutBudget > 0
    /\ max_tokens' = IF OverBudget THEN CutBudget ELSE max_tokens
    /\ pc' = "prefill"
    /\ UNCHANGED <<alloc, table, llama, request, sess, seq, n_past, work, status>>

\* No room to generate: the session restarts empty, the text is empty.
ContextExhausted ==
    /\ pc = "budget"
    /\ OverBudget /\ CutBudget <= 0
    /\ max_tokens' = CutBudget
    /\ IF sess # NoSid
       THEN /\ kv' = FreeKV({seq})
            /\ tokens' = [tokens EXCEPT ![sess] = <<>>]
       ELSE UNCHANGED <<kv, tokens>>
    /\ pc' = "reply"
    /\ UNCHANGED <<alloc, live, seqOf, age, logits, request, sess, seq, n_past,
                   work, status>>

\* Mutant of ChunkLen: only whole batches are fed.
WholeBatches == ((Len(prompt) - n_past - fed) \div NBatch) * NBatch

\* n_feed, and the length of the chunk that starts at fed.
NFeed    == Len(prompt) - n_past
ChunkLen == IF NFeed - fed < NBatch THEN NFeed - fed ELSE NBatch

\* One batch of the prefill loop.  Logits are requested for the last prompt
\* token only, so an inner chunk leaves no logits behind.
PrefillChunk ==
    /\ pc = "prefill" /\ fed < NFeed
    /\ DecodeOK(seq, n_past + fed, ChunkLen)
    /\ kv' = [kv EXCEPT ![seq] =
                @ \o SubSeq(prompt, n_past + fed + 1, n_past + fed + ChunkLen)]
    /\ logits' = IF fed + ChunkLen = NFeed THEN kv'[seq] ELSE <<>>
    /\ fed' = fed + ChunkLen
    /\ UNCHANGED <<alloc, table, pc, request, plan, generated, failed, status>>

\* llama_decode fails on a chunk: complete_stream returns at once, leaving
\* the chunks already decoded in the KV and the session's tokens as they are.
PrefillFails ==
    /\ pc = "prefill" /\ fed < NFeed
    /\ ~DecodeOK(seq, n_past + fed, ChunkLen)
    /\ logits' = <<>>
    /\ failed' = TRUE
    /\ pc' = "reply"
    /\ UNCHANGED <<alloc, table, kv, request, plan, fed, generated, status>>

PrefillDone ==
    /\ pc = "prefill" /\ fed >= NFeed
    /\ pc' = "generate"
    /\ UNCHANGED <<alloc, table, llama, request, plan, work, status>>

\* The sampler returns a token other than eos, and feeding it back succeeds.
\* When the text so far contains a stop sequence the loop ends here; only
\* /v1/completions passes no stop sequences.
GenerateToken(t, stopHit) ==
    /\ pc = "generate" /\ Len(generated) < max_tokens
    /\ stopHit => fallback
    /\ DecodeOK(seq, Len(prompt) + Len(generated), 1)
    /\ generated' = Append(generated, t)
    /\ LET grown == [kv EXCEPT ![seq] = Append(@, t)]
       IN  /\ kv' = IF stopHit
                    THEN SeqRm(grown, seq, Len(prompt) + Len(generated'))
                    ELSE grown
           /\ logits' = grown[seq]
    /\ pc' = IF stopHit THEN "persist" ELSE "generate"
    /\ UNCHANGED <<alloc, table, request, plan, fed, failed, status>>

\* Feeding the sampled token back fails: generation stops, the text so far
\* is returned.
GenerateFails ==
    /\ pc = "generate" /\ Len(generated) < max_tokens
    /\ ~DecodeOK(seq, Len(prompt) + Len(generated), 1)
    /\ logits' = <<>>
    /\ failed' = TRUE
    /\ pc' = "persist"
    /\ UNCHANGED <<alloc, table, kv, request, plan, fed, generated, status>>

\* The sampler returns eos.
GenerateEos ==
    /\ pc = "generate" /\ Len(generated) < max_tokens
    /\ pc' = "persist"
    /\ UNCHANGED <<alloc, table, llama, request, plan, work, status>>

GenerateBudgetSpent ==
    /\ pc = "generate" /\ Len(generated) >= max_tokens
    /\ pc' = "persist"
    /\ UNCHANGED <<alloc, table, llama, request, plan, work, status>>

\* Mutant of Persist: the generated tokens are not recorded.
PersistPromptOnly ==
    /\ pc = "persist"
    /\ tokens' = IF sess # NoSid THEN [tokens EXCEPT ![sess] = prompt] ELSE tokens
    /\ pc' = "reply"
    /\ UNCHANGED <<alloc, live, seqOf, age, llama, request, plan, work, status>>

\* The session records prompt and generated tokens as what its KV holds.
Persist ==
    /\ pc = "persist"
    /\ tokens' = IF sess # NoSid
                 THEN [tokens EXCEPT ![sess] = prompt \o generated]
                 ELSE tokens
    /\ pc' = "reply"
    /\ UNCHANGED <<alloc, live, seqOf, age, llama, request, plan, work, status>>

\* complete_stream returns and its locals die; infer_mu is free.  A handler
\* that answers in one piece maps an empty text to 503.
Reply ==
    /\ pc = "reply"
    /\ status' = IF generated = <<>> THEN 503 ELSE 200
    /\ header' = NoSid /\ fallback' = FALSE /\ prompt' = <<>>
    /\ max_tokens' = 0 /\ sess' = NoSid /\ seq' = 0 /\ n_past' = 0
    /\ fed' = 0 /\ generated' = <<>> /\ failed' = FALSE
    /\ pc' = "idle"
    /\ UNCHANGED <<alloc, table, llama>>

-----------------------------------------------------------------------------
Resolve ==
    \/ FindSession
    \/ \E id \in Seqs : AllocSession(id)
    \/ \E id \in Seqs : EvictThenAlloc(id)
    \/ EvictThenStateless
    \/ \E s \in Sids : MatchPrefix(s)
    \/ NoSession

Compute ==
    \/ TrimSession \/ ClearStateless
    \/ AcceptBudget \/ ContextExhausted
    \/ PrefillChunk \/ PrefillFails \/ PrefillDone
    \/ \E t \in Token, stopHit \in BOOLEAN : GenerateToken(t, stopHit)
    \/ GenerateFails \/ GenerateEos \/ GenerateBudgetSpent
    \/ Persist \/ Reply

ClientRequest ==
    \/ \E h \in Sids \union {NoSid}, fb \in BOOLEAN, p \in Prompts, m \in MaxTokens :
           Begin(h, fb, p, m)
    \/ BeginEmpty

Next == ClientRequest \/ Resolve \/ Compute

Spec == Init /\ [][Next]_vars

\* The thread that holds infer_mu keeps running; clients owe nothing.
FairSpec == Spec /\ WF_vars(Resolve \/ Compute)

=============================================================================
