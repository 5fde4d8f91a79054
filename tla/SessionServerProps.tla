-------------------------- MODULE SessionServerProps --------------------------
(***************************************************************************)
(* What makes the session-keyed KV cache correct, and what the repository  *)
(* says of it that the code does not keep.                                 *)
(***************************************************************************)
EXTENDS SessionServer

IsPrefixOf(s, t) == Len(s) <= Len(t) /\ \A i \in 1 .. Len(s) : s[i] = t[i]

\* The type invariant.  A session pointer held by complete_stream (sess) is
\* never dangling: it names an entry of the table.
TypeOK ==
    /\ in_use \subseteq SeqIds /\ cursor \in Seqs
    /\ live \subseteq Sids
    /\ seqOf \in [Sids -> Seqs]
    /\ tokens \in [Sids -> Seq(Token)]
    /\ age \in [Sids -> Nat]
    /\ kv \in [Seqs -> Seq(Token)]
    /\ logits \in Seq(Token)
    /\ pc \in {"idle", "resolve", "trim", "budget", "prefill", "generate",
               "persist", "reply"}
    /\ header \in Sids \union {NoSid} /\ fallback \in BOOLEAN
    /\ prompt \in Seq(Token) /\ max_tokens \in Int
    /\ sess \in live \union {NoSid} /\ seq \in Seqs /\ n_past \in Nat
    /\ fed \in Nat /\ generated \in Seq(Token) /\ failed \in BOOLEAN
    /\ status \in {200, 503}

-----------------------------------------------------------------------------
(* Properties the code has *)

\* Every conversation has a KV sequence of its own: the ids the allocator
\* believes in use are exactly those of the sessions in the table, no two
\* sessions share one, and none has the stateless sequence 0, through every
\* order of allocation, eviction and fallback in complete_stream.
SeqOwnership ==
    /\ in_use = SeqsOf(live)
    /\ \A s, t \in live : seqOf[s] = seqOf[t] => s = t
    /\ 0 \notin SeqsOf(live)

\* A sequence no session owns holds no tokens, so a recycled id never gives a
\* new conversation the context of the evicted one.
FreeSeqsAreEmpty == \A q \in SeqIds \ in_use : kv[q] = <<>>

\* The tokens a session believes cached are in the KV, position by position,
\* on its own sequence: the prefix the next turn skips was really decoded.
CachedTokensInKV == \A s \in live : IsPrefixOf(tokens[s], kv[seqOf[s]])

\* When take() found an id the table has room, so the eviction inside
\* SessionTable::insert, which complete_stream handles, never happens.
InsertNeverEvicts ==
    (pc = "resolve" /\ header \in Sids \ live /\ ~TakeFails(in_use, cursor))
        => Cardinality(live) < Capacity

\* A conversation is evicted only from a full cache: whatever was evicted before,
\* and although take() may overlook the very id that was just given back, at most
\* one of the sequences is idle when the eviction is over.
EvictionKeepsCacheFull ==
    [][live \ live' # {} => Cardinality(live') >= Capacity - 1]_vars

\* A request that fed at least one token samples from its own context: the
\* sequence holds exactly prompt and generated tokens, and so do the logits,
\* whatever was reused, dropped, chunked or left behind by failed requests.
DecodedContextIsRequest ==
    (pc = "generate" /\ (fed > 0 \/ generated # <<>>))
        => /\ kv[seq] = prompt \o generated
           /\ logits = kv[seq]

\* While a request is in flight, its sequence holds what the next step of
\* complete_stream relies on: the sequence is the session's (0 when there is
\* none); during prefill it starts with the part of the prompt skipped or fed
\* so far; from then on with the whole prompt and what was generated, the very
\* tokens Persist will record as cached.
InFlightContext ==
    /\ pc \in {"budget", "prefill", "generate", "persist"} =>
          seq = IF sess = NoSid THEN 0 ELSE seqOf[sess]
    /\ pc \in {"idle", "resolve"} => sess = NoSid
    /\ pc \in {"idle", "resolve", "trim"} => seq = 0 /\ n_past = 0
    /\ pc \in {"idle", "resolve", "trim", "budget"} => fed = 0
    /\ pc \in {"idle", "resolve", "trim", "budget", "prefill"} => generated = <<>>
    /\ pc \in {"budget", "prefill"} =>
          /\ n_past + fed <= Len(prompt)
          /\ Len(kv[seq]) >= n_past + fed
          /\ \A i \in 1 .. n_past + fed : kv[seq][i] = prompt[i]
    /\ pc \in {"generate", "persist"} => IsPrefixOf(prompt \o generated, kv[seq])

\* What a conversation remembers is what its sequence really holds of the tokens
\* the table lists for it.
Memory == [s \in Sids |-> IF s \in live
                          THEN SubSeq(kv[seqOf[s]], 1, Len(tokens[s])) ELSE <<>>]

\* The context of the request in flight is what its sequence really holds, up to
\* the position that complete_stream has reached.
Stage == CASE pc = "idle" -> "idle" [] pc = "resolve" -> "asked" [] pc = "trim" -> "attached"
           [] pc \in {"budget", "prefill", "generate", "persist"} -> "reading"
           [] OTHER -> "over"
Reached == IF pc \in {"generate", "persist"} THEN Len(prompt) + Len(generated) ELSE n_past + fed
Context == IF Stage = "reading" THEN SubSeq(kv[seq], 1, Reached) ELSE <<>>

Promise == INSTANCE Conversations
    WITH memory <- Memory, at <- Stage, from <- header, of <- sess,
         context <- Context, said <- generated

\* The cache keeps the promise of Conversations: a request continues the
\* conversation it names, or the one that remembers most of its prompt, is
\* computed from that memory, its prompt and its answer only, changes no other
\* conversation but one it evicts, and is remembered whole, through every
\* allocation, eviction, partial prefill, exhausted context and failed decode.
CacheIsPrivate == Promise!ConversationSpec

\* Every request that takes infer_mu gives it back: the prefill and the
\* generation loops end.
RequestCompletes == (pc # "idle") ~> (pc = "idle")

-----------------------------------------------------------------------------
(* Statements of the repository about this code *)

\* session.hpp on Session::tokens: "everything in KV on this seq".  Holds
\* between requests when every prompt fits one batch; fails otherwise.
TokensMatchKV == pc = "idle" => \A s \in live : tokens[s] = kv[seqOf[s]]

\* A cached turn samples from the logits of its own context, as a cold
\* request would (CONTRIBUTING.md counts anything else as a bug).
SampleFromOwnContext ==
    (pc = "generate" /\ Len(generated) < max_tokens)
        => logits = prompt \o generated

===============================================================================
