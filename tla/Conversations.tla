---------------------------- MODULE Conversations ----------------------------
(***************************************************************************)
(* What the inference server promises about its session cache: every       *)
(* conversation has a memory of its own, and a request is computed from    *)
(* what its conversation remembers of the prompt, then the prompt, then    *)
(* what it said itself, and from nothing else.  There are no sequence ids, *)
(* cells, batches, recencies or limits here.                               *)
(***************************************************************************)
EXTENDS Integers, Sequences

CONSTANTS Sids, NoSid, Token

VARIABLES
    memory,              \* the tokens each conversation remembers; <<>> for none
    at,                  \* the stage of the request in flight
    from, fallback, prompt,        \* what the request asks
    of,                  \* the conversation it continues, NoSid for none
    context,             \* the tokens the model has read for it
    said                 \* the tokens it has answered

conversationVars == <<memory, at, from, fallback, prompt, of, context, said>>

\* The first n tokens.
First(s, n) == SubSeq(s, 1, n)

\* Conversation s remembers something, and just the beginning of the prompt.
Matches(s) == /\ memory[s] # <<>> /\ Len(memory[s]) <= Len(prompt)
              /\ memory[s] = First(prompt, Len(memory[s]))

\* A request goes on with the conversation it names; if it names none and allows
\* it, with the one that remembers most of its prompt.  It may be left alone.
MayContinue(s) ==
    IF from # NoSid
    THEN s \in {from, NoSid}
    ELSE IF fallback /\ \E t \in Sids : Matches(t)
    THEN /\ s \in Sids /\ Matches(s)
         /\ \A t \in Sids : Matches(t) => Len(memory[t]) <= Len(memory[s])
    ELSE s = NoSid

\* What conversation s remembers of the prompt.
Remembers(s, n) ==
    IF s = NoSid THEN n = 0
    ELSE /\ n <= Len(memory[s]) /\ n <= Len(prompt)
         /\ First(memory[s], n) = First(prompt, n)
         /\ (n < Len(memory[s]) /\ n < Len(prompt)) => memory[s][n + 1] # prompt[n + 1]

\* Conversation s, if there is one, remembers exactly these tokens.
Remembering(s, tokens) ==
    IF s = NoSid THEN memory ELSE [memory EXCEPT ![s] = tokens]

Idle == /\ at = "idle" /\ from = NoSid /\ fallback = FALSE /\ prompt = <<>>
        /\ of = NoSid /\ context = <<>> /\ said = <<>>

ConversationInit == Idle /\ memory = [s \in Sids |-> <<>>]

Ask ==
    /\ at = "idle" /\ at' = "asked"
    /\ from' \in Sids \union {NoSid} /\ fallback' \in BOOLEAN /\ prompt' \in Seq(Token)
    /\ from' # NoSid => fallback'
    /\ UNCHANGED <<memory, of, context, said>>

\* The conversation is found or begun.  Only a named one that is not remembered
\* costs another one its memory, one at most, and all of it.
Attach ==
    /\ at = "asked" /\ at' = "attached"
    /\ of' \in Sids \union {NoSid} /\ MayContinue(of')
    /\ \/ UNCHANGED memory
       \/ /\ from # NoSid /\ memory[from] = <<>>
          /\ \E t \in Sids \ {from} : memory' = [memory EXCEPT ![t] = <<>>]
    /\ UNCHANGED <<from, fallback, prompt, context, said>>

\* What the conversation remembers beyond the prompt is forgotten; the rest need
\* not be read again.
Recall ==
    /\ at = "attached" /\ at' = "reading"
    /\ \E n \in 0 .. Len(prompt) :
          /\ Remembers(of, n)
          /\ context' = First(prompt, n) /\ memory' = Remembering(of, First(prompt, n))
    /\ UNCHANGED <<from, fallback, prompt, of, said>>

Read ==
    /\ at = "reading" /\ said = <<>>
    /\ \E n \in Len(context) + 1 .. Len(prompt) : context' = First(prompt, n)
    /\ UNCHANGED <<memory, at, from, fallback, prompt, of, said>>

\* A token is said when all of the prompt has been read and nothing else.
Say ==
    /\ at = "reading" /\ context = prompt \o said
    /\ \E t \in Token : said' = Append(said, t) /\ context' = Append(context, t)
    /\ UNCHANGED <<memory, at, from, fallback, prompt, of>>

\* The conversation remembers the whole context; or, when the prompt could not be
\* read to its end, what it did before; or nothing, when there is no room.
Finish ==
    /\ at = "reading" /\ at' = "over" /\ context' = <<>>
    /\ \/ context = prompt \o said /\ memory' = Remembering(of, context)
       \/ Len(context) < Len(prompt) /\ UNCHANGED memory
       \/ said = <<>> /\ memory' = Remembering(of, <<>>)
    /\ UNCHANGED <<from, fallback, prompt, of, said>>

Answer == at = "over" /\ Idle' /\ UNCHANGED memory

ConversationNext == Ask \/ Attach \/ Recall \/ Read \/ Say \/ Finish \/ Answer

ConversationSpec == ConversationInit /\ [][ConversationNext]_conversationVars

===============================================================================
