----------------------------- MODULE ExposureProofs -----------------------------
(***************************************************************************)
(* Proofs about the programs of src/exposure: the challenge records that   *)
(* `certs issue' leaves behind and finds, the TLS contexts built while a   *)
(* first certificate is being saved, and the log under `router watch'.     *)
(*                                                                         *)
(* The inductive invariant of Acme has three parts.  Types gives the       *)
(* ranges and says when a step has a current domain.  Records is           *)
(* SuccessLeavesNoTxt with the steps named between which the record of the *)
(* running order is allowed, and ChallengeIsAlone.  Saved says that all    *)
(* there is to read after one save comes from one order.                   *)
(*                                                                         *)
(* The log is proved about by itself (LogSpec), for any processes that     *)
(* open it, write to it and close it; the watcher is then shown to use it  *)
(* so.  Its invariant LogOk adds to LogKeepsRecentLines that the process   *)
(* with the log open stands at the end of hostely.log, and by how much its *)
(* count of bytes differs from what the file holds.                        *)
(***************************************************************************)
EXTENDS AcmeProps, LoggerProps, TLAPS

Challenge == {"propagate", "trigger", "poll"}
Saving    == {"cert", "key", "write"}
Steps     == {"idle", "authz", "set", "order", "rm"} \union Challenge \union Saving

Text == Nat \union {None}
Shakes == {NoShake} \union [pc : {"key"}, cert : Text]
                    \union [pc : {"install"}, ctx : Text]

Types ==
    /\ pc \in Steps /\ order \in Nat /\ faults \in Nat /\ saves \in Nat
    /\ todo \in Seq(Domain)
    /\ pc \in Challenge \union {"set"} => todo # <<>>
    /\ pc \notin {"idle", "rm"} => order # 0
    /\ txt \in [Domain -> SUBSET Nat]
    /\ cert \in Text /\ key \in Text /\ cache \in Text
    /\ shake \in [Thread -> Shakes] /\ emptyRead \in BOOLEAN

Leftovers ==
    \A d \in Domain \ Apex : \A n \in txt[d] :
        n \in excused \/ (pc \in Challenge /\ n = order /\ Head(todo) = d)

Alone ==
    pc \in Challenge => /\ order \in txt[Head(todo)]
                        /\ (faults = 0 /\ Head(todo) \notin Apex) => txt[Head(todo)] = {order}

Records == Leftovers /\ Alone

\* Nothing was saved yet.
Nothing == /\ cert = None /\ key = None /\ cache = None
           /\ pc \notin Saving /\ \A t \in Thread : shake[t] = NoShake

ShakeOf(j, n) == /\ j.pc = "key" => j.cert = n
                 /\ j.pc = "install" => j.ctx = n

\* What there is to read or in use comes from order n.
From(n) ==
    /\ cert \in {None, 0, n} /\ key \in {None, 0, n} /\ cache \in {None, n}
    /\ pc \in Saving => order = n
    /\ \A t \in Thread : ShakeOf(shake[t], n)

Saved == /\ saves = 0 => Nothing
         /\ (saves = 1 /\ ~emptyRead) => \E n \in 1 .. order : From(n)

AcmeInv == Types /\ Records /\ Saved

-----------------------------------------------------------------------------
(* The parts that a step leaves alone *)

\* The parts of the store are what they were when its variables are.
LEMMA StoreUnchanged ==
    ASSUME AcmeInv, UNCHANGED certVars
    PROVE  /\ cert' \in Text /\ key' \in Text /\ cache' \in Text
           /\ shake' \in [Thread -> Shakes] /\ emptyRead' \in BOOLEAN /\ saves' \in Nat
           /\ (order' \in {order, order + 1} /\ (pc' \in Saving => pc \in Saving /\ order' = order))
                 => Saved'
  <1>1. ASSUME NEW n \in Nat, From(n), pc' \in Saving => pc \in Saving /\ order' = order
        PROVE  From(n)'
    BY <1>1 DEF From, certVars
  <1>2. ASSUME order' \in {order, order + 1}
        PROVE  order \in Nat /\ 1 .. order \subseteq 1 .. order'
    BY <1>2 DEF AcmeInv, Types
  <1> QED BY <1>1, <1>2 DEF AcmeInv, Types, Saved, Nothing, certVars

\* The records are as they were, and so is the step or it is not a challenge's.
LEMMA RecordsUnchanged ==
    ASSUME AcmeInv, UNCHANGED txt, excused \subseteq excused',
           \/ UNCHANGED <<todo, order>> /\ faults = faults'
              /\ (pc' \in Challenge <=> pc \in Challenge)
           \/ pc' \notin Challenge /\ (pc \notin Challenge \/ order \in excused')
    PROVE  Records'
  BY DEF AcmeInv, Types, Records, Leftovers, Alone

\* The head and the tail of a list of domains.
LEMMA HeadTail ==
    ASSUME todo \in Seq(Domain), todo # <<>>
    PROVE  Head(todo) \in Domain /\ Tail(todo) \in Seq(Domain)
  OBVIOUS

\* What set_txt and remove_txt leave of a set of records.
LEMMA Upsert ==
    ASSUME NEW recs \in SUBSET Nat, NEW n \in Nat, NEW fail \in BOOLEAN,
           NEW o \in upsert(recs, n, fail)
    PROVE  /\ o.recs \subseteq recs \union {n} /\ o.ok \in BOOLEAN
           /\ o.ok => n \in o.recs /\ (~fail => o.recs = {n})
           /\ ~o.ok => o.recs \subseteq recs
  <1>1. CASE \E kept \in list_and_delete(recs, fail) : o = Outcome(kept \union {n}, TRUE)
    <2>1. PICK kept \in SUBSET recs : o = Outcome(kept \union {n}, TRUE) /\ (~fail => kept = {})
      BY <1>1 DEF list_and_delete
    <2> QED BY <2>1 DEF Outcome
  <1>2. CASE fail /\ \E kept \in SUBSET recs : o = Outcome(kept, FALSE)
    BY <1>2 DEF Outcome
  <1>3. CASE fail /\ o = Outcome(recs, FALSE)
    BY <1>3 DEF Outcome
  <1> QED BY <1>1, <1>2, <1>3 DEF upsert

\* A clean-up that reports success has taken the value away.
LEMMA Removed ==
    ASSUME NEW recs \in SUBSET Nat, NEW n \in Nat, NEW fail \in BOOLEAN,
           NEW o \in remove_record(recs, n, fail)
    PROVE  o.recs \subseteq recs /\ (o.ok => n \notin o.recs)
  BY DEF remove_record, Outcome

-----------------------------------------------------------------------------
(* The steps of the command *)

\* The invariant holds of the initial states.
LEMMA AcmeInit == Init => AcmeInv
  <1> SUFFICES ASSUME Init PROVE AcmeInv
    OBVIOUS
  <1>1. Types
    <2>1. txt \in [Domain -> SUBSET Nat]
      BY DEF Init
    <2>2. cert \in Text /\ key \in Text /\ cache \in Text /\ shake \in [Thread -> Shakes]
      BY DEF Init, CertInit, Text, Shakes
    <2>3. /\ order = 0 /\ faults = 0 /\ saves = 0 /\ emptyRead = FALSE
          /\ pc = "idle" /\ todo = <<>>
      BY DEF Init, CertInit
    <2>4. <<>> \in Seq(Domain)
      OBVIOUS
    <2>5. pc \in Steps /\ pc \notin Challenge \union {"set"}
      BY <2>3 DEF Steps, Challenge
    <2> QED BY <2>1, <2>2, <2>3, <2>4, <2>5 DEF Types
  <1>2. Records
    BY DEF Init, Records, Leftovers, Alone, Challenge
  <1>3. Saved
    BY DEF Init, CertInit, Saved, Nothing, Saving
  <1> QED BY <1>1, <1>2, <1>3 DEF AcmeInv

\* A failure that ends the command.
LEMMA AbandonStep ==
    ASSUME AcmeInv, Abandon, UNCHANGED certVars, faults' \in Nat
    PROVE  AcmeInv'
  <1>1. /\ pc' = "idle" /\ todo' = <<>> /\ excused' = excused \union {order}
        /\ UNCHANGED <<order, txt>>
    BY DEF Abandon
  <1>2. Records'
    BY <1>1, RecordsUnchanged DEF Challenge
  <1>3. Saved'
    BY <1>1, StoreUnchanged DEF Saving
  <1>4. Types'
    BY <1>1, StoreUnchanged DEF AcmeInv, Types, Steps, Challenge
  <1> QED BY <1>2, <1>3, <1>4 DEF AcmeInv

\* A new order finds only records that are excused.
LEMMA IssueStep == ASSUME AcmeInv, Issue PROVE AcmeInv'
  <1>1. /\ pc = "idle" /\ pc' = "authz" /\ order' = order + 1 /\ todo' = Domains
        /\ UNCHANGED <<txt, excused>> /\ UNCHANGED certVars
    BY DEF Issue
  <1>2. PICK lost \in {FALSE, MayFail} : Spend(lost)
    BY DEF Issue
  <1>3. faults' \in Nat
    BY <1>2 DEF Spend, AcmeInv, Types
  <1>4. Records'
    BY <1>1, RecordsUnchanged DEF Challenge
  <1>5. Saved'
    BY <1>1, StoreUnchanged DEF Saving
  <1>6. Domains \in Seq(Domain)
    BY AcmeAssumption DEF Domain
  <1>7. Types'
    BY <1>1, <1>3, <1>6, StoreUnchanged DEF AcmeInv, Types, Steps, Challenge
  <1> QED BY <1>4, <1>5, <1>7 DEF AcmeInv

\* The steps that neither touch a record nor the store.
LEMMA QuietStep ==
    ASSUME AcmeInv, Authz \/ Propagate \/ Trigger \/ PollAgain \/ Finalize
    PROVE  AcmeInv'
  <1>1. UNCHANGED <<order, txt, excused, faults>> /\ UNCHANGED certVars
    BY DEF Authz, Propagate, Trigger, PollAgain, Finalize
  <1>2. /\ pc' \in Steps /\ todo' \in Seq(Domain)
        /\ pc' \in Challenge \union {"set"} => todo' # <<>>
        /\ pc' \notin {"idle", "rm"} => pc \notin {"idle", "rm"}
        /\ pc' \notin Saving
        /\ \/ UNCHANGED todo /\ (pc' \in Challenge <=> pc \in Challenge)
           \/ pc' \notin Challenge /\ pc \notin Challenge
    BY HeadTail DEF Authz, Propagate, Trigger, PollAgain, Finalize, AcmeInv, Types,
       Steps, Challenge, Saving
  <1>3. Records'
    BY <1>1, <1>2, RecordsUnchanged
  <1>4. Saved'
    BY <1>1, <1>2, StoreUnchanged
  <1>5. Types'
    BY <1>1, <1>2, StoreUnchanged DEF AcmeInv, Types
  <1> QED BY <1>3, <1>4, <1>5 DEF AcmeInv

\* The record of the order is set, alone unless a request failed.
LEMMA SetTxtStep == ASSUME AcmeInv, SetTxt PROVE AcmeInv'
  <1> DEFINE d == Head(todo)
  <1>1. /\ pc = "set" /\ UNCHANGED <<order, polls, pub, auth, issued>>
        /\ UNCHANGED certVars
    BY DEF SetTxt
  <1>2. d \in Domain /\ txt[d] \in SUBSET Nat /\ order \in Nat /\ todo # <<>>
    BY <1>1, HeadTail DEF AcmeInv, Types
  <1>3. PICK fail \in {FALSE, MayFail}, found \in Listings(d) : \E o \in upsert(found, order, fail) :
            /\ Spend(fail) /\ txt' = [txt EXCEPT ![d] = (@ \ found) \union o.recs]
            /\ IF o.ok THEN /\ pc' = "propagate" /\ UNCHANGED <<todo, excused>>
                       ELSE /\ pc' = "idle" /\ todo' = <<>>
                            /\ excused' = excused \union {order}
    BY DEF SetTxt
  <1>4. PICK o \in upsert(found, order, fail) :
            /\ Spend(fail) /\ txt' = [txt EXCEPT ![d] = (@ \ found) \union o.recs]
            /\ IF o.ok THEN /\ pc' = "propagate" /\ UNCHANGED <<todo, excused>>
                       ELSE /\ pc' = "idle" /\ todo' = <<>>
                            /\ excused' = excused \union {order}
    BY <1>3
  <1>5. fail \in BOOLEAN
    <2>1. faults \in Nat /\ MaxFaults \in Nat
      BY AcmeAssumption DEF AcmeInv, Types
    <2>2. (faults < MaxFaults) \in BOOLEAN
      BY <2>1
    <2> QED BY <2>2, Zenon DEF MayFail
  <1>6. faults' \in Nat /\ (faults' = 0 => ~fail)
    BY <1>4, <1>5 DEF Spend, AcmeInv, Types
  <1> DEFINE left == (txt[d] \ found) \union o.recs
  <1>7. /\ left \subseteq txt[d] \union {order} /\ o.ok \in BOOLEAN
        /\ o.ok => order \in left /\ (~fail /\ d \notin Apex => left = {order})
        /\ ~o.ok => left \subseteq txt[d]
    <2>1. found \in SUBSET Nat /\ found \subseteq txt[d] /\ (d \notin Apex => found = txt[d])
      BY <1>2 DEF Listings
    <2>2. /\ o.recs \subseteq found \union {order} /\ o.ok \in BOOLEAN
          /\ o.ok => order \in o.recs /\ (~fail => o.recs = {order})
          /\ ~o.ok => o.recs \subseteq found
      BY <1>2, <1>5, <2>1, Upsert
    <2> QED BY <2>1, <2>2
  <1>8. txt' \in [Domain -> SUBSET Nat] /\ txt'[d] = left
        /\ \A e \in Domain \ {d} : txt'[e] = txt[e]
    BY <1>2, <1>4, <1>7 DEF AcmeInv, Types
  <1>9. \A e \in Domain \ Apex : \A n \in txt[e] : n \in excused
    BY <1>1 DEF AcmeInv, Records, Leftovers, Challenge
  <1> HIDE DEF left
  <1>10. Leftovers'
    BY <1>1, <1>2, <1>4, <1>7, <1>8, <1>9 DEF Leftovers, Challenge
  <1>11. Alone'
    BY <1>1, <1>2, <1>4, <1>6, <1>7, <1>8 DEF Alone, Challenge
  <1>12. Saved'
    BY <1>1, <1>4, <1>7, StoreUnchanged DEF Saving
  <1>13. Types'
    <2> HIDE DEF d
    <2>1. /\ pc' \in {"propagate", "idle"} /\ todo' \in {todo, <<>>}
          /\ pc' = "propagate" => todo' = todo
      BY <1>4, <1>7
    <2>3. todo \in Seq(Domain) /\ <<>> \in Seq(Domain)
      BY DEF AcmeInv, Types
    <2>2. order # 0
      BY <1>1 DEF AcmeInv, Types
    <2> QED BY <2>1, <2>2, <2>3, <1>1, <1>2, <1>6, <1>8, StoreUnchanged
            DEF Types, Steps, Challenge
  <1> QED BY <1>10, <1>11, <1>12, <1>13 DEF AcmeInv, Records

\* The record of the order is removed, or the order is excused.
LEMMA ValidatedStep == ASSUME AcmeInv, Validated PROVE AcmeInv'
  <1> DEFINE d == Head(todo)
  <1>1. /\ pc = "poll" /\ pc' = "authz" /\ todo' = Tail(todo)
        /\ UNCHANGED <<order, pub, auth, issued>> /\ UNCHANGED certVars
    BY DEF Validated
  <1>2. d \in Domain /\ txt[d] \in SUBSET Nat /\ order \in Nat /\ Tail(todo) \in Seq(Domain)
    BY <1>1, HeadTail DEF AcmeInv, Types, Challenge
  <1>3. PICK fail \in {FALSE, MayFail}, found \in Listings(d) :
            \E o \in remove_record(found, order, fail) :
            /\ Spend(fail) /\ txt' = [txt EXCEPT ![d] = (@ \ found) \union o.recs]
            /\ excused' = IF o.ok \/ d \in Apex THEN excused ELSE excused \union {order}
    BY DEF Validated
  <1>4. PICK o \in remove_record(found, order, fail) :
            /\ Spend(fail) /\ txt' = [txt EXCEPT ![d] = (@ \ found) \union o.recs]
            /\ excused' = IF o.ok \/ d \in Apex THEN excused ELSE excused \union {order}
    BY <1>3
  <1>5. fail \in BOOLEAN
    <2>1. faults \in Nat /\ MaxFaults \in Nat
      BY AcmeAssumption DEF AcmeInv, Types
    <2>2. (faults < MaxFaults) \in BOOLEAN
      BY <2>1
    <2> QED BY <2>2, Zenon DEF MayFail
  <1>6. faults' \in Nat
    BY <1>4, <1>5 DEF Spend, AcmeInv, Types
  <1> DEFINE left == (txt[d] \ found) \union o.recs
  <1>7. left \subseteq txt[d] /\ (o.ok /\ d \notin Apex => order \notin left)
    <2>1. found \in SUBSET Nat /\ found \subseteq txt[d] /\ (d \notin Apex => found = txt[d])
      BY <1>2 DEF Listings
    <2>2. o.recs \subseteq found /\ (o.ok => order \notin o.recs)
      BY <1>2, <1>5, <2>1, Removed
    <2> QED BY <2>1, <2>2
  <1>8. txt' \in [Domain -> SUBSET Nat] /\ txt'[d] = left
        /\ \A e \in Domain \ {d} : txt'[e] = txt[e]
    BY <1>2, <1>4, <1>7 DEF AcmeInv, Types
  <1>9. \A e \in Domain \ Apex : \A n \in txt[e] : n \in excused \/ (n = order /\ e = d)
    BY DEF AcmeInv, Records, Leftovers
  <1> HIDE DEF left
  <1>10. Leftovers'
    <2> SUFFICES ASSUME NEW e \in Domain \ Apex, NEW n \in txt'[e] PROVE n \in excused'
      BY DEF Leftovers
    <2>1. excused \subseteq excused'
      BY <1>4
    <2>2. CASE e = d
      BY <2>2, <1>4, <1>7, <1>8, <1>9
    <2>3. CASE e # d
      BY <2>3, <2>1, <1>8, <1>9
    <2> QED BY <2>2, <2>3
  <1>11. Alone'
    BY <1>1 DEF Alone, Challenge
  <1>12. Saved'
    BY <1>1, StoreUnchanged DEF Saving
  <1>13. Types'
    BY <1>1, <1>2, <1>6, <1>8, StoreUnchanged DEF AcmeInv, Types, Steps, Challenge
  <1> QED BY <1>10, <1>11, <1>12, <1>13 DEF AcmeInv, Records

\* The save: the first one makes the order the one that everything comes from.
LEMMA SaveStep == ASSUME AcmeInv, Download \/ Save PROVE AcmeInv'
  <1>1. /\ UNCHANGED <<todo, order, txt, excused, faults>>
        /\ UNCHANGED <<cache, shake, emptyRead>>
        /\ pc \in Saving \union {"order"} /\ pc' \in Saving \union {"idle"}
    BY DEF Download, Save, TruncateCert, WriteCert, TruncateKey, WriteKey, Saving
  <1>2. /\ cert' \in {cert, 0, order} /\ key' \in {key, 0, order}
        /\ \/ pc = "order" /\ saves' = saves + 1 /\ cert' = 0 /\ UNCHANGED key
           \/ pc \in Saving /\ UNCHANGED saves
    BY DEF Download, Save, TruncateCert, WriteCert, TruncateKey, WriteKey, Saving
  <1>3. Records'
    BY <1>1, RecordsUnchanged DEF Challenge, Saving
  <1>4. order \in Nat \ {0}
    BY <1>1 DEF AcmeInv, Types, Saving
  <1>5. Saved'
    <2>1. CASE pc = "order"
      <3>1. saves' = saves + 1 /\ saves \in Nat
        BY <2>1, <1>2 DEF AcmeInv, Types, Saving
      <3>2. CASE saves = 0
        <4>1. Nothing
          BY <3>2 DEF AcmeInv, Saved
        <4>2. From(order)'
          BY <4>1, <1>1, <1>2, <1>4, <2>1 DEF Nothing, From, Saving, ShakeOf, NoShake
        <4> QED BY <4>2, <3>1, <3>2, <1>1, <1>4 DEF Saved
      <3>3. CASE saves # 0
        BY <3>1, <3>3 DEF Saved
      <3> QED BY <3>2, <3>3
    <2>2. CASE pc \in Saving /\ UNCHANGED saves
      <3>1. ASSUME saves = 0 PROVE FALSE
        BY <3>1, <2>2 DEF AcmeInv, Saved, Nothing
      <3>2. ASSUME saves = 1, ~emptyRead PROVE (\E n \in 1 .. order : From(n))'
        <4>1. PICK n \in 1 .. order : From(n)
          BY <3>2 DEF AcmeInv, Saved
        <4>2. From(n)'
          BY <4>1, <1>1, <1>2, <2>2 DEF From
        <4> QED BY <4>2, <1>1
      <3> QED BY <3>1, <3>2, <1>1, <2>2 DEF Saved
    <2> QED BY <1>2, <2>1, <2>2
  <1>6. Types'
    <2>1. cert' \in Text /\ key' \in Text /\ saves' \in Nat
      BY <1>2, <1>4 DEF AcmeInv, Types, Text
    <2> QED
      BY <2>1, <1>1, <1>4 DEF AcmeInv, Types, Steps, Saving, Challenge
  <1> QED BY <1>3, <1>5, <1>6 DEF AcmeInv

\* `certs rm`, and its end by a kill.
LEMMA RemoveStep == ASSUME AcmeInv, Remove \/ RemoveKilled PROVE AcmeInv'
  <1>1. /\ UNCHANGED <<todo, order, txt, excused>>
        /\ UNCHANGED <<cache, shake, saves, emptyRead>>
        /\ pc \in {"idle", "rm"} /\ pc' \in {"idle", "rm"} /\ faults' \in Nat
        /\ cert' \in {cert, None} /\ key' \in {key, None}
    BY DEF Remove, RemoveKilled, RemoveOne, certVars, Spend, AcmeInv, Types
  <1>2. Records'
    BY <1>1, RecordsUnchanged DEF Challenge
  <1>3. Saved'
    <2>1. saves = 0 => Nothing'
      BY <1>1 DEF AcmeInv, Saved, Nothing, Saving
    <2>2. ASSUME NEW n \in Nat, From(n) PROVE From(n)'
      BY <2>2, <1>1 DEF From, Saving
    <2> QED BY <2>1, <2>2, <1>1 DEF AcmeInv, Saved
  <1>4. Types'
    BY <1>1 DEF AcmeInv, Types, Text, Steps, Challenge
  <1> QED BY <1>2, <1>3, <1>4 DEF AcmeInv

\* A handshake reads one file after the other; what it installs is whole when
\* all there is to read comes from one order.
LEMMA HandshakeStep ==
    ASSUME AcmeInv, Handshake, UNCHANGED acmeVars, UNCHANGED faults
    PROVE  AcmeInv'
  <1>1. UNCHANGED <<pc, todo, order, txt, excused, faults>>
    BY DEF acmeVars
  <1>2. Records'
    BY <1>1, RecordsUnchanged
  <1>3. ASSUME NEW t \in Thread, ReadCert(t) PROVE AcmeInv'
    <2>1. /\ cert # None /\ shake' = [shake EXCEPT ![t] = [pc |-> "key", cert |-> cert]]
          /\ emptyRead' = (emptyRead \/ cert = 0) /\ UNCHANGED <<cert, key, cache, saves>>
      BY <1>3 DEF ReadCert
    <2>2. Types'
      BY <2>1, <1>1 DEF AcmeInv, Types, Shakes
    <2>3. saves = 0 => Nothing'
      BY <2>1 DEF AcmeInv, Saved, Nothing
    <2>4. ASSUME NEW n \in 1 .. order, From(n), ~emptyRead' PROVE From(n)'
      BY <2>1, <2>4, <1>1 DEF From, ShakeOf, AcmeInv, Types
    <2>5. Saved'
      BY <1>1, <2>1, <2>3, <2>4 DEF Saved, AcmeInv, Types
    <2> QED BY <1>2, <2>2, <2>5 DEF AcmeInv
  <1>4. ASSUME NEW t \in Thread, ReadKey(t) PROVE AcmeInv'
    <2> DEFINE ctx == Context(shake[t].cert, IF key = None THEN 0 ELSE key)
               new == IF Usable /\ cache = None THEN [pc |-> "install", ctx |-> ctx]
                      ELSE NoShake
    <2>1. /\ shake[t].pc = "key" /\ shake' = [shake EXCEPT ![t] = new]
          /\ UNCHANGED <<cert, key, cache, saves, emptyRead>>
      BY <1>4 DEF ReadKey
    <2>2. shake[t] \in Shakes
      BY DEF AcmeInv, Types
    <2>3. shake[t] \in [pc : {"key"}, cert : Text]
      BY <2>1, <2>2 DEF Shakes, NoShake
    <2>4. ctx \in Text
      BY <2>3 DEF Context, Broken, Text
    <2>5. new \in Shakes
      BY <2>4 DEF Shakes
    <2>6. Types'
      BY <2>1, <2>5, <1>1 DEF AcmeInv, Types
    <2>7. saves = 0 => Nothing'
      BY <2>1 DEF AcmeInv, Saved, Nothing, NoShake
    <2>8. ASSUME NEW n \in 1 .. order, From(n) PROVE From(n)'
      <3>1. shake[t].cert = n
        BY <2>1, <2>8 DEF From, ShakeOf
      <3>2. Usable => key = n
        BY <2>8 DEF From, Usable
      <3>3. Usable => ctx = n
        BY <3>1, <3>2 DEF Context, Usable
      <3>4. ShakeOf(new, n)
        BY <3>3 DEF ShakeOf, NoShake
      <3> QED BY <2>1, <2>8, <3>4, <1>1 DEF From, AcmeInv, Types
    <2>9. Saved'
      BY <1>1, <2>1, <2>7, <2>8 DEF Saved, AcmeInv
    <2> QED BY <1>2, <2>6, <2>9 DEF AcmeInv
  <1>5. ASSUME NEW t \in Thread, Install(t) PROVE AcmeInv'
    <2>1. /\ shake[t].pc = "install" /\ shake' = [shake EXCEPT ![t] = NoShake]
          /\ cache' = shake[t].ctx /\ UNCHANGED <<cert, key, saves, emptyRead>>
      BY <1>5 DEF Install
    <2>2. shake[t] \in Shakes
      BY DEF AcmeInv, Types
    <2>3. shake[t].ctx \in Text
      BY <2>1, <2>2 DEF Shakes, NoShake
    <2>4. Types'
      BY <2>1, <2>3, <1>1 DEF AcmeInv, Types, Shakes
    <2>5. saves = 0 => Nothing'
      BY <2>1 DEF AcmeInv, Saved, Nothing, NoShake
    <2>6. ASSUME NEW n \in 1 .. order, From(n) PROVE From(n)'
      BY <2>1, <2>6, <1>1 DEF From, ShakeOf, AcmeInv, Types, NoShake
    <2>7. Saved'
      BY <1>1, <2>1, <2>5, <2>6 DEF Saved, AcmeInv
    <2> QED BY <1>2, <2>4, <2>7 DEF AcmeInv
  <1>6. ASSUME ProxyRestart PROVE AcmeInv'
    <2>1. /\ cache' = None /\ shake' = [t \in Thread |-> NoShake]
          /\ UNCHANGED <<cert, key, saves, emptyRead>>
      BY <1>6 DEF ProxyRestart
    <2>2. Types'
      BY <2>1, <1>1 DEF AcmeInv, Types, Shakes, Text
    <2>3. saves = 0 => Nothing'
      BY <2>1, <1>1 DEF AcmeInv, Saved, Nothing
    <2>4. ASSUME NEW n \in 1 .. order, From(n) PROVE From(n)'
      BY <2>1, <2>4, <1>1 DEF From, ShakeOf, NoShake
    <2>5. Saved'
      BY <1>1, <2>1, <2>3, <2>4 DEF Saved, AcmeInv
    <2> QED BY <1>2, <2>2, <2>5 DEF AcmeInv
  <1> QED BY <1>3, <1>4, <1>5, <1>6 DEF Handshake

\* The invariant is inductive.
LEMMA AcmeNext == AcmeInv /\ [Next]_vars => AcmeInv'
  <1> SUFFICES ASSUME AcmeInv, [Next]_vars PROVE AcmeInv'
    OBVIOUS
  <1>1. ASSUME GiveUp PROVE AcmeInv'
    <2>1. Abandon /\ UNCHANGED faults /\ UNCHANGED certVars
      BY <1>1 DEF GiveUp
    <2>2. faults' \in Nat
      BY <2>1 DEF AcmeInv, Types
    <2> QED BY <2>1, <2>2, AbandonStep
  <1>2. ASSUME Fails PROVE AcmeInv'
    <2>1. Abandon /\ Spend(TRUE) /\ UNCHANGED certVars
      BY <1>2 DEF Fails
    <2>2. faults' \in Nat
      BY <2>1 DEF Spend, AcmeInv, Types
    <2> QED BY <2>1, <2>2, AbandonStep
  <1>3. ASSUME Authority \/ UNCHANGED vars PROVE AcmeInv'
    <2>1. /\ UNCHANGED <<pc, todo, order, txt, excused, faults>>
          /\ UNCHANGED certVars
      BY <1>3 DEF Authority, Decide, Publish, Validate, vars, certVars
    <2>2. Records'
      BY <2>1, RecordsUnchanged
    <2>3. Saved'
      BY <2>1, StoreUnchanged
    <2>4. Types'
      BY <2>1, StoreUnchanged DEF AcmeInv, Types
    <2> QED BY <2>2, <2>3, <2>4 DEF AcmeInv
  <1>4. CASE Next
    BY <1>1, <1>2, <1>3, <1>4, IssueStep, QuietStep, SetTxtStep, ValidatedStep,
       SaveStep, RemoveStep, HandshakeStep DEF Next, Command
  <1> QED BY <1>3, <1>4

-----------------------------------------------------------------------------
(* The theorems *)

\* A certificate that is issued takes its challenge records with it: what
\* acme_issue_cert leaves at a challenge name comes from an order that failed.
THEOREM IssuedCleansUp == Spec => []SuccessLeavesNoTxt
  <1>1. AcmeInv => SuccessLeavesNoTxt
    BY DEF AcmeInv, Types, Records, Leftovers, SuccessLeavesNoTxt, Challenge
  <1> QED BY <1>1, AcmeInit, AcmeNext, PTL DEF Spec

\* From set_txt to the end of the poll the record of the order is at the name,
\* and alone there unless some request failed.
THEOREM RecordIsThere == Spec => []ChallengeIsAlone
  <1>1. AcmeInv => ChallengeIsAlone
    BY DEF AcmeInv, Records, Alone, ChallengeIsAlone, Challenge
  <1> QED BY <1>1, AcmeInit, AcmeNext, PTL DEF Spec

\* While the first certificate is saved, only a cert.pem read in the instant it
\* was empty makes sni_callback cache a context that fails every handshake.
THEOREM FirstIssueIsSafe == Spec => []FirstIssuePoisonsOnlyByEmptyRead
  <1>1. AcmeInv => FirstIssuePoisonsOnlyByEmptyRead
    <2> SUFFICES ASSUME AcmeInv, saves <= 1, ~emptyRead
                 PROVE  /\ cache # Broken
                        /\ \A t \in Thread : shake[t].pc = "install" => shake[t].ctx # Broken
      BY DEF FirstIssuePoisonsOnlyByEmptyRead
    <2>1. saves \in {0, 1}
      BY DEF AcmeInv, Types
    <2>2. CASE saves = 0
      BY <2>2, AcmeAssumption DEF AcmeInv, Saved, Nothing, NoShake, Broken
    <2>3. CASE saves = 1
      <3>1. PICK n \in 1 .. order : From(n)
        BY <2>3 DEF AcmeInv, Saved
      <3> QED BY <3>1, AcmeAssumption DEF From, ShakeOf, Broken
    <2> QED BY <2>1, <2>2, <2>3
  <1> QED BY <1>1, AcmeInit, AcmeNext, PTL DEF Spec

-----------------------------------------------------------------------------
(* The log *)

\* The lines of one file follow one another.
InOrder(file) == \A j \in 1 .. Len(file) - 1 : file[j + 1] = Following(file[j])

\* What is in the files while one process at a time has them open.
FilesOk ==
    /\ files \in [0 .. KeepFiles -> Seq(Nat)] /\ newest \in Nat
    /\ files[0] # <<>> => Newest(files[0]) = newest
    /\ \A i \in 0 .. KeepFiles : InOrder(files[i]) /\ Len(files[i]) <= MaxBytes
    /\ \A i \in 1 .. KeepFiles : files[i] # <<>> =>
          /\ files[i - 1] # <<>> /\ files[i - 1][1] = Following(Newest(files[i]))
          /\ Len(files[i]) >= MaxBytes - 1

OpenLog == [fd : {0}, app : BOOLEAN, off : Nat, bytes : Nat]

\* The process that has the log open is at the end of hostely.log; it counts
\* every line there, but for the one with which it began the file.
AtEnd(l) ==
    /\ l.fd = 0
    /\ l \in OpenLog
    /\ l.app => l.off = 0 /\ l.bytes = Len(files[0])
    /\ ~l.app => l.off = Len(files[0]) /\ l.bytes + 1 = l.off

LogsOk ==
    /\ log \in [Proc -> {Closed} \union OpenLog]
    /\ \A p \in Proc : log[p] # Closed => AtEnd(log[p])
    /\ \A p, q \in Proc : log[p] # Closed /\ log[q] # Closed => p = q

\* Only while nobody has shared the log; once shared, it stays so.
LogOk == shared \in BOOLEAN /\ (~shared => FilesOk /\ LogsOk)

\* The number after a line's number is a number.
LEMMA FollowingNat == \A n \in Nat : Following(n) \in Nat
  <1> DEFINE m == (KeepFiles + 1) * MaxBytes
  <1>1. m \in Nat  BY LoggerAssumption
  <1>2. \A n \in Nat : (n + 1) % (m + 1) \in Nat
    <2> HIDE DEF m
    <2> QED  BY <1>1
  <1> QED  BY <1>2 DEF Following, Lines

\* At first the files are empty and nobody has them open.
LEMMA LogOkInit == LogInit => LogOk
  <1> SUFFICES ASSUME LogInit  PROVE LogOk  OBVIOUS
  <1>1. FilesOk
    <2>1. KeepFiles \in Nat /\ MaxBytes \in Nat /\ \A i \in 0 .. KeepFiles : files[i] = <<>>
      BY LoggerAssumption DEF LogInit
    <2>2. files \in [0 .. KeepFiles -> Seq(Nat)] /\ newest \in Nat  BY DEF LogInit
    <2>3. InOrder(<<>>) /\ Len(<<>>) <= MaxBytes  BY <2>1 DEF InOrder
    <2>4. 0 \in 0 .. KeepFiles /\ 1 .. KeepFiles \subseteq 0 .. KeepFiles  BY <2>1
    <2> QED  BY <2>1, <2>2, <2>3, <2>4 DEF FilesOk
  <1>2. LogsOk  BY DEF LogInit, LogsOk
  <1> QED  BY <1>1, <1>2 DEF LogOk, LogInit

\* init: whoever opens the log counts what is there; a second one would share it.
LEMMA LogOkOpen == ASSUME NEW p \in Proc, LogOk, LogOpen(p)  PROVE LogOk'
  <1> SUFFICES ASSUME ~shared'  PROVE FilesOk' /\ LogsOk'
    BY DEF LogOk, LogOpen
  <1>1. ~shared /\ Opened = {}  BY DEF LogOpen, LogOk
  <1>2. FilesOk /\ LogsOk  BY <1>1 DEF LogOk
  <1>3. FilesOk'  BY <1>2 DEF FilesOk, LogOpen, InOrder, Newest
  <1>4. \A q \in Proc : log[q] = Closed  BY <1>1 DEF Opened
  <1>5. Len(files[0]) \in Nat  BY <1>2, LoggerAssumption DEF FilesOk
  <1>6. LogsOk'
    BY <1>2, <1>4, <1>5 DEF LogsOk, LogOpen, AtEnd, OpenLog, SizeOnOpen, Closed
  <1> QED  BY <1>3, <1>6

\* A process that ends leaves the files as they are.
LEMMA LogOkClose == ASSUME NEW p \in Proc, LogOk, LogClose(p)  PROVE LogOk'
  BY DEF LogOk, LogClose, FilesOk, LogsOk, InOrder, Newest, AtEnd, Closed

\* A file that ends with line n stays in order when the line after n is appended.
LEMMA Appended ==
  ASSUME NEW file \in Seq(Nat), InOrder(file), NEW n \in Nat,
         file # <<>> => Newest(file) = n
  PROVE  LET g == Append(file, Following(n)) IN
         /\ g \in Seq(Nat) /\ g # <<>> /\ InOrder(g) /\ Newest(g) = Following(n)
         /\ Len(g) = Len(file) + 1
         /\ file # <<>> => g[1] = file[1]
         /\ file = <<>> => g[1] = Following(n)
  <1> DEFINE g == Append(file, Following(n))
  <1>1. Following(n) \in Nat  BY FollowingNat
  <1>2. /\ g \in Seq(Nat) /\ g # <<>> /\ Len(g) = Len(file) + 1 /\ Len(file) \in Nat
        /\ g[Len(file) + 1] = Following(n) /\ \A j \in 1 .. Len(file) : g[j] = file[j]
    BY <1>1
  <1>3. InOrder(g)
    <2> HIDE DEF g
    <2>1. SUFFICES ASSUME NEW j \in 1 .. Len(file)  PROVE g[j + 1] = Following(g[j])
      BY <1>2 DEF InOrder
    <2>2. CASE j = Len(file)
      <3>1. file # <<>> /\ g[j] = n  BY <1>2, <2>2 DEF Newest
      <3> QED  BY <3>1, <2>2, <1>2
    <2>3. CASE j \in 1 .. Len(file) - 1
      BY <2>3, <1>2 DEF InOrder
    <2> QED  BY <2>2, <2>3, <1>2
  <1>4. file # <<>> => g[1] = file[1]  BY <1>2
  <1> QED  BY <1>2, <1>3, <1>4 DEF Newest

\* Who stands at the end of a file, or opened it for appending, writes there.
LEMMA WrittenAtEnd ==
  ASSUME NEW file, NEW l, NEW line, l.app \/ l.off = Len(file)
  PROVE  Written(file, l, line) = Append(file, line)
  BY DEF Written

\* The record of an open log with another position, and with another count.
LEMMA SetOff ==
  ASSUME NEW r \in OpenLog, NEW n \in Nat
  PROVE  LET l == [r EXCEPT !.off = n]
         IN  l \in OpenLog /\ l.app = r.app /\ l.off = n /\ l.bytes = r.bytes
  BY DEF OpenLog

LEMMA SetBytes ==
  ASSUME NEW r \in OpenLog, NEW n \in Nat
  PROVE  LET l == [r EXCEPT !.bytes = n]
         IN  l \in OpenLog /\ l.app = r.app /\ l.off = r.off /\ l.bytes = n
  BY DEF OpenLog

\* Of two assignments to one place the second counts.
LEMMA SetTwice ==
  ASSUME NEW f, NEW x, NEW y, NEW z
  PROVE  [[f EXCEPT ![x] = y] EXCEPT ![x] = z] = [f EXCEPT ![x] = z]
  OBVIOUS

\* emit: with or without a rotation, the line goes to the end of hostely.log, and
\* a file is rotated away no sooner than it holds MaxBytes - 1 lines.
LEMMA LogOkEmit == ASSUME NEW p \in Proc, LogOk, emit(p)  PROVE LogOk'
  <1> DEFINE line == Following(newest)
             full == log[p].bytes + 1 >= MaxBytes
             fs   == IF full THEN Rotated ELSE files
             g    == Append(fs[0], line)
             new  == [fd |-> 0, app |-> FALSE, off |-> 0, bytes |-> 0]
             r    == IF full THEN new ELSE [log[p] EXCEPT !.bytes = log[p].bytes + 1]
             l    == [r EXCEPT !.off = IF r.app THEN 0 ELSE r.off + 1]
  <1> SUFFICES ASSUME ~shared  PROVE FilesOk' /\ LogsOk'
    BY DEF LogOk, emit
  <1>0. KeepFiles \in Nat /\ MaxBytes \in Nat /\ MaxBytes > 1  BY LoggerAssumption
  <1>1. FilesOk /\ LogsOk  BY DEF LogOk
  <1>2. AtEnd(log[p]) /\ log[p] # Closed /\ \A q \in Proc \ {p} : log[q] = Closed
    BY <1>1 DEF LogsOk, emit
  <1>3. Len(files[0]) \in Nat /\ files[0] \in Seq(Nat)  BY <1>1, <1>0 DEF FilesOk
  <1>4. line \in Nat  BY <1>1, FollowingNat DEF FilesOk
  <1>5. log[p] \in OpenLog /\ log[p].bytes \in Nat /\ log[p].off \in Nat
    BY <1>2 DEF AtEnd, OpenLog
  <1>6. /\ full => fs = Rotated /\ fs[0] = <<>>
        /\ ~full => fs = files
    BY <1>0 DEF Rotated
  <1>7. /\ r \in OpenLog
        /\ full => ~r.app /\ r.off = 0 /\ r.bytes = 0
        /\ ~full => r.app = log[p].app /\ r.off = log[p].off /\ r.bytes = log[p].bytes + 1
    <2>1. new \in OpenLog /\ ~new.app /\ new.off = 0 /\ new.bytes = 0  BY DEF OpenLog
    <2> HIDE DEF new, full
    <2> QED  BY <2>1, <1>5, SetBytes
  <1>8. r.fd = 0 /\ r.off \in Nat /\ (r.app \/ r.off = Len(fs[0]))
    <2>1. r.fd = 0 /\ r.off \in Nat  BY <1>7 DEF OpenLog
    <2>2. CASE full
      <3> HIDE DEF full, fs, r
      <3> QED  BY <2>1, <2>2, <1>6, <1>7
    <2>3. CASE ~full
      <3> HIDE DEF full, fs, r
      <3> QED  BY <2>1, <2>3, <1>2, <1>6, <1>7 DEF AtEnd
    <2> QED  BY <2>2, <2>3
  <1>9. /\ files' = [fs EXCEPT ![0] = g]
        /\ log' = [log EXCEPT ![p] = l]
        /\ newest' = line
    <2> DEFINE ls == IF full THEN RotatedLogs(p) ELSE [log EXCEPT ![p].bytes = @ + 1]
               f  == ls[p].fd
    <2>1. /\ files' = IF f = Gone THEN fs ELSE [fs EXCEPT ![f] = Written(fs[f], ls[p], line)]
          /\ log' = [ls EXCEPT ![p].off = IF ls[p].app THEN 0 ELSE @ + 1]
          /\ newest' = line
      BY DEF emit
    <2>2. Gone # 0  BY <1>0 DEF Gone
    <2>3. ls = [log EXCEPT ![p] = r]
      <3>1. CASE full
        <4>1. RotatedLogs(p) = [log EXCEPT ![p] = new]
          BY <1>2, <1>1 DEF RotatedLogs, LogsOk
        <4> HIDE DEF new, full
        <4> QED  BY <4>1, <3>1
      <3>2. CASE ~full
        <4> HIDE DEF full
        <4> QED  BY <3>2
      <3> QED  BY <3>1, <3>2
    <2> HIDE DEF ls, r, fs, full, line
    <2>4. ls[p] = r  BY <2>3, <1>1 DEF LogsOk
    <2>5. f = 0  BY <2>4, <1>8
    <2>6. Written(fs[0], ls[p], line) = g
      BY <2>4, <1>8, WrittenAtEnd
    <2>7. files' = [fs EXCEPT ![0] = g]
      <3> HIDE DEF g, f
      <3> QED  BY <2>1, <2>2, <2>5, <2>6
    <2>8. log' = [ls EXCEPT ![p] = l]
      BY <2>1, <2>4
    <2> HIDE DEF l
    <2>9. log' = [log EXCEPT ![p] = l]  BY <2>3, <2>8, SetTwice
    <2> QED  BY <2>1, <2>7, <2>9
  <1>10.
        /\ fs \in [0 .. KeepFiles -> Seq(Nat)]
        /\ \A i \in 0 .. KeepFiles : InOrder(fs[i]) /\ Len(fs[i]) <= MaxBytes
        /\ fs[0] # <<>> => Newest(fs[0]) = newest
        /\ \A i \in 2 .. KeepFiles : fs[i] # <<>> =>
              /\ fs[i - 1] # <<>> /\ fs[i - 1][1] = Following(Newest(fs[i]))
              /\ Len(fs[i]) >= MaxBytes - 1
        /\ fs[1] # <<>> =>
              /\ IF fs[0] = <<>> THEN Newest(fs[1]) = newest
                 ELSE fs[0][1] = Following(Newest(fs[1]))
              /\ Len(fs[1]) >= MaxBytes - 1
        /\ Len(fs[0]) < MaxBytes
    <2>1. CASE full
      <3>1. fs = Rotated  BY <2>1
      <3>2. fs \in [0 .. KeepFiles -> Seq(Nat)]
        BY <3>1, <1>0, <1>1 DEF Rotated, FilesOk
      <3>3. fs[0] = <<>> /\ \A i \in 1 .. KeepFiles : fs[i] = files[i - 1]
        BY <3>1, <1>0 DEF Rotated
      <3>4. Len(files[0]) >= MaxBytes - 1
        BY <2>1, <1>0, <1>2, <1>3, <1>5 DEF AtEnd
      <3> HIDE DEF fs
      <3>5. \A i \in 0 .. KeepFiles : InOrder(fs[i]) /\ Len(fs[i]) <= MaxBytes
        <4> TAKE i \in 0 .. KeepFiles
        <4>1. CASE i = 0  BY <4>1, <3>3, <1>0 DEF InOrder
        <4>2. CASE i \in 1 .. KeepFiles
          <5>1. fs[i] = files[i - 1] /\ i - 1 \in 0 .. KeepFiles  BY <4>2, <3>3, <1>0
          <5> QED  BY <5>1, <1>1 DEF FilesOk
        <4> QED  BY <4>1, <4>2, <1>0
      <3>6. \A i \in 2 .. KeepFiles : fs[i] # <<>> =>
              /\ fs[i - 1] # <<>> /\ fs[i - 1][1] = Following(Newest(fs[i]))
              /\ Len(fs[i]) >= MaxBytes - 1
        <4> TAKE i \in 2 .. KeepFiles
        <4>1. fs[i] = files[i - 1] /\ fs[i - 1] = files[(i - 1) - 1] /\ i - 1 \in 1 .. KeepFiles
          BY <3>3, <1>0
        <4> QED  BY <4>1, <1>1 DEF FilesOk
      <3>7. fs[1] = files[0]  BY <3>3, LoggerAssumption
      <3> QED  BY <3>2, <3>3, <3>4, <3>5, <3>6, <3>7, <1>0, <1>1 DEF FilesOk
    <2>2. CASE ~full
      <3>1. fs = files  BY <2>2
      <3>2. Len(files[0]) < MaxBytes
        BY <2>2, <1>0, <1>2, <1>3, <1>5 DEF AtEnd
      <3>3. 1 \in 1 .. KeepFiles /\ 1 - 1 = 0 /\ 2 .. KeepFiles \subseteq 1 .. KeepFiles
        BY LoggerAssumption
      <3> QED  BY <3>1, <3>2, <3>3, <1>1 DEF FilesOk
    <2> QED  BY <2>1, <2>2
  <1> HIDE DEF fs
  <1>11. 0 \in 0 .. KeepFiles /\ fs[0] \in Seq(Nat) /\ newest \in Nat
    BY <1>0, <1>1, <1>10 DEF FilesOk
  <1>12.
        /\ g \in Seq(Nat) /\ g # <<>> /\ InOrder(g) /\ Newest(g) = line
        /\ Len(g) = Len(fs[0]) + 1
        /\ fs[0] # <<>> => g[1] = fs[0][1]
        /\ fs[0] = <<>> => g[1] = line
    BY <1>10, <1>11, Appended
  <1> HIDE DEF g
  <1>13. files'[0] = g /\ \A i \in 1 .. KeepFiles : files'[i] = fs[i]
    BY <1>9, <1>10, <1>11
  <1>14. FilesOk'
    <2>1. files' \in [0 .. KeepFiles -> Seq(Nat)] /\ newest' \in Nat
      BY <1>4, <1>9, <1>10, <1>12
    <2>2. files'[0] # <<>> => Newest(files'[0]) = newest'
      BY <1>9, <1>12, <1>13
    <2>3. \A i \in 0 .. KeepFiles : InOrder(files'[i]) /\ Len(files'[i]) <= MaxBytes
      <3> TAKE i \in 0 .. KeepFiles
      <3>1. CASE i = 0
        <4>1. Len(fs[0]) \in Nat  BY <1>11
        <4> QED  BY <3>1, <4>1, <1>0, <1>10, <1>12, <1>13
      <3>2. CASE i \in 1 .. KeepFiles  BY <3>2, <1>10, <1>13
      <3> QED  BY <3>1, <3>2, <1>0
    <2>4. \A i \in 1 .. KeepFiles : files'[i] # <<>> =>
              /\ files'[i - 1] # <<>> /\ files'[i - 1][1] = Following(Newest(files'[i]))
              /\ Len(files'[i]) >= MaxBytes - 1
      <3> TAKE i \in 1 .. KeepFiles
      <3>1. CASE i = 1
        BY <3>1, <1>10, <1>12, <1>13
      <3>2. CASE i \in 2 .. KeepFiles
        <4>1. i - 1 \in 1 .. KeepFiles  BY <3>2, <1>0
        <4> QED  BY <4>1, <3>2, <1>10, <1>13
      <3> QED  BY <3>1, <3>2, <1>0
    <2> QED  BY <2>1, <2>2, <2>3, <2>4 DEF FilesOk, InOrder, Newest
  <1>15. LogsOk'
    <2>1. /\ l \in OpenLog /\ l.app = r.app /\ l.bytes = r.bytes
          /\ l.off = IF r.app THEN 0 ELSE r.off + 1
      <3> HIDE DEF r
      <3>1. (IF r.app THEN 0 ELSE r.off + 1) \in Nat  BY <1>8
      <3> QED  BY <3>1, <1>7, SetOff
    <2> HIDE DEF l, r
    <2>2. Len(fs[0]) \in Nat /\ (full => Len(fs[0]) = 0)  BY <1>6, <1>11
    <2> HIDE DEF full
    <2>3. /\ l.app => l.off = 0 /\ l.bytes = Len(g)
          /\ ~l.app => l.off = Len(g) /\ l.bytes + 1 = l.off
      <3>1. CASE full
        BY <3>1, <2>1, <2>2, <1>7, <1>12
      <3>2. CASE ~full
        <4>1. fs[0] = files[0]  BY <3>2, <1>6
        <4> QED  BY <3>2, <4>1, <2>1, <1>2, <1>3, <1>5, <1>7, <1>12 DEF AtEnd
      <3> QED  BY <3>1, <3>2
    <2>4. log'[p] = l /\ \A q \in Proc \ {p} : log'[q] = Closed
      BY <1>1, <1>2, <1>9 DEF LogsOk
    <2>5. log' \in [Proc -> {Closed} \union OpenLog]
      BY <2>1, <1>1, <1>9 DEF LogsOk
    <2>6. AtEnd(log[p])'
      <3>1. l.fd = 0  BY <2>1 DEF OpenLog
      <3> QED  BY <3>1, <2>1, <2>3, <2>4, <1>13 DEF AtEnd
    <2> QED  BY <2>4, <2>5, <2>6 DEF LogsOk, AtEnd
  <1> QED  BY <1>14, <1>15

\* Every use of the log preserves the invariant.
LEMMA LogOkStep == LogOk /\ [LogNext]_logVars => LogOk'
  <1> SUFFICES ASSUME LogOk, [LogNext]_logVars  PROVE LogOk'  OBVIOUS
  <1>1. CASE UNCHANGED logVars
    BY <1>1 DEF logVars, LogOk, FilesOk, LogsOk, InOrder, Newest, AtEnd
  <1> QED  BY <1>1, LogOkOpen, LogOkClose, LogOkEmit DEF LogNext

\* The files of a log that one process at a time has open hold the most recent
\* lines in order, through any number of rotations and restarts, and no file grows
\* beyond its limit: for every limit, number of files and number of processes.
THEOREM LogKeeps == LogSpec => []LogKeepsRecentLines
  <1>1. LogOk => LogKeepsRecentLines
    BY DEF LogOk, FilesOk, InOrder, LogKeepsRecentLines
  <1> QED  BY <1>1, LogOkInit, LogOkStep, PTL DEF LogSpec

-----------------------------------------------------------------------------
(* The log under `router watch'. *)

CONSTANTS Address, NoAddress, Watch, MaxMoves
VARIABLES ip, moves, last_ip, seen, a, wrong

\* The watcher and the processes beside it, over this log and this provider.
RouterWatch == INSTANCE RouterWatch

\* The watcher uses the log as its specification allows: every step of it, and of
\* the commands that run beside it, opens, writes or closes the log for one
\* process, or leaves it alone.
THEOREM WatcherUsesLog == ASSUME Watch \in Proc  PROVE RouterWatch!Spec => LogSpec
  <1>1. RouterWatch!Init => LogInit
    BY DEF RouterWatch!Init, RouterWatch!LogInit, RouterWatch!Closed, LogInit, Closed
  <1>2. \A p \in Proc : /\ RouterWatch!LogOpen(p) => LogOpen(p)
                        /\ RouterWatch!LogClose(p) => LogClose(p)
    BY DEF RouterWatch!LogOpen, RouterWatch!LogClose, LogOpen, LogClose, Closed, Opened,
           SizeOnOpen, RouterWatch!Closed, RouterWatch!Opened, RouterWatch!SizeOnOpen
  <1>3. \A p \in Proc : RouterWatch!emit(p) => emit(p)
    BY DEF RouterWatch!emit, RouterWatch!Rotated, RouterWatch!RotatedLogs,
           RouterWatch!Written, RouterWatch!Following, RouterWatch!Lines,
           RouterWatch!Closed, RouterWatch!Gone,
           emit, Rotated, RotatedLogs, Written, Following, Lines, Closed, Gone
  <1>4. RouterWatch!Next => [LogNext]_logVars
    <2> SUFFICES ASSUME RouterWatch!Next  PROVE [LogNext]_logVars  OBVIOUS
    <2>1. CASE RouterWatch!Start
      BY <2>1, <1>2 DEF RouterWatch!Start, LogNext
    <2>2. CASE RouterWatch!Query \/ RouterWatch!QueryFails \/ RouterWatch!Update
      BY <2>2, <1>3 DEF RouterWatch!Query, RouterWatch!QueryFails, RouterWatch!Update, LogNext
    <2>3. CASE RouterWatch!Stop
      BY <2>3, <1>2 DEF RouterWatch!Stop, LogNext
    <2>4. CASE RouterWatch!Move
      BY <2>4 DEF RouterWatch!Move, RouterWatch!logVars, logVars
    <2>5. CASE \E p \in RouterWatch!Others : RouterWatch!Other(p)
      BY <2>5, <1>2, <1>3 DEF RouterWatch!Other, RouterWatch!Others, LogNext
    <2> QED  BY <2>1, <2>2, <2>3, <2>4, <2>5 DEF RouterWatch!Next
  <1>5. UNCHANGED RouterWatch!vars => UNCHANGED logVars
    BY DEF RouterWatch!vars, logVars
  <1> QED  BY <1>1, <1>4, <1>5, PTL DEF RouterWatch!Spec, LogSpec

\* What the watcher logs, cycle by cycle and run by run, is kept that way.
THEOREM WatchedLogKeeps ==
  ASSUME Watch \in Proc  PROVE RouterWatch!Spec => []LogKeepsRecentLines
  BY WatcherUsesLog, LogKeeps, PTL

===============================================================================
