--------------------------------- MODULE Acme ---------------------------------
(***************************************************************************)
(* `hostely certs issue` and `certs rm`: acme_issue_cert of                *)
(* src/exposure/acme.cpp, the TXT records it sets through the DNS provider,*)
(* the certificate authority it talks to (external), and the save of the   *)
(* result by run_certs (src/cli/exposure_cli.cpp).                         *)
(*                                                                         *)
(* An order is a number; its challenge tokens, TXT values, key and         *)
(* certificate carry that number.                                          *)
(***************************************************************************)
EXTENDS CertStore, DnsProvider, Sequences

CONSTANTS Domains,    \* the names of the certificate, in order
          Apex,       \* those that are a zone by themselves
          MaxOrders,  \* how many times the command is run
          MaxPolls    \* rounds of each polling loop (30, 30 and 60)

\* A list of names; no file is not the number of an order.
ASSUME AcmeAssumption == /\ Domains \in Seq({Domains[i] : i \in DOMAIN Domains})
                         /\ None \notin Nat /\ MaxFaults \in Nat

VARIABLES pc,         \* the next step of the command
          todo,       \* domains not yet authorized by this order
          order,      \* number of the order
          polls,      \* rounds of the present loop
          txt,        \* TXT values at each challenge name
          pub,        \* the same, as resolvers see them
          auth,       \* CA: the authorization of each domain
          issued,     \* CA: what became of the order
          excused     \* history: orders that failed, or whose clean-up did

acmeVars == <<pc, todo, order, polls, txt, pub, auth, issued, excused>>

Domain == {Domains[i] : i \in DOMAIN Domains}

\* Every error return, exception and kill leaves the records as they are.
Abandon ==
    /\ pc' = "idle" /\ todo' = <<>> /\ polls' = 0
    /\ excused' = excused \union {order}
    /\ UNCHANGED <<order, txt, pub, auth, issued>>

-----------------------------------------------------------------------------
(* The steps of acme_issue_cert *)

\* Account, directory, newOrder: the CA finds the authorizations that are still
\* valid for the account.  An account key that cannot be read is made anew, and
\* with it the account.
Issue ==
    /\ pc = "idle" /\ order < MaxOrders
    /\ \E lost \in {FALSE, MayFail} :
          /\ auth' = [d \in Domain |-> IF auth[d] = "valid" /\ ~lost
                                       THEN "valid" ELSE "pending"]
          /\ Spend(lost)
    /\ order' = order + 1 /\ pc' = "authz" /\ todo' = Domains
    /\ issued' = "none"
    /\ UNCHANGED <<polls, txt, pub, excused>> /\ UNCHANGED certVars

\* The authorization of the next domain; one that is valid needs no challenge.
Authz ==
    /\ pc = "authz" /\ todo # <<>>
    /\ IF auth[Head(todo)] = "valid"
       THEN todo' = Tail(todo) /\ UNCHANGED pc
       ELSE pc' = "set" /\ UNCHANGED todo
    /\ UNCHANGED <<order, polls, txt, pub, auth, issued, excused, faults>>
    /\ UNCHANGED certVars

\* The records that the provider lists for a challenge name.  For an apex the
\* code asks for "_acme-challenge", relative to the zone: a provider that
\* completes the name of a new record may still find no record by the short one.
Listings(d) == {txt[d]} \union (IF d \in Apex THEN {{}} ELSE {})

\* set_txt.
SetTxt ==
    /\ pc = "set"
    /\ \E fail \in {FALSE, MayFail}, found \in Listings(Head(todo)) :
       \E o \in upsert(found, order, fail) :
          /\ Spend(fail)
          /\ txt' = [txt EXCEPT ![Head(todo)] = (@ \ found) \union o.recs]
          /\ IF o.ok THEN /\ pc' = "propagate" /\ UNCHANGED <<todo, excused>>
                     ELSE /\ pc' = "idle" /\ todo' = <<>>
                          /\ excused' = excused \union {order}
    /\ UNCHANGED <<order, polls, pub, auth, issued>> /\ UNCHANGED certVars

\* What resolvers have at the name asked for: nothing under a relative name.
Visible(d) == IF d \in Apex THEN {} ELSE pub[d]

\* dns_query_txt returns one of the values that resolvers see, or nothing; after
\* the last round the challenge is submitted all the same.
Propagate ==
    /\ pc = "propagate"
    /\ \/ /\ order \in Visible(Head(todo)) \/ polls = MaxPolls
          /\ pc' = "trigger" /\ polls' = 0
       \/ /\ Visible(Head(todo)) # {order} /\ polls < MaxPolls
          /\ polls' = polls + 1 /\ UNCHANGED pc
    /\ UNCHANGED <<todo, order, txt, pub, auth, issued, excused, faults>>
    /\ UNCHANGED certVars

\* The CA is told to look.
Trigger ==
    /\ pc = "trigger"
    /\ auth' = [auth EXCEPT ![Head(todo)] = "triggered"] /\ pc' = "poll"
    /\ UNCHANGED <<todo, order, polls, txt, pub, issued, excused, faults>>
    /\ UNCHANGED certVars

\* Mutant of Validated: the record stays after the authorization.
ValidatedKeepsTxt ==
    /\ pc = "poll" /\ auth[Head(todo)] = "valid"
    /\ pc' = "authz" /\ todo' = Tail(todo) /\ polls' = 0
    /\ UNCHANGED <<order, txt, pub, auth, issued, excused, faults>>
    /\ UNCHANGED certVars

\* The authorization is valid: remove_txt, whose result is not looked at.
Validated ==
    /\ pc = "poll" /\ auth[Head(todo)] = "valid"
    /\ \E fail \in {FALSE, MayFail}, found \in Listings(Head(todo)) :
       \E o \in remove_record(found, order, fail) :
          /\ Spend(fail)
          /\ txt' = [txt EXCEPT ![Head(todo)] = (@ \ found) \union o.recs]
          /\ excused' = IF o.ok \/ Head(todo) \in Apex THEN excused
                        ELSE excused \union {order}
    /\ pc' = "authz" /\ todo' = Tail(todo) /\ polls' = 0
    /\ UNCHANGED <<order, pub, auth, issued>> /\ UNCHANGED certVars

\* Both loops on the CA count their rounds.
PollAgain ==
    /\ \/ pc = "poll" /\ auth[Head(todo)] = "triggered"
       \/ pc = "order" /\ issued = "none"
    /\ polls < MaxPolls /\ polls' = polls + 1
    /\ UNCHANGED <<pc, todo, order, txt, pub, auth, issued, excused, faults>>
    /\ UNCHANGED certVars

\* "authorization invalid", "order invalid", or the last round has passed.
GiveUp ==
    /\ \/ pc = "poll" /\ auth[Head(todo)] = "invalid"
       \/ pc = "poll" /\ auth[Head(todo)] = "triggered" /\ polls = MaxPolls
       \/ pc = "order" /\ issued = "refused"
       \/ pc = "order" /\ issued = "none" /\ polls = MaxPolls
    /\ Abandon /\ UNCHANGED faults /\ UNCHANGED certVars

\* A new key, the CSR and the finalize request.
Finalize ==
    /\ pc = "authz" /\ todo = <<>>
    /\ pc' = "order"
    /\ UNCHANGED <<todo, order, polls, txt, pub, auth, issued, excused, faults>>
    /\ UNCHANGED certVars

\* The order is valid: the chain is downloaded and run_certs begins to save it.
Download ==
    /\ pc = "order" /\ issued = "issued"
    /\ pc' = "cert" /\ polls' = 0
    /\ TruncateCert
    /\ UNCHANGED <<todo, order, txt, pub, auth, issued, excused, faults>>

\* cert_store_save; meta.json, which nothing depends on, goes with the last step.
Save ==
    /\ \/ pc = "cert"  /\ WriteCert(order) /\ pc' = "key"
       \/ pc = "key"   /\ TruncateKey      /\ pc' = "write"
       \/ pc = "write" /\ WriteKey(order)  /\ pc' = "idle"
    /\ UNCHANGED <<todo, order, polls, txt, pub, auth, issued, excused, faults>>

\* A request or a write fails: an error return.  In the two polling loops a
\* failed request leaves a null body, on which value() throws: the command dies.
\* It may also be killed anywhere.
Fails ==
    /\ pc # "idle" /\ pc # "rm" /\ MayFail /\ Spend(TRUE)
    /\ Abandon /\ UNCHANGED certVars

\* `certs rm`: the directory is removed, file by file.
Remove ==
    /\ pc \in {"idle", "rm"} /\ RemoveOne
    /\ pc' = IF cert' = None /\ key' = None THEN "idle" ELSE "rm"
    /\ UNCHANGED <<todo, order, polls, txt, pub, auth, issued, excused, faults>>

RemoveKilled ==
    /\ pc = "rm" /\ MayFail /\ Spend(TRUE) /\ pc' = "idle"
    /\ UNCHANGED <<todo, order, polls, txt, pub, auth, issued, excused>>
    /\ UNCHANGED certVars

-----------------------------------------------------------------------------
(* The certificate authority and the resolvers *)

Publish(d) ==
    /\ pub[d] # txt[d] /\ pub' = [pub EXCEPT ![d] = txt[d]]
    /\ UNCHANGED <<pc, todo, order, polls, txt, auth, issued, excused, faults>>
    /\ UNCHANGED certVars

Validate(d) ==
    /\ auth[d] = "triggered"
    /\ auth' = [auth EXCEPT ![d] = IF order \in pub[d] THEN "valid" ELSE "invalid"]
    /\ UNCHANGED <<pc, todo, order, polls, txt, pub, issued, excused, faults>>
    /\ UNCHANGED certVars

Decide ==
    /\ pc = "order" /\ issued = "none" /\ issued' \in {"issued", "refused"}
    /\ UNCHANGED <<pc, todo, order, polls, txt, pub, auth, excused, faults>>
    /\ UNCHANGED certVars

Command == \/ Authz \/ SetTxt \/ Propagate \/ Trigger \/ Validated \/ PollAgain
           \/ GiveUp \/ Finalize \/ Download \/ Save

Authority == Decide \/ \E d \in Domain : Publish(d) \/ Validate(d)

vars == <<cert, key, cache, shake, saves, emptyRead, pc, todo, order, polls, txt,
          pub, auth, issued, excused, faults>>

Init ==
    /\ CertInit
    /\ pc = "idle" /\ todo = <<>> /\ order = 0 /\ polls = 0
    /\ txt = [d \in Domain |-> {}] /\ pub = [d \in Domain |-> {}]
    /\ auth = [d \in Domain |-> "pending"] /\ issued = "none"
    /\ excused = {} /\ faults = 0

Next ==
    \/ Issue \/ Command \/ Fails \/ Remove \/ RemoveKilled
    \/ Authority
    \/ Handshake /\ UNCHANGED acmeVars /\ UNCHANGED faults

Spec == Init /\ [][Next]_vars

===============================================================================
