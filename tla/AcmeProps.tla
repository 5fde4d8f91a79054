---------------------------- MODULE AcmeProps ------------------------------
(***************************************************************************)
(* What makes certificate issuing and the certificate store correct.       *)
(***************************************************************************)
EXTENDS Acme

\* An order that ends with a certificate takes its challenge records with it:
\* what is left at a challenge name comes from orders that failed, or whose
\* clean-up request did.  Nothing is said of an apex, whose relative name the
\* provider may not find again.
SuccessLeavesNoTxt ==
    \A d \in Domain \ Apex : \A n \in txt[d] :
        n \in excused \/ (n = order /\ pc # "idle" /\ todo # <<>> /\ Head(todo) = d)

\* When the authority is asked to look, the record of this order is there, and
\* it is the only one: what earlier orders left behind is gone, unless some
\* request failed or the name is an apex's.
ChallengeIsAlone ==
    pc \in {"propagate", "trigger", "poll"} =>
        /\ order \in txt[Head(todo)]
        /\ (faults = 0 /\ Head(todo) \notin Apex) => txt[Head(todo)] = {order}

\* While the first certificate of a domain is being saved, handshakes are
\* refused or served; one that caches a context without a pair, which would fail
\* every later handshake, has read cert.pem in the instant it was empty.  The
\* order of the two files and the check for an empty key see to the rest.
FirstIssuePoisonsOnlyByEmptyRead ==
    (saves <= 1 /\ ~emptyRead) =>
        /\ cache # Broken
        /\ \A t \in Thread : shake[t].pc = "install" => shake[t].ctx # Broken

===============================================================================
