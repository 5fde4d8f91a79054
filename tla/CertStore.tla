------------------------------ MODULE CertStore ------------------------------
(***************************************************************************)
(* The certificate store of src/exposure/certs.cpp for one domain, and the *)
(* TLS handshakes of the proxy that read it (sni_callback in               *)
(* src/proxy/proxy.cpp).  A certificate and the key made for it carry the  *)
(* number of the order they come from; 0 is a file that has been truncated *)
(* and not yet written.                                                    *)
(***************************************************************************)
EXTENDS Naturals

CONSTANTS None,      \* no file, no context
          Thread     \* handshake threads of the proxy

VARIABLES cert,      \* cert.pem
          key,       \* key.pem
          cache,     \* the SSL_CTX cached for the domain: None, or the number of
                     \* its pair, 0 when it has none
          shake,     \* the handshakes in progress
          saves,     \* history: saves begun
          emptyRead  \* history: a handshake has read a truncated cert.pem

certVars == <<cert, key, cache, shake, saves, emptyRead>>

NoShake == [pc |-> "none"]

\* What SSL_CTX_use_certificate and SSL_CTX_use_PrivateKey make of the two
\* texts: unreadable PEM installs nothing, a key of another certificate is
\* refused by the library; a context without a pair fails every handshake.
Broken == 0
Context(c, k) == IF c = k THEN c ELSE Broken

\* cert_store_load reads cert.pem; without it the handshake is refused.
ReadCert(t) ==
    /\ shake[t] = NoShake /\ cert # None
    /\ shake' = [shake EXCEPT ![t] = [pc |-> "key", cert |-> cert]]
    /\ emptyRead' = (emptyRead \/ cert = 0)
    /\ UNCHANGED <<cert, key, cache, saves>>

\* Mutant of Usable: a missing or empty key does not refuse the handshake.
UsableAlways == TRUE

\* "key_pem.empty()": no key.pem, or one just truncated.
Usable == key # None /\ key # 0

\* key.pem is read, and the cache looked up under its mutex: a context found
\* there is used, whatever was read.
ReadKey(t) ==
    /\ shake[t].pc = "key"
    /\ shake' = [shake EXCEPT ![t] =
                    IF Usable /\ cache = None
                    THEN [pc |-> "install",
                          ctx |-> Context(shake[t].cert, IF key = None THEN 0 ELSE key)]
                    ELSE NoShake]
    /\ UNCHANGED <<cert, key, cache, saves, emptyRead>>

\* The context built without the mutex goes into the cache, over one that
\* another handshake may have put there meanwhile.
Install(t) ==
    /\ shake[t].pc = "install"
    /\ cache' = shake[t].ctx
    /\ shake' = [shake EXCEPT ![t] = NoShake]
    /\ UNCHANGED <<cert, key, saves, emptyRead>>

\* The cache lives as long as the proxy.
ProxyRestart ==
    /\ cache # None
    /\ cache' = None /\ shake' = [t \in Thread |-> NoShake]
    /\ UNCHANGED <<cert, key, saves, emptyRead>>

Handshake == \/ \E t \in Thread : ReadCert(t) \/ ReadKey(t) \/ Install(t)
             \/ ProxyRestart

\* cert_store_save opens each file with ios::trunc and then writes it.
TruncateCert == cert' = 0 /\ saves' = saves + 1
                /\ UNCHANGED <<key, cache, shake, emptyRead>>
WriteCert(n) == cert' = n /\ UNCHANGED <<key, cache, shake, saves, emptyRead>>
TruncateKey  == key' = 0  /\ UNCHANGED <<cert, cache, shake, saves, emptyRead>>
WriteKey(n)  == key' = n  /\ UNCHANGED <<cert, cache, shake, saves, emptyRead>>

\* cert_store_remove: remove_all takes the files in any order.
RemoveOne ==
    /\ \/ cert # None /\ cert' = None /\ UNCHANGED key
       \/ key # None  /\ key' = None  /\ UNCHANGED cert
    /\ UNCHANGED <<cache, shake, saves, emptyRead>>

CertInit ==
    /\ cert = None /\ key = None /\ cache = None
    /\ shake = [t \in Thread |-> NoShake] /\ saves = 0
    /\ emptyRead = FALSE

===============================================================================
