----------------------------- MODULE PushCerts -----------------------------
(***************************************************************************)
(* The push providers of one topic (getProvider in                         *)
(* push/service/service.go) and the store of its push certificate.         *)
(*                                                                         *)
(* Each call of getProvider (a thread) looks in the cache, asks the store  *)
(* whether the cached provider's certificate is stale, and if so retrieves *)
(* the certificate and caches a new provider: four steps, the lock held    *)
(* only inside the first and the last.  Meanwhile certificates are         *)
(* uploaded.  The SQL backends read and write the certificate, its key and *)
(* its stale token together; the file backend reads three files and writes *)
(* two; the key-value backend reads three keys that it writes in one       *)
(* transaction.  (Names are chosen so that Push_proofs can extend this     *)
(* module and PushEnqueuer.)                                               *)
(***************************************************************************)
EXTENDS Naturals

CONSTANTS
    Threads,
    Backends,    \* the stores considered: "sql", "kv" or "file"
    Overlap,     \* may an upload overlap a retrieval that reads key by key?
    SameKey,     \* is a certificate renewed for the same private key?
    MaxCert,     \* bound on the uploads; certificate n is the n-th upload
    MaxFail      \* bound on storage errors

ASSUME PushAssumption ==
    /\ Backends \subseteq {"sql", "kv", "file"}
    /\ Overlap \in BOOLEAN /\ SameKey \in BOOLEAN
    /\ MaxCert \in Nat /\ MaxFail \in Nat

VARIABLES
    backend,     \* the store in use
    pem,         \* the stored certificate, 0 when there is none
    key,         \* the private key stored with it
    token,       \* the stale token: tells uploads apart
    provider,    \* the cached provider: its certificate and stale token
    stage,       \* where thread t stands
    prov,        \* the provider thread t read from the cache or built
    began,       \* the certificate stored when t began (history)
    fails

certVars == <<backend, pem, key, token, provider, stage, prov, began, fails>>

storeVars == <<backend, pem, key, token>>

NoneCached == [cert |-> 0, token |-> 0]
Providers  == [cert : 0 .. MaxCert, token : 0 .. MaxCert]

CertsTypeOK ==
    /\ backend \in Backends
    /\ pem \in 0 .. MaxCert /\ key \in 0 .. MaxCert /\ token \in 0 .. MaxCert
    /\ provider \in Providers
    /\ stage \in [Threads -> {"idle", "check", "pem", "key", "token", "cache", "push"}]
    /\ prov \in [Threads -> Providers]
    /\ began \in [Threads -> 0 .. MaxCert]
    /\ fails \in 0 .. MaxFail

CertsInit ==
    /\ backend \in Backends
    /\ pem = 0 /\ key = 0 /\ token = 0
    /\ provider = NoneCached
    /\ stage = [t \in Threads |-> "idle"]
    /\ prov = [t \in Threads |-> NoneCached]
    /\ began = [t \in Threads |-> 0]
    /\ fails = 0

Go(t, from, to) == stage[t] = from /\ stage' = [stage EXCEPT ![t] = to]

-----------------------------------------------------------------------------
(* Certificates are uploaded one at a time. *)
MayStore ==
    /\ pem < MaxCert /\ key = pem
    /\ Overlap \/ \A t \in Threads : stage[t] \notin {"key", "token"}

(* An administrator uploads a certificate and its key.  The stale token is *)
(* a counter, or the modification time of the certificate file.            *)
StoreKeepingToken ==     \* a mutant
    /\ MayStore
    /\ pem' = pem + 1
    /\ key' = IF backend = "file" THEN key ELSE pem + 1
    /\ token' = IF token = 0 THEN 1 ELSE token
    /\ UNCHANGED <<backend, provider, stage, prov, began, fails>>

Store ==
    /\ MayStore
    /\ pem' = pem + 1
    /\ key' = IF backend = "file" THEN key ELSE pem + 1
    /\ token' = pem + 1
    /\ UNCHANGED <<backend, provider, stage, prov, began, fails>>

(* The file backend writes the key file after the certificate file. *)
StoreKeyFile ==
    /\ backend = "file" /\ key # pem
    /\ key' = pem
    /\ UNCHANGED <<backend, pem, token, provider, stage, prov, began, fails>>

-----------------------------------------------------------------------------
Begin(t) ==
    /\ Go(t, "idle", IF provider = NoneCached THEN "pem" ELSE "check")
    /\ prov' = [prov EXCEPT ![t] = provider]
    /\ began' = [began EXCEPT ![t] = pem]
    /\ UNCHANGED <<storeVars, provider, fails>>

NeverStale(t) == FALSE     \* a mutant

IsPushCertStale(t) == prov[t].token # token

(* A provider that is not stale is used, any other one is replaced. *)
Check(t) ==
    /\ Go(t, "check", IF IsPushCertStale(t) THEN "pem" ELSE "push")
    /\ UNCHANGED <<storeVars, provider, prov, began, fails>>

(* RetrievePushCert: one row of SQL, or one file or key after the other.   *)
(* Without a certificate, or with a key that is not the certificate's, the *)
(* call fails.                                                             *)
RetrieveRow(t) ==
    /\ backend = "sql"
    /\ Go(t, "pem", IF pem = 0 THEN "idle" ELSE "cache")
    /\ prov' = [prov EXCEPT ![t] = [cert |-> pem, token |-> token]]
    /\ UNCHANGED <<storeVars, provider, began, fails>>

ReadPem(t) ==
    /\ backend # "sql"
    /\ Go(t, "pem", IF pem = 0 THEN "idle" ELSE "key")
    /\ prov' = [prov EXCEPT ![t].cert = pem]
    /\ UNCHANGED <<storeVars, provider, began, fails>>

X509KeyPair(cert, k) == k # 0 /\ (SameKey \/ cert = k)

ReadKey(t) ==
    /\ Go(t, "key", IF X509KeyPair(prov[t].cert, key) THEN "token" ELSE "idle")
    /\ UNCHANGED <<storeVars, provider, prov, began, fails>>

ReadToken(t) ==
    /\ Go(t, "token", "cache")
    /\ prov' = [prov EXCEPT ![t].token = token]
    /\ UNCHANGED <<storeVars, provider, began, fails>>

Cache(t) ==
    /\ Go(t, "cache", "push")
    /\ provider' = prov[t]
    /\ UNCHANGED <<storeVars, prov, began, fails>>

(* The caller pushes with the provider it got. *)
PushWith(t) ==
    /\ Go(t, "push", "idle")
    /\ UNCHANGED <<storeVars, provider, prov, began, fails>>

(* A call of the store fails, and getProvider with it. *)
Fail(t) ==
    /\ stage[t] \in {"check", "pem", "key", "token"}
    /\ fails < MaxFail /\ fails' = fails + 1
    /\ stage' = [stage EXCEPT ![t] = "idle"]
    /\ UNCHANGED <<storeVars, provider, prov, began>>

getProvider(t) ==
    \/ Begin(t) \/ Check(t) \/ RetrieveRow(t)
    \/ ReadPem(t) \/ ReadKey(t) \/ ReadToken(t)
    \/ Cache(t) \/ PushWith(t)

CertsNext ==
    \/ Store \/ StoreKeyFile
    \/ \E t \in Threads : getProvider(t) \/ Fail(t)

CertsSpec == CertsInit /\ [][CertsNext]_certVars

(* Pushes keep being sent, and every call of the store returns. *)
CertsFairSpec ==
    /\ CertsSpec
    /\ WF_certVars(StoreKeyFile)
    /\ \A t \in Threads : WF_certVars(getProvider(t))

-----------------------------------------------------------------------------
(* "The staleToken ... should turn stale (and return true) if the          *)
(* certificate has changed": a cached provider, or one about to be cached, *)
(* whose token the store takes for current has the current certificate.    *)
(* A provider paired with the token of a later upload would be used until  *)
(* the upload after that.                                                  *)
StaleNoticed ==
    /\ provider # NoneCached /\ provider.token = token => provider.cert = pem
    /\ \A t \in Threads :
          stage[t] = "cache" /\ prov[t].token = token => prov[t].cert = pem

(* A push that begins after an upload does not use an older certificate,   *)
(* though slower calls may put older providers back into the cache.        *)
PushesCurrent == \A t \in Threads : stage[t] = "push" => prov[t].cert >= began[t]

(* Once the uploads stop, the cache settles on the last certificate.       *)
CacheSettles == <>[](pem = MaxCert => provider.cert = MaxCert)

(* Why the first two hold when the certificate and its token are one row:  *)
(* tokens identify uploads, and a thread's certificate is the current one  *)
(* or from before.                                                         *)
TokenInv ==
    /\ CertsTypeOK
    /\ token = pem
    /\ provider.token = provider.cert /\ provider.cert <= pem
    /\ \A t \in Threads :
          /\ prov[t].token = prov[t].cert /\ prov[t].cert <= pem
          /\ began[t] <= pem
          /\ stage[t] \in {"cache", "push"} => prov[t].cert >= began[t]
          /\ stage[t] \notin {"key", "token"}

=============================================================================
