------------------------------ MODULE FrontEnd ------------------------------
(***************************************************************************)
(* The HTTP front end of cmd/nanomdm before certificate authentication:    *)
(* every request's certificate is extracted and verified (http/mdm); one   *)
(* to an MDM endpoint then is decoded and handed to CertAuth, one to the   *)
(* authenticating proxy (http/authproxy) is forwarded with the ID of the   *)
(* enrollment its certificate is associated with.  Nothing but the         *)
(* look-ups and the association touches shared state, so a request is one  *)
(* step up to its first storage call; a refused one has no effect.         *)
(***************************************************************************)
EXTENDS CertAuth

CONSTANT Trusted     \* the certificates issued by the CAs of -ca

ASSUME TrustedAssumption == Trusted \subseteq Certs

VARIABLES
    hashCert,        \* the key-value backends' enrollment of a certificate
    proxied,         \* the proxied request r: its certificate, and the ID
                     \* it goes with
    served           \* history: <<device, certificate>> let through

front == <<hashCert, proxied, served>>

NotProxied == [id |-> None, cert |-> None]

FrontTypeOK ==
    /\ TypeOK
    /\ hashCert \in [Certs -> Devices \cup {None}]
    /\ proxied \in [Requests -> [id : Devices, cert : Trusted] \cup {NotProxied}]
    /\ served \subseteq Devices \X Certs

FrontInit ==
    /\ Init
    /\ hashCert = [c \in Certs |-> None]
    /\ proxied = [r \in Requests |-> NotProxied]
    /\ served = {}

-----------------------------------------------------------------------------
(* What a request comes with: a certificate or none, in a header that can  *)
(* be read or a signature that is right, or not.                           *)
Headers == [cert : Certs \cup {None}, good : BOOLEAN]

(* A signature that is wrong is refused here, a header that cannot be read *)
(* leaves no certificate, which is refused by the verifier.                *)
CertExtract(h) == IF h.good THEN h.cert ELSE None

Verify(c) == c \in Trusted

HasPassed(h) == Verify(CertExtract(h))

Free(r) == req[r] = NoRequest /\ proxied[r] = NotProxied

(* CheckinHandler, CommandAndReportResultsHandler, CheckinAndCommandHandler *)
MDM(r, h, d, msg) ==
    /\ Free(r) /\ HasPassed(h)
    /\ Receive(r, d, CertExtract(h), msg)
    /\ UNCHANGED front

HashCertForgotten(r) == hashCert     \* a mutant

HashCertKept(r) == [hashCert EXCEPT ![req[r].cert] = req[r].id]

Associate(r) ==
    /\ AssociateCertHash(r)
    /\ hashCert' = HashCertKept(r)
    /\ UNCHANGED <<proxied, served>>

Finish(r) ==
    /\ Respond(r)
    /\ served' = IF At(r, "next") THEN served \cup {<<req[r].id, req[r].cert>>}
                 ELSE served
    /\ UNCHANGED <<hashCert, proxied>>

(* One of the rows, or the key *)
EnrollmentFromHash(c) ==
    IF backend = "sql" THEN {d \in Devices : <<d, c>> \in assoc}
    ELSE {hashCert[c]} \ {None}

(* CertWithEnrollmentIDMiddleware, with enforce *)
AuthProxy(r, h) ==
    /\ Free(r) /\ HasPassed(h)
    /\ \E d \in EnrollmentFromHash(CertExtract(h)) :
          proxied' = [proxied EXCEPT ![r] = [id |-> d, cert |-> CertExtract(h)]]
    /\ UNCHANGED <<vars, hashCert, served>>

Forwarded(r) ==
    /\ proxied[r] # NotProxied
    /\ proxied' = [proxied EXCEPT ![r] = NotProxied]
    /\ UNCHANGED <<vars, hashCert, served>>

FrontNext == \E r \in Requests :
    \/ \E h \in Headers, d \in Devices, msg \in {"Authenticate", "other"} : MDM(r, h, d, msg)
    \/ /\ HasCertHash(r) \/ IsCertHashAssociated(r) \/ EnrollmentHasCertHash(r) \/ Fail(r)
       /\ UNCHANGED front
    \/ Associate(r) \/ Finish(r)
    \/ \E h \in Headers : AuthProxy(r, h)
    \/ Forwarded(r)

FrontSpec == FrontInit /\ [][FrontNext]_<<vars, front>>

-----------------------------------------------------------------------------
(* "this endpoint will authenticate the incoming request in the same way   *)
(* as other MDM endpoints" (docs/operations-guide.md, of /authproxy/): a   *)
(* proxied request goes with the ID of the only device whose messages with *)
(* that certificate are, or ever were, let through, although the two ways  *)
(* look it up in different keys and columns; and on SQL a message with it  *)
(* would be let through now.                                               *)
ProxiedAsServed ==
    \A r \in Requests : proxied[r] # NotProxied =>
        /\ \A d \in Devices : <<d, proxied[r].cert>> \in served => d = proxied[r].id
        /\ backend = "sql" => <<proxied[r].id, proxied[r].cert>> \in assoc

(* And it does let requests through: a device whose Authenticate was let   *)
(* through is known by that certificate, and no other device is, whatever  *)
(* failed or came in between.                                              *)
EnrolledIsProxied ==
    \A d \in Devices : enrolled[d] # None => EnrollmentFromHash(enrolled[d]) = {d}

(* Why: on every backend hashCert would do for the look-up, and once a     *)
(* certificate is associated its enrollment is never overwritten.          *)
HashInv ==
    /\ \A a \in assoc : hashCert[a[2]] = a[1]
    /\ \A c \in Certs : hashCert[c] # None =>
          c \in hashes /\ (backend = "sql" => <<hashCert[c], c>> \in assoc)
    /\ \A r \in Requests : At(r, "AssociateCertHash") =>
          hashCert[req[r].cert] \in {None, req[r].id}
    /\ \A s \in served : hashCert[s[2]] = s[1]
    /\ \A d \in Devices : enrolled[d] # None => hashCert[enrolled[d]] = d
    /\ \A r \in Requests : proxied[r] # NotProxied =>
          hashCert[proxied[r].cert] = proxied[r].id

FrontInv == AssocInv /\ FrontTypeOK /\ HashInv

=============================================================================
