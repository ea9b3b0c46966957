------------------------------ MODULE CertAuth ------------------------------
(***************************************************************************)
(* Certificate authentication (service/certauth): an Authenticate message  *)
(* associates the certificate it came with and the enrollment, any other   *)
(* message must come with an associated certificate, or, when retroactive  *)
(* associations are allowed, associates one to an enrollment without.      *)
(* Each look-up, and the association it decides on, is a storage call of   *)
(* its own, between which other requests and errors may come.              *)
(*                                                                         *)
(* The SQL backends (mysql, pgsql) keep every association in a row; the    *)
(* key-value backends keep the last one of an enrollment, and the last one *)
(* of a certificate.                                                       *)
(***************************************************************************)
EXTENDS Naturals

CONSTANTS
    Devices,     \* enrollments, by the ID of their device channel (normalize)
    Certs,
    Requests,    \* requests that may be under way at once
    Backends,    \* the stores considered: "sql" or "kv"
    Allowed,     \* what the clients may do: see Troubles
    MaxFail,     \* bound on storage errors
    None         \* no device or certificate

(* "share": requests that overlap may come from two devices with one       *)
(* certificate, or from one device with two.  "goBack": a device may       *)
(* present a certificate again that it had before its present one.         *)
Troubles == {"share", "goBack"}

ASSUME CertAuthAssumption ==
    /\ Backends \subseteq {"sql", "kv"}
    /\ Allowed \subseteq Troubles /\ MaxFail \in Nat
    /\ None \notin Devices \cup Certs

VARIABLES
    backend,            \* the store in use
    allowRetroactive,
    assoc,              \* <<device, certificate>> associated
    hashes,             \* the certificates ever associated
    req,                \* request r: its message, and the call it makes next
    presented,          \* history: which device presented which certificate
    current,            \* history: the last certificate a device presented
    enrolled,           \* history: the certificate of its last Authenticate
                        \*          that was let through
    fails

config  == <<backend, allowRetroactive>>
store   == <<assoc, hashes>>
history == <<presented, current, enrolled>>
vars    == <<config, store, req, history, fails>>

Calls == {"HasCertHash", "IsCertHashAssociated", "EnrollmentHasCertHash",
          "AssociateCertHash"}

NoRequest == [at |-> "idle", msg |-> None, id |-> None, cert |-> None]

InFlight ==
    [at : Calls \cup {"next", "denied"}, msg : {"Authenticate", "other"},
     id : Devices, cert : Certs]

TypeOK ==
    /\ backend \in Backends /\ allowRetroactive \in BOOLEAN
    /\ assoc \subseteq Devices \X Certs /\ hashes \subseteq Certs
    /\ req \in [Requests -> InFlight \cup {NoRequest}]
    /\ presented \subseteq Devices \X Certs
    /\ current \in [Devices -> Certs \cup {None}]
    /\ enrolled \in [Devices -> Certs \cup {None}]
    /\ fails \in 0 .. MaxFail

Init ==
    /\ backend \in Backends /\ allowRetroactive \in BOOLEAN
    /\ assoc = {} /\ hashes = {}
    /\ req = [r \in Requests |-> NoRequest]
    /\ presented = {}
    /\ current = [d \in Devices |-> None] /\ enrolled = [d \in Devices |-> None]
    /\ fails = 0

-----------------------------------------------------------------------------
(* The clients: a certificate is issued for a device or embedded in a      *)
(* profile that several install, and renewed.                              *)
MayPresent(d, c) ==
    /\ "share" \in Allowed \/ \A q \in Requests :
          req[q] # NoRequest => (req[q].id = d <=> req[q].cert = c)
    /\ "goBack" \in Allowed \/ current[d] = c \/ <<d, c>> \notin presented

Receive(r, d, c, msg) ==
    /\ req[r] = NoRequest /\ MayPresent(d, c)
    /\ req' = [req EXCEPT ![r] =
          [at |-> IF msg = "Authenticate" THEN "HasCertHash" ELSE "IsCertHashAssociated",
           msg |-> msg, id |-> d, cert |-> c]]
    /\ presented' = presented \cup {<<d, c>>}
    /\ current' = [current EXCEPT ![d] = c]
    /\ UNCHANGED <<config, store, enrolled, fails>>

-----------------------------------------------------------------------------
(* associateNewEnrollment and validateAssociateExistingEnrollment *)

At(r, call) == req[r].at = call

Then(r, call) == req' = [req EXCEPT ![r].at = call]

New(r) == req[r].msg = "Authenticate"

(* A certificate seen before is good for a new enrollment only if it is    *)
(* this enrollment's; for an existing one it never is.                     *)
NeverSeen(r) == FALSE     \* a mutant

Seen(r) == req[r].cert \in hashes

HasCertHash(r) ==
    /\ At(r, "HasCertHash")
    /\ Then(r, IF ~ Seen(r) THEN "AssociateCertHash"
               ELSE IF New(r) THEN "IsCertHashAssociated" ELSE "denied")
    /\ UNCHANGED <<config, store, history, fails>>

NeverAssociated(r) == FALSE     \* a mutant

Associated(r) == <<req[r].id, req[r].cert>> \in assoc

IsCertHashAssociated(r) ==
    /\ At(r, "IsCertHashAssociated")
    /\ Then(r, IF Associated(r) THEN "next"
               ELSE IF ~ New(r) /\ allowRetroactive THEN "EnrollmentHasCertHash"
               ELSE "denied")
    /\ UNCHANGED <<config, store, history, fails>>

NeverHas(r) == FALSE     \* a mutant

EnrollmentHas(r) == \E c \in Certs : <<req[r].id, c>> \in assoc

EnrollmentHasCertHash(r) ==
    /\ At(r, "EnrollmentHasCertHash")
    /\ Then(r, IF EnrollmentHas(r) THEN "denied" ELSE "HasCertHash")
    /\ UNCHANGED <<config, store, history, fails>>

(* A row of its own, or the keys of the device and the certificate *)
Kept(r) == IF backend = "sql" THEN assoc
           ELSE {a \in assoc : a[1] # req[r].id}

AssociateCertHash(r) ==
    /\ At(r, "AssociateCertHash")
    /\ assoc' = Kept(r) \cup {<<req[r].id, req[r].cert>>}
    /\ hashes' = hashes \cup {req[r].cert}
    /\ Then(r, "next")
    /\ UNCHANGED <<config, history, fails>>

(* The message goes on to the next service, or is refused. *)
Respond(r) ==
    /\ req[r].at \in {"next", "denied"}
    /\ enrolled' = IF At(r, "next") /\ New(r)
                   THEN [enrolled EXCEPT ![req[r].id] = req[r].cert] ELSE enrolled
    /\ req' = [req EXCEPT ![r] = NoRequest]
    /\ UNCHANGED <<config, store, presented, current, fails>>

Fail(r) ==
    /\ req[r].at \in Calls
    /\ fails < MaxFail /\ fails' = fails + 1
    /\ req' = [req EXCEPT ![r] = NoRequest]
    /\ UNCHANGED <<config, store, history>>

Next == \E r \in Requests :
    \/ \E d \in Devices, c \in Certs, msg \in {"Authenticate", "other"} :
          Receive(r, d, c, msg)
    \/ HasCertHash(r) \/ IsCertHashAssociated(r) \/ EnrollmentHasCertHash(r)
    \/ AssociateCertHash(r) \/ Respond(r) \/ Fail(r)

Spec == Init /\ [][Next]_vars

-----------------------------------------------------------------------------
(* "every enrollment should be a uniquely issued certificate": no          *)
(* certificate is associated with two enrollments, although the look-up    *)
(* and the association are separate calls.                                 *)
OneOwner == \A a, b \in assoc : a[2] = b[2] => a[1] = b[1]

(* "if the enrollment has an existing association we explicitly disallow   *)
(* re-association": the certificate an Authenticate was let through with   *)
(* stays the enrollment's until the next Authenticate, retroactive         *)
(* associations notwithstanding.                                           *)
EnrolledStays ==
    \A d \in Devices : enrolled[d] # None =>
        \/ <<d, enrolled[d]>> \in assoc
        \/ \E r \in Requests : req[r].id = d /\ At(r, "next") /\ New(r)

(* And none is added to it but by an Authenticate. *)
ReassociatedByAuthenticate ==
    [][\A a \in assoc' \ assoc : (\E c \in Certs : <<a[1], c>> \in assoc) =>
          \E r \in Requests : New(r) /\ <<req[r].id, req[r].cert>> = a]_vars

(* A device that authenticates with a certificate no other device ever     *)
(* presented is let through: "the only way this should happen is if the    *)
(* cert is embedded in the profile and they're re-using the cert.  permit  *)
(* this one case", also after a failure anywhere in the previous attempt.  *)
NotLockedOut ==
    \A r \in Requests : At(r, "denied") /\ New(r) =>
        \E d \in Devices \ {req[r].id} : <<d, req[r].cert>> \in presented

(* Why, for clients without troubles *)
LookUpInv ==
    \A r \in Requests : req[r] # NoRequest =>
        /\ current[req[r].id] = req[r].cert
        /\ <<req[r].id, req[r].cert>> \in presented
        /\ \A q \in Requests : req[q] # NoRequest =>
              (req[q].id = req[r].id <=> req[q].cert = req[r].cert)
        /\ At(r, "next") => Associated(r)
        /\ At(r, "AssociateCertHash") =>
              \A a \in assoc : a[2] = req[r].cert => a[1] = req[r].id
        /\ New(r) /\ At(r, "IsCertHashAssociated") => Seen(r)
        /\ At(r, "EnrollmentHasCertHash") => ~ New(r)
        /\ ~ New(r) /\ req[r].at \in {"HasCertHash", "AssociateCertHash"} =>
              \A a \in assoc : a[1] = req[r].id => a[2] = req[r].cert

AssocInv ==
    /\ TypeOK
    /\ \A a \in assoc : a[2] \in hashes
    /\ \A c \in hashes : \E d \in Devices : <<d, c>> \in presented
    /\ \A d \in Devices : current[d] \in hashes =>
          \/ <<d, current[d]>> \in assoc
          \/ \E e \in Devices \ {d} : <<e, current[d]>> \in presented
    /\ LookUpInv
    /\ OneOwner /\ EnrolledStays /\ NotLockedOut

=============================================================================
