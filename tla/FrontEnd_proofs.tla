--------------------------- MODULE FrontEnd_proofs ---------------------------
(* Theorems about CertAuth, and about FrontEnd, which extends it: for       *)
(* clients without the troubles, any number of enrollments, certificates   *)
(* and concurrent requests, on either kind of backend.                     *)
EXTENDS FrontEnd, TLAPS

-----------------------------------------------------------------------------
(* CertAuth *)

LEMMA AssocInvInit == Init => AssocInv
BY CertAuthAssumption
   DEF Init, AssocInv, TypeOK, LookUpInv, OneOwner, EnrolledStays, NotLockedOut,
       NoRequest, At

(* A step of request r that does not wrongly deny it *)
LEMMA DeniedStep ==
    ASSUME NotLockedOut, NEW r \in Requests,
           \A q \in Requests \ {r} : req'[q] = req[q],
           presented' = presented,
           req'[r].at = "denied" /\ req'[r].msg = "Authenticate" =>
               \E d \in Devices \ {req'[r].id} : <<d, req'[r].cert>> \in presented
    PROVE  NotLockedOut'
<1> SUFFICES ASSUME NEW q \in Requests, req'[q].at = "denied", req'[q].msg = "Authenticate"
             PROVE  \E d \in Devices \ {req'[q].id} : <<d, req'[q].cert>> \in presented
  BY DEF NotLockedOut, At, New
<1>1. CASE q = r
  BY <1>1
<1>2. CASE q # r
  <2>1. req'[q] = req[q]
    BY <1>2
  <2> QED BY <2>1 DEF NotLockedOut, At, New
<1> QED BY <1>1, <1>2

LEMMA ReceiveInv ==
    ASSUME Allowed = {}, AssocInv, NEW r \in Requests, NEW d \in Devices,
           NEW c \in Certs, NEW msg \in {"Authenticate", "other"}, Receive(r, d, c, msg)
    PROVE  AssocInv'
<1> USE CertAuthAssumption DEF AssocInv, Receive, MayPresent, store, config
<1>1. TypeOK'
  BY DEF TypeOK, InFlight, Calls
<1>2. req[r] = NoRequest /\ req' = [req EXCEPT ![r] = req'[r]] /\ req'[r] # NoRequest
  BY <1>1 DEF TypeOK, NoRequest
<1>3. (\A a \in assoc : a[2] \in hashes)' /\ OneOwner'
  BY DEF OneOwner
<1>4. (\A x \in hashes : \E e \in Devices : <<e, x>> \in presented)'
  OBVIOUS
<1>5. (\A e \in Devices : current[e] \in hashes =>
          \/ <<e, current[e]>> \in assoc
          \/ \E f \in Devices \ {e} : <<f, current[e]>> \in presented)'
  BY DEF TypeOK
<1>6. LookUpInv'
  BY <1>2 DEF LookUpInv, TypeOK, At, New, Seen, Associated
<1>7. EnrolledStays'
  BY <1>2 DEF EnrolledStays, TypeOK, At, New, NoRequest
<1>8. NotLockedOut'
  BY <1>2 DEF NotLockedOut, TypeOK, At, New, NoRequest
<1> QED BY <1>1, <1>3, <1>4, <1>5, <1>6, <1>7, <1>8

(* The look-ups only move their request on. *)
LEMMA HasCertHashInv ==
    ASSUME Allowed = {}, AssocInv, NEW r \in Requests, HasCertHash(r)
    PROVE  AssocInv'
<1> USE CertAuthAssumption DEF AssocInv, HasCertHash, Then, store, config, history
<1>1. TypeOK'
  BY DEF TypeOK, InFlight, Calls, NoRequest, At
<1>2. /\ req[r] # NoRequest /\ req'[r] # NoRequest
      /\ req'[r].id = req[r].id /\ req'[r].cert = req[r].cert /\ req'[r].msg = req[r].msg
      /\ \A q \in Requests \ {r} : req'[q] = req[q]
  BY DEF TypeOK, InFlight, Calls, NoRequest, At
<1>3. LookUpInv'
  BY <1>1, <1>2 DEF LookUpInv, TypeOK, At, New, Seen, Associated, InFlight, Calls, NoRequest
<1>4. EnrolledStays'
  BY <1>2 DEF EnrolledStays, At, New
<1>5. NotLockedOut'
  BY <1>2, DeniedStep DEF At, New, TypeOK
<1> QED BY <1>1, <1>3, <1>4, <1>5 DEF OneOwner

LEMMA IsCertHashAssociatedInv ==
    ASSUME Allowed = {}, AssocInv, NEW r \in Requests, IsCertHashAssociated(r)
    PROVE  AssocInv'
<1> USE CertAuthAssumption DEF AssocInv, IsCertHashAssociated, Then, store, config, history
<1>1. TypeOK'
  BY DEF TypeOK, InFlight, Calls, NoRequest, At
<1>2. /\ req[r] # NoRequest /\ req'[r] # NoRequest
      /\ req'[r].id = req[r].id /\ req'[r].cert = req[r].cert /\ req'[r].msg = req[r].msg
      /\ \A q \in Requests \ {r} : req'[q] = req[q]
  BY DEF TypeOK, InFlight, Calls, NoRequest, At
<1>3. LookUpInv'
  BY <1>1, <1>2 DEF LookUpInv, TypeOK, At, New, Seen, Associated, InFlight, Calls, NoRequest
<1>4. EnrolledStays'
  BY <1>2 DEF EnrolledStays, At, New
<1>5. NotLockedOut'
  <2>1. ASSUME req'[r].at = "denied", New(r)
        PROVE  \E d \in Devices \ {req[r].id} : <<d, req[r].cert>> \in presented
    <3>1. req[r].id \in Devices /\ current[req[r].id] = req[r].cert /\ Seen(r)
      BY <1>2, <2>1 DEF LookUpInv, TypeOK, InFlight, NoRequest, New
    <3>2. <<req[r].id, current[req[r].id]>> \notin assoc
      BY <1>2, <2>1, <3>1 DEF TypeOK, Associated
    <3> QED BY <3>1, <3>2 DEF Seen
  <2> QED BY <1>2, <2>1, DeniedStep DEF New
<1> QED BY <1>1, <1>3, <1>4, <1>5 DEF OneOwner

LEMMA EnrollmentHasCertHashInv ==
    ASSUME Allowed = {}, AssocInv, NEW r \in Requests, EnrollmentHasCertHash(r)
    PROVE  AssocInv'
<1> USE CertAuthAssumption DEF AssocInv, EnrollmentHasCertHash, Then, store, config, history
<1>1. TypeOK'
  BY DEF TypeOK, InFlight, Calls, NoRequest, At
<1>2. /\ req[r] # NoRequest /\ req'[r] # NoRequest
      /\ req'[r].id = req[r].id /\ req'[r].cert = req[r].cert /\ req'[r].msg = req[r].msg
      /\ \A q \in Requests \ {r} : req'[q] = req[q]
  BY DEF TypeOK, InFlight, Calls, NoRequest, At
<1>3. LookUpInv'
  <2> SUFFICES ASSUME NEW q \in Requests, req'[q] # NoRequest
               PROVE  LookUpInv!(q)!2'
    BY DEF LookUpInv
  <2>1. req[r].at = "EnrollmentHasCertHash" /\ req'[r].at \in {"denied", "HasCertHash"}
    BY <1>2 DEF At, TypeOK
  <2>2. ~ New(r) /\ (req'[r].at = "HasCertHash" => \A a \in assoc : a[1] # req[r].id)
    <3>1. ~ New(r)
      BY <1>2, <2>1 DEF LookUpInv, At
    <3>2. req'[r].at = "HasCertHash" => ~ EnrollmentHas(r)
      BY <2>1 DEF TypeOK
    <3>3. \A a \in assoc : a[2] \in Certs /\ a = <<a[1], a[2]>>
      BY DEF TypeOK
    <3>4. ~ EnrollmentHas(r) => \A a \in assoc : a[1] # req[r].id
      BY <3>3 DEF EnrollmentHas
    <3> QED BY <3>1, <3>2, <3>4
  <2>3. CASE q = r
    BY <1>2, <2>1, <2>2, <2>3 DEF LookUpInv, At, New, Seen, Associated
  <2>4. CASE q # r
    BY <1>2, <2>4 DEF LookUpInv, At, New, Seen, Associated
  <2> QED BY <2>3, <2>4
<1>4. EnrolledStays'
  BY <1>2 DEF EnrolledStays, At, New
<1>5. NotLockedOut'
  <2>1. ~ New(r)
    BY <1>2 DEF LookUpInv, New, At, InFlight, TypeOK
  <2> QED BY <1>2, <2>1, DeniedStep DEF At, New, TypeOK
<1> QED BY <1>1, <1>3, <1>4, <1>5 DEF OneOwner

(* Only requests of the same device with the same certificate overlap this *)
(* one, so what its look-ups found still decides for it.                   *)
LEMMA AssociateCertHashInv ==
    ASSUME Allowed = {}, AssocInv, NEW r \in Requests, AssociateCertHash(r)
    PROVE  AssocInv'
<1> USE CertAuthAssumption DEF AssocInv, AssociateCertHash, Then, config, history
<1>1. TypeOK'
  BY DEF TypeOK, InFlight, Calls, NoRequest, At, Kept
<1>2. /\ req[r] # NoRequest /\ req'[r] # NoRequest
      /\ req'[r].id = req[r].id /\ req'[r].cert = req[r].cert /\ req'[r].msg = req[r].msg
      /\ req'[r].at = "next" /\ req[r].at = "AssociateCertHash"
      /\ \A q \in Requests \ {r} : req'[q] = req[q]
  BY DEF TypeOK, InFlight, Calls, NoRequest, At
<1> DEFINE d == req[r].id
           c == req[r].cert
<1>3. /\ d \in Devices /\ c \in Certs
      /\ <<d, c>> \in assoc' /\ hashes' = hashes \cup {c}
      /\ \A a \in assoc' : a \in assoc \/ a = <<d, c>>
      /\ \A a \in assoc : a[1] # d => a \in assoc'
      /\ \A a \in assoc : a[2] = c => a[1] = d
      /\ current[d] = c /\ <<d, c>> \in presented
  BY <1>2 DEF TypeOK, InFlight, NoRequest, Kept, LookUpInv, At
<1>4. (\A a \in assoc : a[2] \in hashes)' /\ OneOwner'
  <2> HIDE DEF d, c
  <2>1. \A a, b \in assoc' : a[2] = b[2] => a[1] = b[1]
    BY <1>3 DEF OneOwner
  <2> QED BY <1>3, <2>1 DEF OneOwner
<1>5. (\A x \in hashes : \E e \in Devices : <<e, x>> \in presented)'
  BY <1>3
<1>6. (\A e \in Devices : current[e] \in hashes =>
          \/ <<e, current[e]>> \in assoc
          \/ \E f \in Devices \ {e} : <<f, current[e]>> \in presented)'
  <2> SUFFICES ASSUME NEW e \in Devices, current[e] \in hashes'
               PROVE  \/ <<e, current[e]>> \in assoc'
                      \/ \E f \in Devices \ {e} : <<f, current[e]>> \in presented
    OBVIOUS
  <2>1. CASE e = d
    BY <2>1, <1>3
  <2>2. CASE e # d /\ current[e] = c
    BY <2>2, <1>3
  <2>3. CASE e # d /\ current[e] # c
    BY <2>3, <1>3
  <2> QED BY <2>1, <2>2, <2>3
<1>7. LookUpInv'
  <2> SUFFICES ASSUME NEW q \in Requests, req'[q] # NoRequest
               PROVE  LookUpInv!(q)!2'
    BY DEF LookUpInv
  <2> QED BY <1>2, <1>3 DEF LookUpInv, At, New, Seen, Associated
<1>8. EnrolledStays'
  <2> SUFFICES ASSUME NEW e \in Devices, enrolled[e] # None
               PROVE  \/ <<e, enrolled[e]>> \in assoc'
                      \/ \E q \in Requests : req'[q].id = e /\ At(q, "next")' /\ New(q)'
    BY DEF EnrolledStays
  <2>1. CASE e # d
    BY <2>1, <1>2, <1>3 DEF EnrolledStays, At, New
  <2>2. CASE e = d /\ New(r)
    BY <2>2, <1>2 DEF At, New
  <2>3. CASE e = d /\ ~ New(r)
    <3>1. \A a \in assoc : a[1] = d => a[2] = c
      BY <2>3, <1>2 DEF LookUpInv
    <3> QED BY <2>3, <3>1, <1>2, <1>3 DEF EnrolledStays, At, New
  <2> QED BY <2>1, <2>2, <2>3
<1>9. NotLockedOut'
  BY <1>2, DeniedStep
<1> QED BY <1>1, <1>4, <1>5, <1>6, <1>7, <1>8, <1>9

LEMMA RespondInv ==
    ASSUME Allowed = {}, AssocInv, NEW r \in Requests, Respond(r)
    PROVE  AssocInv'
<1> USE CertAuthAssumption DEF AssocInv, Respond, store, config
<1>1. TypeOK'
  BY DEF TypeOK, InFlight, Calls, NoRequest, At
<1>2. /\ req[r] # NoRequest /\ req'[r] = NoRequest
      /\ \A q \in Requests \ {r} : req'[q] = req[q]
  BY DEF TypeOK, NoRequest, Calls
<1>3. LookUpInv'
  BY <1>2 DEF LookUpInv, At, New, Seen, Associated
<1>4. EnrolledStays'
  <2> SUFFICES ASSUME NEW e \in Devices, enrolled'[e] # None
               PROVE  \/ <<e, enrolled'[e]>> \in assoc
                      \/ \E q \in Requests : req'[q].id = e /\ At(q, "next")' /\ New(q)'
    BY DEF EnrolledStays
  <2>1. CASE At(r, "next") /\ New(r) /\ req[r].id = e
    BY <2>1, <1>2 DEF LookUpInv, Associated, TypeOK
  <2>2. CASE ~ (At(r, "next") /\ New(r) /\ req[r].id = e)
    <3>1. enrolled'[e] = enrolled[e]
      BY <2>2 DEF TypeOK
    <3> QED BY <2>2, <3>1, <1>2 DEF EnrolledStays, At, New
  <2> QED BY <2>1, <2>2
<1>5. NotLockedOut'
  BY <1>2, DeniedStep DEF NoRequest
<1> QED BY <1>1, <1>3, <1>4, <1>5 DEF OneOwner

LEMMA FailInv ==
    ASSUME Allowed = {}, AssocInv, NEW r \in Requests, Fail(r)
    PROVE  AssocInv'
<1> USE CertAuthAssumption DEF AssocInv, Fail, store, config, history
<1>1. TypeOK'
  BY DEF TypeOK, InFlight, Calls, NoRequest, At
<1>2. /\ req[r] # NoRequest /\ req'[r] = NoRequest /\ req[r].at # "next"
      /\ \A q \in Requests \ {r} : req'[q] = req[q]
  BY DEF TypeOK, NoRequest, Calls
<1>3. LookUpInv'
  BY <1>2 DEF LookUpInv, At, New, Seen, Associated
<1>4. EnrolledStays'
  BY <1>2 DEF EnrolledStays, At, New
<1>5. NotLockedOut'
  BY <1>2, DeniedStep DEF NoRequest
<1> QED BY <1>1, <1>3, <1>4, <1>5 DEF OneOwner

LEMMA AssocInvStep ==
    ASSUME Allowed = {}, AssocInv, [Next]_vars
    PROVE  AssocInv'
<1>1. CASE Next
  BY <1>1, ReceiveInv, HasCertHashInv, IsCertHashAssociatedInv, EnrollmentHasCertHashInv,
     AssociateCertHashInv, RespondInv, FailInv DEF Next
<1>2. CASE UNCHANGED vars
  <2> USE <1>2 DEF vars, config, store, history, AssocInv
  <2>1. TypeOK' /\ OneOwner'
    BY DEF TypeOK, OneOwner
  <2>2. LookUpInv'
    BY DEF LookUpInv, At, New, Seen, Associated
  <2>3. EnrolledStays' /\ NotLockedOut'
    BY DEF EnrolledStays, NotLockedOut, At, New
  <2> QED BY <2>1, <2>2, <2>3
<1> QED BY <1>1, <1>2

LEMMA AssocCorrect ==
    ASSUME Allowed = {}
    PROVE  Spec => []AssocInv
<1>1. AssocInv /\ [Next]_vars => AssocInv'
  BY AssocInvStep
<1> QED BY <1>1, AssocInvInit, PTL DEF Spec

(* A certificate never belongs to two enrollments, although the look-up    *)
(* and the association are separate storage calls.                         *)
THEOREM OneOwnerCorrect ==
    ASSUME Allowed = {}
    PROVE  Spec => []OneOwner
<1>1. AssocInv => OneOwner
  BY DEF AssocInv
<1> QED BY <1>1, AssocCorrect, PTL

(* What an Authenticate associated stays until the next one. *)
THEOREM EnrolledStaysCorrect ==
    ASSUME Allowed = {}
    PROVE  Spec => []EnrolledStays
<1>1. AssocInv => EnrolledStays
  BY DEF AssocInv
<1> QED BY <1>1, AssocCorrect, PTL

(* A device with a certificate of its own can always authenticate again. *)
THEOREM NotLockedOutCorrect ==
    ASSUME Allowed = {}
    PROVE  Spec => []NotLockedOut
<1>1. AssocInv => NotLockedOut
  BY DEF AssocInv
<1> QED BY <1>1, AssocCorrect, PTL

(* An enrollment with an association gets another only by an Authenticate: *)
(* a retroactive one is added while it has none.                           *)
THEOREM ReassociationCorrect ==
    ASSUME Allowed = {}
    PROVE  Spec => ReassociatedByAuthenticate
<1> DEFINE Reassociates == \A a \in assoc' \ assoc :
               (\E c \in Certs : <<a[1], c>> \in assoc) =>
                   \E r \in Requests : New(r) /\ <<req[r].id, req[r].cert>> = a
<1>1. AssocInv /\ [Next]_vars => [Reassociates]_vars
  <2> SUFFICES ASSUME AssocInv, Next, NEW a \in assoc' \ assoc,
                      NEW c \in Certs, <<a[1], c>> \in assoc
               PROVE  \E r \in Requests : New(r) /\ <<req[r].id, req[r].cert>> = a
    OBVIOUS
  <2>1. PICK r \in Requests : AssociateCertHash(r)
    BY DEF Next, Receive, HasCertHash, IsCertHashAssociated, EnrollmentHasCertHash,
       Respond, Fail, store
  <2>2. a = <<req[r].id, req[r].cert>> /\ req[r].at = "AssociateCertHash"
    BY <2>1 DEF AssociateCertHash, Kept, At
  <2>3. CASE ~ New(r)
    <3>1. req[r] # NoRequest
      BY <2>2 DEF NoRequest
    <3>2. \A b \in assoc : b[1] = req[r].id => b[2] = req[r].cert
      BY <2>2, <2>3, <3>1 DEF AssocInv, LookUpInv
    <3>3. c = req[r].cert
      BY <3>2, <2>2
    <3> QED BY <2>2, <3>3
  <2> QED BY <2>2, <2>3
<1> QED BY <1>1, AssocCorrect, PTL DEF Spec, ReassociatedByAuthenticate

-----------------------------------------------------------------------------
(* FrontEnd: a request through the authenticating proxy is known by the    *)
(* enrollment CertAuth knows its certificate by.                           *)

LEMMA FrontInitInv == FrontInit => FrontInv
<1> SUFFICES ASSUME FrontInit PROVE FrontInv
  OBVIOUS
<1>1. AssocInv
  BY AssocInvInit DEF FrontInit
<1>2. FrontTypeOK
  BY <1>1 DEF AssocInv, FrontTypeOK, FrontInit
<1>3. HashInv
  BY DEF HashInv, FrontInit, Init, NoRequest, At
<1> QED BY <1>1, <1>2, <1>3 DEF FrontInv

(* Whatever leaves the look-up keys alone, and lets no request through *)
LEMMA SameKeysInv ==
    ASSUME HashInv, AssocInv', FrontTypeOK',
           backend' = backend, assoc' = assoc, hashes' = hashes, hashCert' = hashCert,
           served' = served, enrolled' = enrolled,
           \A r \in Requests : proxied'[r] = proxied[r] \/ proxied'[r] = NotProxied
               \/ hashCert[proxied'[r].cert] = proxied'[r].id,
           \A r \in Requests : req'[r].at = "AssociateCertHash" =>
               hashCert[req'[r].cert] \in {None, req'[r].id}
    PROVE  FrontInv'
<1>1. HashInv'
  BY DEF HashInv, At
<1> QED BY <1>1 DEF FrontInv

LEMMA MDMInv ==
    ASSUME FrontInv, AssocInv', NEW r \in Requests, NEW h \in Headers, NEW d \in Devices,
           NEW msg \in {"Authenticate", "other"}, MDM(r, h, d, msg)
    PROVE  FrontInv'
<1> USE DEF FrontInv, MDM, Receive, front, store, config
<1>1. FrontTypeOK'
  BY DEF FrontTypeOK, AssocInv
<1>2. \A q \in Requests : req'[q].at = "AssociateCertHash" => req'[q] = req[q]
  BY DEF FrontTypeOK, TypeOK
<1> QED BY <1>1, <1>2, SameKeysInv DEF HashInv, At

(* A certificate that is not known yet is nobody's. *)
LEMMA LookUpStepInv ==
    ASSUME FrontInv, AssocInv', NEW r \in Requests,
           HasCertHash(r) \/ IsCertHashAssociated(r) \/ EnrollmentHasCertHash(r) \/ Fail(r),
           UNCHANGED front
    PROVE  FrontInv'
<1> USE DEF FrontInv, front, store, config, history
<1>1. FrontTypeOK'
  BY DEF FrontTypeOK, AssocInv
<1>2. /\ UNCHANGED <<backend, assoc, hashes, enrolled>>
      /\ \A q \in Requests \ {r} : req'[q] = req[q]
  BY DEF HasCertHash, IsCertHashAssociated, EnrollmentHasCertHash, Fail, Then, AssocInv, TypeOK
<1>3. ASSUME req'[r].at = "AssociateCertHash"
      PROVE  hashCert[req'[r].cert] \in {None, req'[r].id}
  <2>1. HasCertHash(r) /\ ~ Seen(r) /\ req'[r].cert = req[r].cert /\ req[r].cert \in Certs
    BY <1>3 DEF HasCertHash, IsCertHashAssociated, EnrollmentHasCertHash, Fail, Then, At,
       NoRequest, AssocInv, TypeOK, InFlight, Calls
  <2> QED BY <2>1 DEF HashInv, Seen
<1>4. \A q \in Requests : req'[q].at = "AssociateCertHash" =>
          hashCert[req'[q].cert] \in {None, req'[q].id}
  BY <1>2, <1>3 DEF HashInv, At
<1> QED BY <1>1, <1>2, <1>4, SameKeysInv

LEMMA AssociateInv ==
    ASSUME FrontInv, AssocInv', NEW r \in Requests, Associate(r)
    PROVE  FrontInv'
<1> USE CertAuthAssumption DEF FrontInv, Associate, AssociateCertHash, HashCertKept, config, history
<1> DEFINE d == req[r].id
           c == req[r].cert
<1>1. /\ d \in Devices /\ c \in Certs /\ req[r] # NoRequest
      /\ hashCert[c] \in {None, d}
      /\ hashCert' = [hashCert EXCEPT ![c] = d]
      /\ \A q \in Requests : req'[q].id = req[q].id /\ req'[q].cert = req[q].cert
            /\ (req'[q].at = "AssociateCertHash" => req[q].at = "AssociateCertHash")
  BY DEF AssocInv, TypeOK, InFlight, NoRequest, At, Then, HashInv
<1>2. FrontTypeOK'
  BY <1>1 DEF FrontTypeOK, AssocInv
<1>3. \A x \in Certs : hashCert'[x] = IF x = c THEN d ELSE hashCert[x]
  BY <1>1 DEF FrontTypeOK
<1>4. \A x \in Certs : hashCert[x] # None => hashCert'[x] = hashCert[x]
  BY <1>1, <1>3
<1>5. /\ \A a \in assoc' : a \in assoc \/ a = <<d, c>>
      /\ <<d, c>> \in assoc' /\ hashes' = hashes \cup {c}
      /\ backend = "sql" => assoc \subseteq assoc'
      /\ \A a \in assoc : a[1] \in Devices /\ a[2] \in Certs
  BY DEF Kept, AssocInv, TypeOK
<1> HIDE DEF d, c
<1>6. HashInv'
  <2>1. \A a \in assoc' : hashCert'[a[2]] = a[1]
    BY <1>1, <1>3, <1>4, <1>5 DEF HashInv
  <2>2. \A x \in Certs : hashCert'[x] # None =>
            x \in hashes' /\ (backend' = "sql" => <<hashCert'[x], x>> \in assoc')
    BY <1>3, <1>5 DEF HashInv
  <2>3. \A q \in Requests : req'[q].at = "AssociateCertHash" =>
            hashCert'[req'[q].cert] \in {None, req'[q].id}
    <3> SUFFICES ASSUME NEW q \in Requests, req[q].at = "AssociateCertHash"
                 PROVE  hashCert'[req[q].cert] \in {None, req[q].id}
      BY <1>1
    <3>1. /\ req[q] # NoRequest /\ req[q].cert \in Certs
          /\ hashCert[req[q].cert] \in {None, req[q].id}
      BY DEF NoRequest, AssocInv, TypeOK, InFlight, HashInv, At
    <3>2. req[q].cert = c => req[q].id = d
      BY <1>1, <3>1 DEF AssocInv, LookUpInv, d, c
    <3> QED BY <1>3, <3>1, <3>2
  <2>4. \A s \in served' : hashCert'[s[2]] = s[1]
    BY <1>4 DEF HashInv, FrontTypeOK
  <2>5. \A e \in Devices : enrolled'[e] # None => hashCert'[enrolled'[e]] = e
    BY <1>4 DEF HashInv, AssocInv, TypeOK
  <2>6. \A q \in Requests : proxied'[q] # NotProxied =>
            hashCert'[proxied'[q].cert] = proxied'[q].id
    BY <1>4, TrustedAssumption DEF HashInv, FrontTypeOK
  <2> QED BY <2>1, <2>2, <2>3, <2>4, <2>5, <2>6 DEF HashInv, At
<1> QED BY <1>2, <1>6

LEMMA FinishInv ==
    ASSUME FrontInv, AssocInv', NEW r \in Requests, Finish(r)
    PROVE  FrontInv'
<1> USE DEF FrontInv, Finish, Respond, store, config
<1>1. req[r] # NoRequest /\ req[r].id \in Devices /\ req[r].cert \in Certs
  BY DEF AssocInv, TypeOK, InFlight, NoRequest, Calls
<1>2. FrontTypeOK'
  BY <1>1 DEF FrontTypeOK, AssocInv
<1>3. At(r, "next") => hashCert[req[r].cert] = req[r].id
  BY <1>1 DEF AssocInv, LookUpInv, Associated, HashInv
<1>4. \A q \in Requests : req'[q].at = "AssociateCertHash" => req'[q] = req[q]
  BY DEF AssocInv, TypeOK, NoRequest
<1>5. \A s \in served' : hashCert[s[2]] = s[1]
  BY <1>3 DEF HashInv
<1>6. \A e \in Devices : enrolled'[e] # None => hashCert[enrolled'[e]] = e
  BY <1>3 DEF HashInv, AssocInv, TypeOK
<1>7. HashInv'
  BY <1>4, <1>5, <1>6 DEF HashInv, At
<1> QED BY <1>2, <1>7

LEMMA ProxyInv ==
    ASSUME FrontInv, AssocInv', NEW r \in Requests,
           (\E h \in Headers : AuthProxy(r, h)) \/ Forwarded(r)
    PROVE  FrontInv'
<1> USE DEF FrontInv, vars, config, store, history
<1>1. CASE \E h \in Headers : AuthProxy(r, h)
  <2>1. PICK h \in Headers : AuthProxy(r, h)
    BY <1>1
  <2>2. PICK e \in EnrollmentFromHash(CertExtract(h)) :
            proxied' = [proxied EXCEPT ![r] = [id |-> e, cert |-> CertExtract(h)]]
    BY <2>1 DEF AuthProxy
  <2>3. CertExtract(h) \in Trusted
    BY <2>1 DEF AuthProxy, HasPassed, Verify
  <2>4. e \in Devices /\ hashCert[CertExtract(h)] = e
    BY <2>2, <2>3, TrustedAssumption DEF EnrollmentFromHash, HashInv, FrontTypeOK
  <2>5. FrontTypeOK'
    BY <2>1, <2>2, <2>3, <2>4 DEF FrontTypeOK, AuthProxy, AssocInv
  <2>6. \A q \in Requests : proxied'[q] = proxied[q] \/ hashCert[proxied'[q].cert] = proxied'[q].id
    BY <2>2, <2>4 DEF FrontTypeOK
  <2> QED BY <2>1, <2>5, <2>6, SameKeysInv DEF AuthProxy, HashInv, At
<1>2. CASE Forwarded(r)
  <2>1. FrontTypeOK'
    BY <1>2 DEF FrontTypeOK, Forwarded, AssocInv
  <2>2. \A q \in Requests : proxied'[q] = proxied[q] \/ proxied'[q] = NotProxied
    BY <1>2 DEF FrontTypeOK, Forwarded
  <2> QED BY <1>2, <2>1, <2>2, SameKeysInv DEF Forwarded, HashInv, At
<1> QED BY <1>1, <1>2

(* The front end adds nothing to CertAuth's state but requests that passed. *)
LEMMA FrontStepIsStep ==
    ASSUME [FrontNext]_<<vars, front>>
    PROVE  [Next]_vars
<1>1. ASSUME NEW r \in Requests, NEW h \in Headers, NEW d \in Devices,
             NEW msg \in {"Authenticate", "other"}, MDM(r, h, d, msg)
      PROVE  Next
  <2>1. CertExtract(h) \in Certs
    BY <1>1, TrustedAssumption DEF MDM, HasPassed, Verify
  <2> QED BY <1>1, <2>1 DEF MDM, Next
<1> QED BY <1>1 DEF FrontNext, Next, Associate, Finish, AuthProxy, Forwarded

LEMMA FrontStep ==
    ASSUME Allowed = {}, FrontInv, [FrontNext]_<<vars, front>>
    PROVE  FrontInv'
<1>1. AssocInv'
  BY FrontStepIsStep, AssocInvStep DEF FrontInv
<1>2. CASE FrontNext
  BY <1>1, <1>2, MDMInv, LookUpStepInv, AssociateInv, FinishInv, ProxyInv DEF FrontNext
<1>3. CASE UNCHANGED <<vars, front>>
  BY <1>1, <1>3 DEF vars, config, store, history, front, FrontInv, AssocInv, FrontTypeOK, HashInv, At
<1> QED BY <1>2, <1>3

(* Behind the front end (main.go) CertAuth goes on as specified, so its     *)
(* theorems hold there too.                                                 *)
THEOREM FrontImplementsCertAuth == FrontSpec => Spec
<1>1. FrontInit => Init
  BY DEF FrontInit
<1>2. [FrontNext]_<<vars, front>> => [Next]_vars
  BY FrontStepIsStep
<1> QED BY <1>1, <1>2, PTL DEF FrontSpec, Spec

LEMMA FrontCorrect ==
    ASSUME Allowed = {}
    PROVE  FrontSpec => []FrontInv
<1>1. FrontInv /\ [FrontNext]_<<vars, front>> => FrontInv'
  BY FrontStep
<1> QED BY <1>1, FrontInitInv, PTL DEF FrontSpec

(* On every backend the front end's look-up gives the enrollment of the     *)
(* certificate, or none.                                                    *)
LEMMA LookUp ==
    ASSUME FrontInv, NEW c \in Certs
    PROVE  EnrollmentFromHash(c) = {hashCert[c]} \ {None}
<1>1. CASE backend = "sql"
  <2>1. \A d \in Devices : <<d, c>> \in assoc <=> (hashCert[c] = d /\ hashCert[c] # None)
    BY <1>1, CertAuthAssumption DEF FrontInv, HashInv
  <2> QED BY <1>1, <2>1 DEF EnrollmentFromHash, FrontInv, FrontTypeOK
<1>2. CASE backend # "sql"
  BY <1>2 DEF EnrollmentFromHash
<1> QED BY <1>1, <1>2

(* A proxied request goes with the ID that the MDM endpoints know its       *)
(* certificate by (EnrollmentFromHash and IsCertHashAssociated).            *)
THEOREM ProxiedAsServedCorrect ==
    ASSUME Allowed = {}
    PROVE  FrontSpec => []ProxiedAsServed
<1>1. FrontInv => ProxiedAsServed
  BY TrustedAssumption, CertAuthAssumption
     DEF FrontInv, FrontTypeOK, HashInv, ProxiedAsServed, NotProxied
<1> QED BY <1>1, FrontCorrect, PTL

(* A device whose Authenticate was let through is known to the proxy by     *)
(* that certificate, and no other device is (CertWithEnrollmentID).         *)
THEOREM EnrolledIsProxiedCorrect ==
    ASSUME Allowed = {}
    PROVE  FrontSpec => []EnrolledIsProxied
<1>1. ASSUME FrontInv, NEW d \in Devices, enrolled[d] # None
      PROVE  EnrollmentFromHash(enrolled[d]) = {d}
  <2>1. enrolled[d] \in Certs /\ hashCert[enrolled[d]] = d
    BY <1>1 DEF FrontInv, AssocInv, TypeOK, HashInv
  <2>2. EnrollmentFromHash(enrolled[d]) = {hashCert[enrolled[d]]} \ {None}
    BY <1>1, <2>1, LookUp
  <2> QED BY <2>1, <2>2, CertAuthAssumption
<1>2. FrontInv => EnrolledIsProxied
  BY <1>1 DEF EnrolledIsProxied
<1> QED BY <1>2, FrontCorrect, PTL

=============================================================================
