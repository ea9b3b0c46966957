-------------------------- MODULE Migration_proofs --------------------------
(* Theorems about Migration: the server that is migrated agrees with its   *)
(* clients, on every kind of storage.                                      *)
EXTENDS Migration, TLAPS

IsRequest(r) ==
    /\ r.call # "none" /\ r.no \in Nat /\ r.subs \subseteq Users /\ r.ctr \in Nat
    /\ r = [msg |-> r.msg, no |-> r.no, call |-> r.call, subs |-> r.subs, ctr |-> r.ctr]

Requests ==
    /\ req = [id \in ID |-> req[id]]
    /\ \A id \in ID : req[id] = NoRequest \/ IsRequest(req[id])

Shape ==
    /\ bstoken \in [Devices -> Nat] /\ tally \in [ID -> Nat] /\ push \in [ID -> Nat]
    /\ channels \subseteq Users /\ Requests
    /\ belief \in [ID -> Beliefs] /\ told \in [ID -> Nat]
    /\ escrow \in [Devices -> Nat]
    /\ tries \in [ID -> Nat] /\ oks \in [ID -> Nat]
    /\ sent \in Nat

USE ChannelsAssumption

-----------------------------------------------------------------------------
(* What device d's invariant is about; a step that leaves it alone may     *)
(* number new messages.                                                    *)
SameDevice(d) ==
    /\ backend' = backend /\ req'[d] = req[d]
    /\ belief'[d] = belief[d] /\ told'[d] = told[d]
    /\ escrow'[d] = escrow[d] /\ (d \in escrowed' <=> d \in escrowed)
    /\ tries'[d] = tries[d] /\ oks'[d] = oks[d]
    /\ bstoken'[d] = bstoken[d] /\ tally'[d] = tally[d]
    /\ push'[d] = push[d] /\ (d \in disabled' <=> d \in disabled)

LEMMA SameDeviceInv ==
    ASSUME NEW d \in Devices, Shape, Shape', DeviceInv(d), SameDevice(d), sent <= sent'
    PROVE  DeviceInv(d)'
<1>1. d \in ID
  BY DEF ID
<1>2. RequestInv(d)'
  BY <1>1 DEF DeviceInv, RequestInv, SameDevice, Begun, Departs, Shape, Requests, IsRequest
<1>3. EnabledInv(d)' /\ TallyInv(d)' /\ EscrowInv(d)'
  BY <1>1 DEF DeviceInv, EnabledInv, TallyInv, EscrowInv, SameDevice, Begun, Departs,
     Settled, Bumped, ToBump, Counted, Answers, Enabled
<1> QED BY <1>2, <1>3 DEF DeviceInv

-----------------------------------------------------------------------------
(* The calls of a request *)

(* A call is a step of a request under way. *)
LEMMA CallRequest ==
    ASSUME Shape, NEW id \in ID, StorageCall(id) \/ SQLCall(id) \/ FileCall(id)
    PROVE  IsRequest(req[id])
<1>1. CASE StorageCall(id)
  BY <1>1 DEF Shape, Requests, NoRequest, At, StorageCall, StoreAuthenticate, ResetEnrollment, ClearQueue,
     Disable, StoreTokenUpdate, EnableEnrollment, StoreUserAuthenticate, DisableUser,
     StoreBootstrapToken, RetrieveBootstrapToken
<1>2. CASE SQLCall(id)
  BY <1>2 DEF Shape, Requests, NoRequest, At, SQLCall, UpsertDevice, ClearQueue, DisableRows,
     StoreTokenUpdate, EnableEnrollment, UpsertUser, StoreBootstrapToken,
     RetrieveBootstrapToken
<1>3. CASE FileCall(id)
  BY <1>3 DEF Shape, Requests, NoRequest, At, FileCall, MessageCall, OtherCall, FillAuthenticate, FillTokenUpdate, WriteTally,
       WriteBootstrapToken, FillBootstrapToken, ResetTally, RemoveBootstrapToken, WriteAuthenticate,
     ClearQueue, ListSubs, WriteDisabled, RemoveSubs, AssocSub, WriteTokenUpdate,
     BumpTally, RemoveDisabled, WriteUserAuthenticate, RetrieveBootstrapToken
<1> QED BY <1>1, <1>2, <1>3

LEMMA HandleShape ==
    ASSUME Shape, NEW id \in ID, Handle(id)
    PROVE  Shape'
<1>0. UNCHANGED <<belief, told, escrow, tries, oks, sent>>
  BY DEF Handle
<1>1. IsRequest(req[id])
  BY CallRequest DEF Handle
<1>2. req[id].no \in Nat /\ req[id].ctr \in Nat
  BY <1>1 DEF IsRequest
<1>6. \A x : x # "none" /\ Then(id, x) => Requests'
  BY <1>1 DEF Then, Shape, Requests, IsRequest
<1>3. CASE StorageCall(id)
  <2>1. Requests'
    BY <1>6, <1>3 DEF StorageCall, StoreAuthenticate, ResetEnrollment, ClearQueue,
     Disable, StoreTokenUpdate, EnableEnrollment, StoreUserAuthenticate, DisableUser,
     StoreBootstrapToken, RetrieveBootstrapToken
  <2>2. bstoken' \in [Devices -> Nat]
    BY <1>2, <1>3 DEF StorageCall, StoreAuthenticate, ResetEnrollment, ClearQueue,
     Disable, StoreTokenUpdate, EnableEnrollment, StoreUserAuthenticate, DisableUser,
     StoreBootstrapToken, RetrieveBootstrapToken, Shape, store, enrollments
  <2>3. tally' \in [ID -> Nat]
    BY <1>3 DEF StorageCall, StoreAuthenticate, ResetEnrollment, ClearQueue,
     Disable, StoreTokenUpdate, EnableEnrollment, StoreUserAuthenticate, DisableUser,
     StoreBootstrapToken, RetrieveBootstrapToken, Shape, store, enrollments
  <2>4. push' \in [ID -> Nat] /\ channels' \subseteq Users
    BY <1>2, <1>3 DEF StorageCall, StoreAuthenticate, ResetEnrollment, ClearQueue,
     Disable, StoreTokenUpdate, EnableEnrollment, StoreUserAuthenticate, DisableUser,
     StoreBootstrapToken, RetrieveBootstrapToken, Shape, store, enrollments
  <2> QED BY <1>0, <2>1, <2>2, <2>3, <2>4 DEF Shape
<1>4. CASE SQLCall(id)
  <2>1. Requests'
    BY <1>6, <1>4 DEF SQLCall, UpsertDevice, ClearQueue, DisableRows,
     StoreTokenUpdate, EnableEnrollment, UpsertUser, StoreBootstrapToken,
     RetrieveBootstrapToken
  <2>2. bstoken' \in [Devices -> Nat]
    BY <1>2, <1>4 DEF SQLCall, UpsertDevice, ClearQueue, DisableRows,
     StoreTokenUpdate, EnableEnrollment, UpsertUser, StoreBootstrapToken,
     RetrieveBootstrapToken, Shape, store, enrollments
  <2>3. tally' \in [ID -> Nat]
    BY <1>4 DEF SQLCall, UpsertDevice, ClearQueue, DisableRows,
     StoreTokenUpdate, EnableEnrollment, UpsertUser, StoreBootstrapToken,
     RetrieveBootstrapToken, Shape, store, enrollments
  <2>4. push' \in [ID -> Nat] /\ channels' \subseteq Users
    BY <1>2, <1>4 DEF SQLCall, UpsertDevice, ClearQueue, DisableRows,
     StoreTokenUpdate, EnableEnrollment, UpsertUser, StoreBootstrapToken,
     RetrieveBootstrapToken, Shape, store, enrollments
  <2> QED BY <1>0, <2>1, <2>2, <2>3, <2>4 DEF Shape
<1>5. CASE FileCall(id)
  <2>1. Requests'
    <3>1. CASE ListSubs(id) \/ WriteDisabled(id)
      BY <1>1, <1>6, <3>1 DEF ListSubs, WriteDisabled, SubEnrollments, Shape, Requests, IsRequest
    <3>2. CASE BumpTally(id)
      BY <1>1, <3>2 DEF BumpTally, Shape, Requests, IsRequest
    <3> QED BY <1>6, <1>5, <3>1, <3>2 DEF FileCall, MessageCall, OtherCall, FillAuthenticate, FillTokenUpdate, WriteTally,
       WriteBootstrapToken, FillBootstrapToken, ResetTally, RemoveBootstrapToken,
       WriteAuthenticate, ClearQueue, RemoveSubs, AssocSub, WriteTokenUpdate, BumpTally,
       RemoveDisabled, WriteUserAuthenticate, RetrieveBootstrapToken
  <2>2. bstoken' \in [Devices -> Nat]
    BY <1>2, <1>5 DEF FileCall, MessageCall, OtherCall, FillAuthenticate, FillTokenUpdate, WriteTally,
       WriteBootstrapToken, FillBootstrapToken, ResetTally, RemoveBootstrapToken, WriteAuthenticate,
     ClearQueue, ListSubs, WriteDisabled, RemoveSubs, AssocSub, WriteTokenUpdate,
     BumpTally, RemoveDisabled, WriteUserAuthenticate, RetrieveBootstrapToken, Shape, store, enrollments
  <2>3. tally' \in [ID -> Nat]
    BY <1>2, <1>5 DEF FileCall, MessageCall, OtherCall, FillAuthenticate, FillTokenUpdate, WriteTally,
       WriteBootstrapToken, FillBootstrapToken, ResetTally, RemoveBootstrapToken, WriteAuthenticate,
     ClearQueue, ListSubs, WriteDisabled, RemoveSubs, AssocSub, WriteTokenUpdate,
     BumpTally, RemoveDisabled, WriteUserAuthenticate, RetrieveBootstrapToken, Shape, store, enrollments
  <2>4. push' \in [ID -> Nat] /\ channels' \subseteq Users
    BY <1>2, <1>5 DEF FileCall, MessageCall, OtherCall, FillAuthenticate, FillTokenUpdate, WriteTally,
       WriteBootstrapToken, FillBootstrapToken, ResetTally, RemoveBootstrapToken, WriteAuthenticate,
     ClearQueue, ListSubs, WriteDisabled, RemoveSubs, AssocSub, WriteTokenUpdate,
     BumpTally, RemoveDisabled, WriteUserAuthenticate, RetrieveBootstrapToken, Shape, store, enrollments
  <2> QED BY <1>0, <2>1, <2>2, <2>3, <2>4 DEF Shape
<1> QED BY <1>3, <1>4, <1>5 DEF Handle

(* A user channel's key is not its device's ID. *)
LEMMA KeyPrefix ==
    ASSUME NEW id \in ID
    PROVE  \A k \in userChannelEnrollments(id) : k = <<id>> /\ k \notin ID
BY DEF userChannelEnrollments, userChannelKeys

LEMMA OthersCall ==
    ASSUME Shape, NEW d \in Devices, NEW id \in ID, id # d, Handle(id), UNCHANGED backend
    PROVE  SameDevice(d)
<1> USE DEF Shape, Requests, Then, At, store, enrollments, SameDevice
<1>0. d \in ID /\ d \notin Users
  BY DEF ID
<1>1. UNCHANGED <<belief, told, escrow, escrowed, tries, oks, sent>>
  BY DEF Handle
<1>2. CASE StorageCall(id)
  <2>1. d \notin userChannelEnrollments(id)
    BY <1>0, KeyPrefix
  <2> QED BY <1>0, <1>1, <1>2, <2>1 DEF StorageCall, StoreAuthenticate, ResetEnrollment, ClearQueue,
     Disable, StoreTokenUpdate, EnableEnrollment, StoreUserAuthenticate, DisableUser,
     StoreBootstrapToken, RetrieveBootstrapToken
<1>3. CASE SQLCall(id)
  BY <1>0, <1>1, <1>3 DEF SQLCall, UpsertDevice, ClearQueue, DisableRows,
     StoreTokenUpdate, EnableEnrollment, UpsertUser, StoreBootstrapToken,
     RetrieveBootstrapToken, EnabledRows
<1>4. CASE FileCall(id)
  <2>1. req[id].subs \subseteq Users
    BY <1>4, CallRequest DEF IsRequest
  <2> QED BY <1>0, <1>1, <1>4, <2>1 DEF FileCall, MessageCall, OtherCall, FillAuthenticate, FillTokenUpdate, WriteTally,
       WriteBootstrapToken, FillBootstrapToken, ResetTally, RemoveBootstrapToken,
     WriteAuthenticate, ClearQueue, ListSubs, WriteDisabled, RemoveSubs, AssocSub,
     WriteTokenUpdate, BumpTally, RemoveDisabled, WriteUserAuthenticate,
     RetrieveBootstrapToken
<1> QED BY <1>2, <1>3, <1>4 DEF Handle

(* The device's own calls.  A call moves its request on. *)
Moves(d, call) ==
    /\ req[d] # NoRequest /\ req'[d] # NoRequest
    /\ req'[d].msg = req[d].msg /\ req'[d].no = req[d].no /\ req'[d].call = call

LEMMA ThenMoves ==
    ASSUME Shape, NEW d \in ID, IsRequest(req[d]), NEW call, call # "none", Then(d, call)
    PROVE  Moves(d, call)
BY DEF Moves, Then, Shape, Requests, IsRequest, NoRequest

(* The file backend's Disable changes the list of users with it. *)
LEMMA ListMoves ==
    ASSUME Shape, NEW d \in ID, IsRequest(req[d])
    PROVE  /\ \A S : req' = [req EXCEPT ![d].call = "WriteDisabled", ![d].subs = S]
                    => Moves(d, "WriteDisabled")
           /\ \A u : req' = [req EXCEPT ![d].subs = @ \ {u}] => Moves(d, req[d].call)
<1>1. req[d] # NoRequest
  BY DEF IsRequest, NoRequest
<1>2. ASSUME NEW S, req' = [req EXCEPT ![d].call = "WriteDisabled", ![d].subs = S]
      PROVE  Moves(d, "WriteDisabled")
  <2>1. req'[d] = [msg |-> req[d].msg, no |-> req[d].no, call |-> "WriteDisabled", subs |-> S,
                 ctr |-> req[d].ctr]
    BY <1>2 DEF Shape, Requests, IsRequest
  <2> QED BY <1>1, <2>1 DEF Moves, NoRequest
<1>3. ASSUME NEW u, req' = [req EXCEPT ![d].subs = @ \ {u}]
      PROVE  Moves(d, req[d].call)
  <2>1. \E S : req'[d] = [msg |-> req[d].msg, no |-> req[d].no, call |-> req[d].call, subs |-> S,
                       ctr |-> req[d].ctr]
    BY <1>3 DEF Shape, Requests, IsRequest
  <2> QED BY <1>1, <2>1 DEF Moves, NoRequest, IsRequest
<1> QED BY <1>2, <1>3

(* Its bump of the tally remembers the one it has read. *)
LEMMA BumpMoves ==
    ASSUME Shape, NEW d \in ID, IsRequest(req[d]), BumpTally(d)
    PROVE  Moves(d, "WriteTally") /\ req'[d].ctr = tally[d]
<1>1. req[d] # NoRequest
  BY DEF IsRequest, NoRequest
<1>2. req' = [req EXCEPT ![d].call = "WriteTally", ![d].ctr = tally[d]]
  BY DEF BumpTally
<1>3. req'[d] = [msg |-> req[d].msg, no |-> req[d].no, call |-> "WriteTally",
                 subs |-> req[d].subs, ctr |-> tally[d]]
  BY <1>2 DEF Shape, Requests, IsRequest
<1> QED BY <1>1, <1>3 DEF Moves, NoRequest

LEMMA OwnCallInv ==
    ASSUME NEW d \in Devices, Shape, Shape', DeviceInv(d), Handle(d), UNCHANGED backend
    PROVE  DeviceInv(d)'
<1> USE DEF store, enrollments, DeviceInv, RequestInv, EnabledInv, TallyInv, EscrowInv,
            CallsFor, Begun, Departs, Bumped, ToBump, Enabled, Moves, At, Shape,
            Settled, Enrolled, Counted, Answers
<1>0. /\ d \in ID /\ d \notin Users
      /\ UNCHANGED <<belief, told, escrow, escrowed, tries, oks, sent>>
  BY DEF Handle, ID
<1>1. /\ IsRequest(req[d]) /\ req[d].no \in Nat /\ req[d].subs \subseteq Users
      /\ \A call : call # "none" /\ Then(d, call) => Moves(d, call)
  BY CallRequest, ThenMoves, <1>0 DEF Handle, IsRequest
<1>2. /\ bstoken[d] \in Nat /\ tally[d] \in Nat /\ push[d] \in Nat /\ req[d].ctr \in Nat
      /\ bstoken'[d] \in Nat /\ tally'[d] \in Nat /\ push'[d] \in Nat
      /\ belief[d] \in Beliefs /\ told[d] \in Nat /\ escrow[d] \in Nat
      /\ tries[d] \in Nat /\ oks[d] \in Nat /\ sent \in Nat
  BY <1>0, <1>1 DEF IsRequest
<1>3. req[d].call \in CallsFor(req[d].msg)
  BY <1>1 DEF IsRequest, NoRequest
<1> USE <1>0, <1>1, <1>2, <1>3
<1>4. CASE backend = "kv" /\ StorageCall(d)
  <2> USE <1>4
  <2>1. CASE StoreAuthenticate(d)
    BY <2>1 DEF StoreAuthenticate
  <2>2. CASE ResetEnrollment(d)
    BY <2>2, KeyPrefix DEF ResetEnrollment
  <2>3. CASE ClearQueue(d)
    BY <2>3 DEF ClearQueue
  <2>4. CASE Disable(d)
    BY <2>4, KeyPrefix DEF Disable
  <2>5. CASE StoreTokenUpdate(d)
    BY <2>5 DEF StoreTokenUpdate
  <2>6. CASE EnableEnrollment(d)
    BY <2>6 DEF EnableEnrollment
  <2>7. CASE StoreUserAuthenticate(d)
    BY <2>7 DEF StoreUserAuthenticate
  <2>8. CASE DisableUser(d)
    BY <2>8 DEF DisableUser
  <2>9. CASE StoreBootstrapToken(d)
    BY <2>9 DEF StoreBootstrapToken
  <2>10. CASE RetrieveBootstrapToken(d)
    BY <2>10 DEF RetrieveBootstrapToken
  <2> QED BY <1>4, <2>1, <2>2, <2>3, <2>4, <2>5, <2>6, <2>7, <2>8, <2>9, <2>10
     DEF StorageCall
<1>5. CASE backend = "sql" /\ SQLCall(d)
  <2> USE <1>5
  <2>1. CASE UpsertDevice(d)
    BY <2>1 DEF UpsertDevice
  <2>2. CASE ClearQueue(d)
    BY <2>2 DEF ClearQueue
  <2>3. CASE DisableRows(d)
    <3>1. /\ Moves(d, "respond") /\ UNCHANGED <<bstoken, push>>
          /\ d \in disabled' <=> d \in disabled \/ push[d] # 0
          /\ tally'[d] = IF d \notin disabled /\ push[d] # 0 THEN 0 ELSE tally[d]
      BY <2>3 DEF DisableRows, EnabledRows
    <3> QED BY <2>3, <3>1 DEF DisableRows, Enrolling
  <2>4. CASE StoreTokenUpdate(d)
    BY <2>4 DEF StoreTokenUpdate
  <2>5. CASE EnableEnrollment(d)
    BY <2>5 DEF EnableEnrollment
  <2>6. CASE UpsertUser(d)
    BY <2>6 DEF UpsertUser
  <2>7. CASE StoreBootstrapToken(d)
    BY <2>7 DEF StoreBootstrapToken
  <2>8. CASE RetrieveBootstrapToken(d)
    BY <2>8 DEF RetrieveBootstrapToken
  <2> QED BY <1>5, <2>1, <2>2, <2>3, <2>4, <2>5, <2>6, <2>7, <2>8 DEF SQLCall
<1>6. CASE backend = "file" /\ FileCall(d)
  <2> USE <1>6
  <2>1. CASE ResetTally(d)
    BY <2>1 DEF ResetTally
  <2>2. CASE RemoveBootstrapToken(d)
    BY <2>2 DEF RemoveBootstrapToken
  <2>3. CASE WriteAuthenticate(d)
    BY <2>3 DEF WriteAuthenticate
  <2>4. CASE ClearQueue(d)
    BY <2>4 DEF ClearQueue
  <2>5. CASE ListSubs(d)
    <3>1. Moves(d, "WriteDisabled")
      BY <2>5, ListMoves DEF ListSubs
    <3> QED BY <2>5, <3>1 DEF ListSubs
  <2>6. CASE WriteDisabled(d)
    <3>1. ASSUME NEW u \in req[d].subs, req' = [req EXCEPT ![d].subs = @ \ {u}],
                 disabled' = disabled \cup {u}
          PROVE  DeviceInv(d)'
      <4>1. Moves(d, "WriteDisabled")
        BY <2>6, <3>1, ListMoves DEF WriteDisabled
      <4>2. d \in disabled' <=> d \in disabled
        BY <3>1
      <4> QED BY <2>6, <4>1, <4>2 DEF WriteDisabled
    <3>2. CASE Then(d, "RemoveSubs") /\ disabled' = disabled \cup {d}
      BY <2>6, <3>2 DEF WriteDisabled
    <3> QED BY <2>6, <3>1, <3>2 DEF WriteDisabled
  <2>7. CASE RemoveSubs(d)
    BY <2>7 DEF RemoveSubs
  <2>8. CASE AssocSub(d)
    BY <2>8 DEF AssocSub
  <2>9. CASE WriteTokenUpdate(d)
    BY <2>9 DEF WriteTokenUpdate
  <2>10. CASE FillTokenUpdate(d)
    BY <2>10 DEF FillTokenUpdate
  <2>11. CASE BumpTally(d)
    <3>1. Moves(d, "WriteTally") /\ req'[d].ctr = tally[d]
      BY <2>11, BumpMoves
    <3> QED BY <2>11, <3>1 DEF BumpTally
  <2>12. CASE WriteTally(d)
    BY <2>12 DEF WriteTally
  <2>13. CASE RemoveDisabled(d)
    BY <2>13 DEF RemoveDisabled
  <2>14. CASE WriteUserAuthenticate(d)
    BY <2>14 DEF WriteUserAuthenticate
  <2>15. CASE WriteBootstrapToken(d)
    BY <2>15 DEF WriteBootstrapToken
  <2>16. CASE FillBootstrapToken(d)
    BY <2>16 DEF FillBootstrapToken
  <2>17. CASE RetrieveBootstrapToken(d)
    BY <2>17 DEF RetrieveBootstrapToken
  <2>18. CASE FillAuthenticate(d)
    BY <2>18 DEF FillAuthenticate
  <2> HIDE DEF DeviceInv
  <2> QED BY <1>6, <2>1, <2>2, <2>3, <2>4, <2>5, <2>6, <2>7, <2>8, <2>9, <2>10,
     <2>11, <2>12, <2>13, <2>14, <2>15, <2>16, <2>17, <2>18 DEF FileCall, MessageCall, OtherCall
<1> QED BY <1>4, <1>5, <1>6 DEF Handle

LEMMA HandleInv ==
    ASSUME NEW d \in Devices, Shape, DeviceInv(d), NEW id \in ID, Handle(id), UNCHANGED backend
    PROVE  DeviceInv(d)'
<1>1. Shape'
  BY HandleShape
<1>2. CASE id = d
  BY <1>1, <1>2, OwnCallInv
<1>3. CASE id # d
  <2>1. SameDevice(d)
    BY <1>3, OthersCall
  <2>2. sent <= sent'
    BY DEF Handle, Shape
  <2> QED BY <1>1, <2>1, <2>2, SameDeviceInv
<1> QED BY <1>1, <1>2, <1>3

-----------------------------------------------------------------------------
(* The clients *)

LEMMA SendShape ==
    ASSUME Shape, NEW id \in ID, NEW m \in CheckIns, Send(id, m)
    PROVE  Shape'
<1>1. sent' \in Nat /\ sent <= sent'
  BY DEF Send, Shape
<1>2. Requests' /\ channels' \subseteq Users /\ bstoken' = bstoken /\ tally' = tally /\ push' = push
  <2>1. PICK n \in Nat : Receive(id, m, n)
    BY <1>1 DEF Send
  <2>2. FirstCall(m) # "none"
    BY DEF FirstCall, CheckIns
  <2>3. Requests'
    <3>1. IsRequest([msg |-> m, no |-> n, call |-> FirstCall(m), subs |-> {}, ctr |-> 0])
      BY <2>2 DEF IsRequest
    <3> QED BY <2>1, <3>1 DEF Receive, Shape, Requests
  <2> QED BY <2>1, <2>3 DEF Receive, Shape, store, enrollments
<1>3. belief' \in [ID -> Beliefs]
  BY DEF Send, Shape, BeliefWhenSent, Beliefs, Enrolling, Enrolled
<1>4. escrow' \in [Devices -> Nat]
  BY <1>1 DEF Send, Shape
<1>5. tries' \in [ID -> Nat] /\ oks' \in [ID -> Nat] /\ told' = told
  BY DEF Send, Shape
<1> QED BY <1>1, <1>2, <1>3, <1>4, <1>5 DEF Shape

LEMMA SendInv ==
    ASSUME NEW d \in Devices, Shape, DeviceInv(d), NEW id \in ID, NEW m \in CheckIns, Send(id, m),
           UNCHANGED backend
    PROVE  DeviceInv(d)'
<1>0. d \in ID /\ d \notin Users
  BY DEF ID
<1>1. /\ Shape'
      /\ sent' \in Nat /\ sent <= sent'
  <2>1. Shape'
    BY SendShape
  <2> QED BY <2>1 DEF Send, Shape
<1>2. CASE id # d
  <2>1. d \notin Void(id, m)
    BY <1>0, <1>2 DEF Void
  <2>2. SameDevice(d)
    BY <1>0, <1>2, <2>1 DEF Send, SameDevice, Receive, Shape, Requests, store, enrollments
  <2> QED BY <1>1, <2>2, SameDeviceInv
<1>3. CASE id = d
  <2>1. req[d] = NoRequest /\ UNCHANGED <<bstoken, tally, push, disabled, told>>
    BY <1>3 DEF Send, Receive, store, enrollments
  <2>2. PICK n \in Nat :
          /\ n = IF Numbered(m) THEN sent' ELSE 1
          /\ req'[d] = [msg |-> m, no |-> n, call |-> FirstCall(m), subs |-> {}, ctr |-> 0]
    BY <1>0, <1>1, <1>3 DEF Send, Receive, Shape, Requests
  <2>3. /\ belief'[d] = BeliefWhenSent(d, m)
        /\ tries'[d] = IF d \in Void(d, m) THEN 0
                       ELSE IF m = "TokenUpdate" THEN tries[d] + 1 ELSE tries[d]
        /\ oks'[d] = IF d \in Void(d, m) THEN 0 ELSE oks[d]
        /\ Permitted(d, m)
    BY <1>0, <1>3 DEF Send, Shape
  <2>4. CASE m = "Authenticate"
    BY <1>0, <1>1, <1>3, <2>1, <2>2, <2>3, <2>4
    DEF DeviceInv, RequestInv, EnabledInv, TallyInv, EscrowInv, Begun, Departs, Bumped, ToBump,
        Counted, Answers, Settled, Enabled, CallsFor, FirstCall, Void, BeliefWhenSent, Enrolled,
        Enrolling, Numbered, Send, Shape
  <2>5. CASE m = "CheckOut"
    BY <1>0, <1>1, <1>3, <2>1, <2>2, <2>3, <2>5
    DEF DeviceInv, RequestInv, EnabledInv, TallyInv, EscrowInv, Begun, Departs, Bumped, ToBump,
        Counted, Answers, Settled, Enabled, CallsFor, FirstCall, Void, BeliefWhenSent, Enrolled,
        Enrolling, Numbered, Send, Shape
  <2>6. CASE m = "TokenUpdate"
    BY <1>0, <1>1, <1>3, <2>1, <2>2, <2>3, <2>6
    DEF DeviceInv, RequestInv, EnabledInv, TallyInv, EscrowInv, Begun, Departs, Bumped, ToBump,
        Counted, Answers, Settled, Enabled, CallsFor, FirstCall, Void, BeliefWhenSent, Enrolled,
        Enrolling, Numbered, Send, Shape,
        Permitted, NoRequest
  <2>7. CASE m = "SetBootstrapToken"
    BY <1>0, <1>1, <1>3, <2>1, <2>2, <2>3, <2>7
    DEF DeviceInv, RequestInv, EnabledInv, TallyInv, EscrowInv, Begun, Departs, Bumped, ToBump,
        Counted, Answers, Settled, Enabled, CallsFor, FirstCall, Void, BeliefWhenSent, Enrolled,
        Enrolling, Numbered, Send, Shape,
        Permitted, NoRequest
  <2>9. CASE m = "GetBootstrapToken"
    BY <1>0, <1>1, <1>3, <2>1, <2>2, <2>3, <2>9
    DEF DeviceInv, RequestInv, EnabledInv, TallyInv, EscrowInv, Begun, Departs, Bumped, ToBump,
        Counted, Answers, Settled, Enabled, CallsFor, FirstCall, Void, BeliefWhenSent, Enrolled,
        Enrolling, Numbered, Send, Shape,
        Permitted, NoRequest
  <2>8. m # "UserAuthenticate"
    BY <1>0, <2>3 DEF Permitted
  <2> QED BY <2>4, <2>5, <2>6, <2>7, <2>8, <2>9 DEF CheckIns
<1> QED BY <1>2, <1>3

(* A request that ends without an answer leaves what its calls have done. *)
CutOff ==
    /\ \A id \in ID : req'[id] = req[id] \/ req'[id] = NoRequest
    /\ req' = [id \in ID |-> req'[id]]
    /\ UNCHANGED <<backend, store, blank, belief, told, escrow, escrowed, tries, oks, updated, sent>>

LEMMA CutOffShape == Shape /\ CutOff => Shape'
BY DEF CutOff, Shape, Requests, store, enrollments

LEMMA CutOffInv ==
    ASSUME NEW d \in Devices, Shape, DeviceInv(d), CutOff
    PROVE  DeviceInv(d)'
<1> USE DEF CutOff
<1>0. d \in ID
  BY DEF ID
<1>1. Shape'
  BY CutOffShape
<1>2. CASE req'[d] = req[d]
  BY <1>0, <1>1, <1>2, SameDeviceInv DEF SameDevice, store, enrollments, Shape
<1>3. CASE req'[d] = NoRequest
  <2>1. RequestInv(d)'
    BY <1>3 DEF DeviceInv, RequestInv, Begun, Departs
  <2>2. EnabledInv(d)' /\ EscrowInv(d)'
    BY <1>3 DEF DeviceInv, EnabledInv, EscrowInv, Begun, Departs, Settled, Enabled, store,
       enrollments
  <2>3. TallyInv(d)'
    BY <1>0, <1>3 DEF DeviceInv, TallyInv, Begun, Bumped, ToBump, Counted, Answers,
       Enabled, store, enrollments, Shape, Requests, IsRequest, NoRequest
  <2> QED BY <2>1, <2>2, <2>3 DEF DeviceInv
<1> QED BY <1>0, <1>2, <1>3

LEMMA AnsweredShape ==
    ASSUME Shape, NEW id \in ID, Answered(id)
    PROVE  IsRequest(req[id]) /\ Shape'
<1>1. IsRequest(req[id])
  BY DEF Answered, Respond, At, Shape, Requests, NoRequest
<1>2. belief' \in [ID -> Beliefs] /\ told' \in [ID -> Nat] /\ oks' \in [ID -> Nat]
  BY <1>1 DEF Answered, Shape, IsRequest, BeliefWhenAnswered, Beliefs, Enrolling, Enrolled
<1>3. Shape'
  BY <1>2 DEF Answered, Respond, Shape, Requests, store, enrollments
<1> QED BY <1>1, <1>3

LEMMA AnsweredInv ==
    ASSUME NEW d \in Devices, Shape, DeviceInv(d), NEW id \in ID, Answered(id), UNCHANGED backend
    PROVE  DeviceInv(d)'
<1>0. d \in ID /\ d \notin Users
  BY DEF ID
<1>1. IsRequest(req[id])
  BY AnsweredShape
<1>2. Shape'
  BY AnsweredShape
<1>3. CASE id # d
  <2>1. SameDevice(d)
    BY <1>0, <1>3 DEF Answered, Respond, SameDevice, Shape, Requests, store, enrollments
  <2>2. sent <= sent'
    BY DEF Answered, Shape
  <2> QED BY <1>2, <2>1, <2>2, SameDeviceInv
<1>4. CASE id = d
  <2>1. /\ req[d] # NoRequest /\ req[d].call = "respond" /\ req'[d] = NoRequest
        /\ belief'[d] = BeliefWhenAnswered(d, req[d].msg)
        /\ told'[d] = IF req[d].msg = "TokenUpdate" THEN req[d].no ELSE told[d]
        /\ oks'[d] = IF req[d].msg = "TokenUpdate" THEN oks[d] + 1 ELSE oks[d]
        /\ d \in escrowed' <=> d \in escrowed \/ req[d].msg = "SetBootstrapToken"
        /\ UNCHANGED <<backend, bstoken, tally, push, disabled, escrow, tries, sent>>
    BY <1>0, <1>1, <1>4 DEF Answered, Respond, At, Shape, Requests, NoRequest, store, enrollments
  <2>2. /\ req[d].no \in Nat /\ told[d] \in Nat /\ sent \in Nat /\ oks[d] \in Nat
        /\ tally[d] \in Nat /\ tries[d] \in Nat /\ push[d] \in Nat
    BY <1>0, <1>1, <1>4 DEF Shape, IsRequest
  <2>3. RequestInv(d)' /\ EnabledInv(d)'
    BY <2>1, <2>2 DEF DeviceInv, RequestInv, EnabledInv, Begun, Departs, Settled, Enabled,
       CallsFor, BeliefWhenAnswered, Enrolled, Enrolling
  <2>4. TallyInv(d)' /\ EscrowInv(d)'
    BY <2>1, <2>2 DEF DeviceInv, RequestInv, TallyInv, EscrowInv, Begun, Departs, Bumped, ToBump,
       Counted, Answers, Enabled, CallsFor, BeliefWhenAnswered, Enrolled, Enrolling
  <2> QED BY <2>3, <2>4 DEF DeviceInv
<1> QED BY <1>3, <1>4

-----------------------------------------------------------------------------
(* The server and its migration *)

SourceInv == Shape /\ \A d \in Devices : DeviceInv(d)

LEMMA SourceInvInit == Init => SourceInv
<1> SUFFICES ASSUME Init PROVE SourceInv
  OBVIOUS
<1> USE DEF Init, ClientsInit, EmptyStore
<1>1. Shape
  BY DEF Shape, Requests, Beliefs, ID
<1>2. ASSUME NEW d \in Devices PROVE DeviceInv(d)
  <2>1. d \in ID
    BY DEF ID
  <2> QED BY <2>1 DEF DeviceInv, RequestInv, EnabledInv, TallyInv, EscrowInv, Begun, Departs,
        Settled, Bumped, ToBump, Counted, Answers, Enabled, Enrolled, Enrolling
<1> QED BY <1>1, <1>2 DEF SourceInv

(* Its other steps do not touch the server that is migrated. *)
LEMMA NextSource ==
    ASSUME [Next]_vars
    PROVE  \/ \E id \in ID : Serve(id)
           \/ Start
           \/ UNCHANGED <<backend, store, blank, req, belief, told, escrow, escrowed, tries, oks, updated,
                    sent>>
<1> USE DEF source, clients
<1>1. CASE UNCHANGED vars
  BY <1>1 DEF vars
<1>2. CASE \E id \in ID : TargetHandles(id) \/ PutFails(id)
  BY <1>2 DEF TargetHandles, PutFails, MigrationFails
<1>3. CASE \E d \in Devices : NextDevice(d)
  BY <1>3 DEF NextDevice
<1>4. CASE PutAuthenticate \/ PutTokenUpdate \/ PutBootstrapToken
  BY <1>4 DEF PutAuthenticate, PutTokenUpdate, PutBootstrapToken
<1>5. CASE \E u \in Users : PutUser(u) \/ PutUserAmongDevices(u)
  BY <1>5 DEF PutUser, PutUserAmongDevices
<1>6. CASE UsersDone \/ DevicesDone \/ WalkFails
  BY <1>6 DEF UsersDone, DevicesDone, WalkFails, MigrationFails
<1> QED BY <1>1, <1>2, <1>3, <1>4, <1>5, <1>6 DEF Next

LEMMA SourceInvNext ==
    ASSUME SourceInv, [Next]_vars
    PROVE  SourceInv'
<1>1. ASSUME CutOff PROVE SourceInv'
  BY <1>1, CutOffShape, CutOffInv DEF SourceInv
<1>2. ASSUME NEW id \in ID, Serve(id) PROVE SourceInv'
  <2> USE DEF SourceInv
  <2>1. UNCHANGED backend
    BY <1>2 DEF Serve
  <2>2. CASE \E m \in CheckIns : Send(id, m)
    BY <2>1, <2>2, SendShape, SendInv
  <2>3. CASE Handle(id)
    BY <2>1, <2>3, HandleShape, HandleInv
  <2>4. CASE Answered(id)
    BY <2>1, <2>4, AnsweredShape, AnsweredInv
  <2>5. CASE RequestFails(id)
    <3>1. CutOff
      BY <2>1, <2>5 DEF CutOff, RequestFails, Fail, Shape, Requests
    <3> QED BY <1>1, <3>1
  <2> QED BY <1>2, <2>2, <2>3, <2>4, <2>5 DEF Serve
<1>3. ASSUME Start PROVE SourceInv'
  BY <1>1, <1>3 DEF Start, CutOff, clients
<1>4. ASSUME UNCHANGED <<backend, store, blank, req, belief, told, escrow, escrowed, tries, oks, updated,
                    sent>>
      PROVE  SourceInv'
  BY <1>1, <1>4 DEF CutOff, SourceInv, Shape, Requests
<1> QED BY <1>2, <1>3, <1>4, NextSource

LEMMA SourceInvariant == Spec => []SourceInv
<1>1. SourceInv /\ [Next]_vars => SourceInv'
  BY SourceInvNext
<1> QED BY SourceInvInit, <1>1, PTL DEF Spec

-----------------------------------------------------------------------------
(* The user channels *)

UsersInv == backend = "sql" => \A u \in Users : UserInv(u)

(* DisableRows has all of the device's users, and only a TokenUpdate of    *)
(* the user's own enables one again.                                       *)
LEMMA HandleUsers ==
    ASSUME SourceInv, NEW u \in Users, UserInv(u), backend = "sql", NEW id \in ID, Handle(id),
           UNCHANGED backend
    PROVE  UserInv(u)'
<1> DEFINE d == ParentID[u]
<1> USE DEF store, enrollments, UserInv, Begun, Departs, Enabled, Moves, At, Shape, SourceInv
<1>0. /\ u \in ID /\ d \in Devices /\ d \in ID /\ d \notin Users
      /\ u \in updated => u \in updated'
      /\ UNCHANGED belief
      /\ SQLCall(id)
  BY DEF Handle, ID
<1>1. /\ IsRequest(req[id])
      /\ \A call : call # "none" /\ Then(id, call) => Moves(id, call)
  BY CallRequest, ThenMoves DEF Handle
<1>2. CASE DisableRows(id)
  <2>1. d = id \/ req'[d] = req[d]
    BY <1>0, <1>2 DEF DisableRows, Then, Requests
  <2>2. CASE d = id
    BY <1>0, <1>2, <2>2 DEF DisableRows, EnabledRows
  <2>3. CASE d # id
    BY <1>0, <1>2, <2>1, <2>3 DEF DisableRows, EnabledRows
  <2> QED BY <2>2, <2>3
<1>3. CASE EnableEnrollment(id)
  <2>1. CASE id = u
    BY <1>0, <1>3, <2>1 DEF EnableEnrollment, Handle, Enables
  <2>2. CASE id # u
    <3>1. Enabled(u)' => Enabled(u)
      BY <1>0, <1>3, <2>2 DEF EnableEnrollment
    <3>2. Departs(d)' => Departs(d) /\ d # id
      <4>1. id = d => Begun(d, "TokenUpdate")
        BY <1>0, <1>1, <1>3 DEF EnableEnrollment, SourceInv, DeviceInv, RequestInv, CallsFor,
           IsRequest, NoRequest
      <4> QED BY <1>0, <1>1, <1>3, <4>1 DEF EnableEnrollment, Then, Requests
    <3>3. d # id => req'[d] = req[d]
      BY <1>0, <1>3 DEF EnableEnrollment, Then, Requests
    <3> QED BY <1>0, <3>1, <3>2, <3>3
  <2> QED BY <2>1, <2>2
<1>4. ASSUME ~ DisableRows(id), ~ EnableEnrollment(id)
      PROVE  UserInv(u)'
  <2>1. UNCHANGED <<push, disabled>>
    BY <1>0, <1>4 DEF SQLCall, UpsertDevice, ClearQueue, StoreTokenUpdate, UpsertUser,
       StoreBootstrapToken, RetrieveBootstrapToken
  <2>2. CASE id = d
    <3>1. \/ UpsertDevice(d) \/ ClearQueue(d) \/ StoreTokenUpdate(d)
          \/ StoreBootstrapToken(d) \/ RetrieveBootstrapToken(d)
      <4>1. req[d].call \in CallsFor(req[d].msg)
        BY <1>0, <1>1, <2>2 DEF DeviceInv, RequestInv, IsRequest, NoRequest
      <4>2. ~ UpsertUser(d)
        BY <4>1 DEF UpsertUser, CallsFor
      <4> QED BY <1>0, <1>4, <2>2, <4>2 DEF SQLCall
    <3>2. Departs(d)' => Departs(d) /\ req'[d].call # "respond"
      <4>1. req[d].call \in CallsFor(req[d].msg)
        BY <1>0, <1>1, <2>2 DEF DeviceInv, RequestInv, IsRequest, NoRequest
      <4> QED BY <1>1, <2>2, <3>1, <4>1 DEF UpsertDevice, ClearQueue, StoreTokenUpdate,
            StoreBootstrapToken, RetrieveBootstrapToken, CallsFor
    <3> QED BY <1>0, <2>1, <3>2
  <2>3. CASE id # d
    <3>1. req'[d] = req[d]
      BY <1>0, <1>4, <2>3 DEF SQLCall, UpsertDevice, ClearQueue, StoreTokenUpdate, UpsertUser,
         StoreBootstrapToken, RetrieveBootstrapToken, Then, Requests
    <3> QED BY <1>0, <2>1, <3>1
  <2> QED BY <2>2, <2>3
<1> QED BY <1>2, <1>3, <1>4

LEMMA SendUsers ==
    ASSUME SourceInv, NEW u \in Users, UserInv(u), NEW id \in ID, NEW m \in CheckIns, Send(id, m)
    PROVE  UserInv(u)'
<1> DEFINE d == ParentID[u]
<1> USE DEF UserInv, Begun, Departs, Enabled, Shape, SourceInv
<1>1. d \in Devices /\ d \in ID /\ u \in ID /\ u # d
  BY DEF ID
<1>2. Enabled(u)' = Enabled(u)
  BY DEF Send, Receive, store, enrollments
<1>3. CASE id = d
  <2>1. req'[d].msg = m /\ req'[d].call = FirstCall(m) /\ req'[d] # NoRequest
    <3>1. \E n : req'[d] = [msg |-> m, no |-> n, call |-> FirstCall(m), subs |-> {}, ctr |-> 0]
      BY <1>1, <1>3 DEF Send, Receive, Requests
    <3> QED BY <3>1 DEF NoRequest, FirstCall, CheckIns
  <2>2. belief'[d] = BeliefWhenSent(d, m)
    BY <1>1, <1>3 DEF Send
  <2>3. CASE m \in {"Authenticate", "CheckOut"}
    BY <2>1, <2>2, <2>3 DEF BeliefWhenSent, FirstCall
  <2>4. CASE m \notin {"Authenticate", "CheckOut"}
    <3>1. belief[d] # "leaving"
      BY <1>1, <1>3, <2>4 DEF Send, Permitted, Enrolled, Enrolling, CheckIns
    <3>2. updated' = updated
      BY <2>4 DEF Send, Void
    <3> QED BY <1>2, <2>1, <2>4, <3>1, <3>2
  <2> QED BY <2>3, <2>4
<1>4. CASE id # d
  <2>1. u \notin Void(id, m) \/ id = u
    BY <1>4 DEF Void
  <2>2. id = u => m \notin {"Authenticate", "CheckOut"}
    BY DEF Send, Permitted, ID
  <2>3. u \notin Void(id, m) /\ d \notin Void(id, m)
    BY <1>1, <1>4, <2>1, <2>2 DEF Void
  <2>4. req'[d] = req[d] /\ belief'[d] = belief[d] /\ (u \in updated => u \in updated')
    BY <1>1, <1>4, <2>3 DEF Send, Receive, Requests
  <2> QED BY <1>2, <2>4
<1> QED BY <1>3, <1>4

(* A device has left when it is told so, and not before.                   *)
LEMMA AnsweredUsers ==
    ASSUME SourceInv, NEW u \in Users, UserInv(u), NEW id \in ID, Answered(id)
    PROVE  UserInv(u)'
<1> DEFINE d == ParentID[u]
<1> USE DEF UserInv, Begun, Departs, Enabled, Shape, SourceInv
<1>1. d \in Devices /\ d \in ID /\ u \in ID
  BY DEF ID
<1>2. Enabled(u)' = Enabled(u) /\ updated' = updated
  BY DEF Answered, Respond, store, enrollments
<1>3. CASE id = d
  <2>1. req[d].call = "respond" /\ req[d] # NoRequest /\ req'[d] = NoRequest
    BY <1>1, <1>3 DEF Answered, Respond, At, Requests, NoRequest
  <2>2. belief'[d] = BeliefWhenAnswered(d, req[d].msg)
    BY <1>1, <1>3 DEF Answered
  <2> QED BY <1>2, <2>1, <2>2 DEF BeliefWhenAnswered
<1>4. CASE id # d
  BY <1>1, <1>2, <1>4 DEF Answered, Respond, Requests
<1> QED BY <1>3, <1>4

LEMMA UsersInvNext ==
    ASSUME SourceInv, UsersInv, [Next]_vars
    PROVE  UsersInv'
<1>1. ASSUME CutOff PROVE UsersInv'
  BY <1>1 DEF CutOff, UsersInv, UserInv, Begun, Departs, Enabled, store, enrollments, ID
<1>2. ASSUME NEW id \in ID, Serve(id) PROVE UsersInv'
  <2>1. UNCHANGED backend
    BY <1>2 DEF Serve
  <2>2. CASE \E m \in CheckIns : Send(id, m)
    BY <2>1, <2>2, SendUsers DEF UsersInv
  <2>3. CASE Handle(id)
    BY <2>1, <2>3, HandleUsers DEF UsersInv
  <2>4. CASE Answered(id)
    BY <2>1, <2>4, AnsweredUsers DEF UsersInv
  <2>5. CASE RequestFails(id)
    <3>1. CutOff
      BY <2>1, <2>5 DEF CutOff, RequestFails, Fail, SourceInv, Shape, Requests
    <3> QED BY <1>1, <3>1
  <2> QED BY <1>2, <2>2, <2>3, <2>4, <2>5 DEF Serve
<1>3. ASSUME Start PROVE UsersInv'
  BY <1>1, <1>3 DEF Start, CutOff, clients
<1>4. ASSUME UNCHANGED <<backend, store, blank, req, belief, told, escrow, escrowed, tries, oks, updated,
                    sent>>
      PROVE  UsersInv'
  BY <1>1, <1>4 DEF CutOff, SourceInv, Shape, Requests
<1> QED BY <1>2, <1>3, <1>4, NextSource

-----------------------------------------------------------------------------
(* What the key-value walk finds: a device that has left, or has not       *)
(* finished enrolling, is disabled, or was never there.                    *)
GhostInv(d) ==
    /\ belief[d] \in {"authed", "out"} => d \in disabled \/ auth[d] = 0
    /\ Departs(d) /\ req[d].call = "respond" => d \in disabled

GhostsInv ==
    backend = "kv" =>
        auth = [d \in Devices |-> auth[d]] /\ \A d \in Devices : GhostInv(d)

LEMMA SameGhost ==
    ASSUME NEW d \in Devices, GhostInv(d), SameDevice(d), auth'[d] = auth[d]
    PROVE  GhostInv(d)'
BY DEF GhostInv, SameDevice, Departs, Begun

LEMMA HandleGhosts ==
    ASSUME SourceInv, GhostsInv, NEW id \in ID, Handle(id), UNCHANGED backend
    PROVE  GhostsInv'
<1> USE DEF SourceInv, At, store, enrollments
<1> SUFFICES ASSUME backend = "kv"
             PROVE  auth' = [d \in Devices |-> auth'[d]] /\ \A d \in Devices : GhostInv(d)'
  BY DEF GhostsInv
<1>1. StorageCall(id) /\ UNCHANGED belief
  BY DEF Handle
<1>2. /\ auth' = [d \in Devices |-> auth'[d]]
      /\ \A d \in Devices : d # id \/ ~ StoreAuthenticate(id) => auth'[d] = auth[d]
  BY <1>1 DEF GhostsInv, StorageCall, StoreAuthenticate, ResetEnrollment, ClearQueue,
     Disable, StoreTokenUpdate, EnableEnrollment, StoreUserAuthenticate, DisableUser,
     StoreBootstrapToken, RetrieveBootstrapToken
<1>3. ASSUME NEW d \in Devices, d # id PROVE GhostInv(d)'
  BY <1>2, <1>3, OthersCall, SameGhost DEF GhostsInv
<1>4. ASSUME NEW d \in Devices, d = id PROVE GhostInv(d)'
  <2> USE DEF GhostInv, Departs, Begun, Moves
  <2>1. /\ IsRequest(req[d]) /\ d \notin Users /\ GhostInv(d)
        /\ \A call : call # "none" /\ Then(d, call) => Moves(d, call)
    BY <1>4, CallRequest, ThenMoves DEF Handle, GhostsInv
  <2>2. /\ req[d].call \in CallsFor(req[d].msg)
        /\ Departs(d) => belief[d] = "leaving"
        /\ Begun(d, "TokenUpdate") => belief[d] \in {"updating", "renewing"}
    BY <2>1 DEF DeviceInv, RequestInv, IsRequest, NoRequest
  <2>3. CASE StoreAuthenticate(d) \/ ResetEnrollment(d) \/ ClearQueue(d)
    BY <1>1, <1>2, <1>4, <2>1, <2>2, <2>3
    DEF StoreAuthenticate, ResetEnrollment, ClearQueue, CallsFor
  <2>4. CASE Disable(d)
    BY <1>1, <2>1, <2>4 DEF Disable
  <2>5. CASE StoreTokenUpdate(d) \/ EnableEnrollment(d)
    BY <1>1, <2>1, <2>2, <2>5 DEF StoreTokenUpdate, EnableEnrollment, CallsFor
  <2>6. CASE StoreUserAuthenticate(d) \/ DisableUser(d)
    BY <2>2, <2>6 DEF StoreUserAuthenticate, DisableUser, CallsFor
  <2>7. CASE StoreBootstrapToken(d) \/ RetrieveBootstrapToken(d)
    BY <1>1, <2>1, <2>2, <2>7 DEF StoreBootstrapToken, RetrieveBootstrapToken, CallsFor
  <2> QED BY <1>1, <1>4, <2>3, <2>4, <2>5, <2>6, <2>7 DEF StorageCall
<1> QED BY <1>2, <1>3, <1>4

LEMMA SendGhosts ==
    ASSUME SourceInv, GhostsInv, NEW id \in ID, NEW m \in CheckIns, Send(id, m), UNCHANGED backend
    PROVE  GhostsInv'
<1> USE DEF SourceInv, Shape, GhostInv, Departs, Begun
<1>1. UNCHANGED <<auth, disabled>>
  BY DEF Send, Receive, store, enrollments
<1>2. ASSUME NEW d \in Devices, GhostInv(d) PROVE GhostInv(d)'
  <2>0. d \in ID /\ d \notin Users
    BY DEF ID
  <2>1. CASE id # d
    BY <1>1, <1>2, <2>0, <2>1 DEF Send, Receive, Void, Requests
  <2>2. CASE id = d
    <3>1. /\ req'[d].msg = m /\ req'[d].call = FirstCall(m)
          /\ belief'[d] = BeliefWhenSent(d, m)
      BY <2>0, <2>2 DEF Send, Receive, Requests
    <3>2. FirstCall(m) # "respond"
      BY DEF FirstCall, CheckIns
    <3>3. belief'[d] \in {"authed", "out"} => belief'[d] = belief[d]
      BY <3>1 DEF BeliefWhenSent, CheckIns
    <3> QED BY <1>1, <1>2, <3>1, <3>2, <3>3
  <2> QED BY <2>1, <2>2
<1> QED BY <1>1, <1>2 DEF GhostsInv

LEMMA AnsweredGhosts ==
    ASSUME SourceInv, GhostsInv, NEW id \in ID, Answered(id), UNCHANGED backend
    PROVE  GhostsInv'
<1> USE DEF SourceInv, Shape, GhostInv, Departs, Begun
<1>1. UNCHANGED <<auth, disabled>>
  BY DEF Answered, Respond, store, enrollments
<1>2. ASSUME NEW d \in Devices, GhostInv(d) PROVE GhostInv(d)'
  <2>0. d \in ID
    BY DEF ID
  <2>1. CASE id # d
    BY <1>1, <1>2, <2>0, <2>1 DEF Answered, Respond, Requests
  <2>2. CASE id = d
    <3>1. /\ req[d].call = "respond" /\ req[d] # NoRequest /\ req'[d] = NoRequest
          /\ belief'[d] = BeliefWhenAnswered(d, req[d].msg)
      BY <2>0, <2>2 DEF Answered, Respond, At, Requests, NoRequest
    <3> QED BY <1>1, <1>2, <3>1 DEF BeliefWhenAnswered
  <2> QED BY <2>1, <2>2
<1> QED BY <1>1, <1>2 DEF GhostsInv

LEMMA GhostsInvNext ==
    ASSUME SourceInv, GhostsInv, [Next]_vars
    PROVE  GhostsInv'
<1>1. ASSUME CutOff PROVE GhostsInv'
  BY <1>1 DEF CutOff, GhostsInv, GhostInv, Begun, Departs, store, enrollments, ID
<1>2. ASSUME NEW id \in ID, Serve(id) PROVE GhostsInv'
  <2>1. UNCHANGED backend
    BY <1>2 DEF Serve
  <2>2. CASE \E m \in CheckIns : Send(id, m)
    BY <2>1, <2>2, SendGhosts
  <2>3. CASE Handle(id)
    BY <2>1, <2>3, HandleGhosts
  <2>4. CASE Answered(id)
    BY <2>1, <2>4, AnsweredGhosts
  <2>5. CASE RequestFails(id)
    <3>1. CutOff
      BY <2>1, <2>5 DEF CutOff, RequestFails, Fail, SourceInv, Shape, Requests
    <3> QED BY <1>1, <3>1
  <2> QED BY <1>2, <2>2, <2>3, <2>4, <2>5 DEF Serve
<1>3. ASSUME Start PROVE GhostsInv'
  BY <1>1, <1>3 DEF Start, CutOff, clients
<1>4. ASSUME UNCHANGED <<backend, store, blank, req, belief, told, escrow, escrowed, tries, oks, updated,
                    sent>>
      PROVE  GhostsInv'
  BY <1>1, <1>4 DEF CutOff, SourceInv, Shape, Requests
<1> QED BY <1>2, <1>3, <1>4, NextSource

-----------------------------------------------------------------------------
(* The key-value walk takes up only devices that have an Authenticate and  *)
(* are not disabled, and what the target gets is about those.              *)
Fit(d) == walk # NotStarted /\ d \notin disabled /\ auth[d] # 0

TargetShape ==
    /\ tPush = [id \in ID |-> tPush[id]]
    /\ tReq = [id \in ID |-> tReq[id]]
    /\ \A id \in ID : tReq[id] = NoRequest \/
          tReq[id] = [msg |-> tReq[id].msg, no |-> tReq[id].no, call |-> tReq[id].call,
                      subs |-> tReq[id].subs, ctr |-> tReq[id].ctr]

WalkShape ==
    walk = NotStarted \/
        /\ walk.phase # "serving"
        /\ walk = [phase |-> walk.phase, left |-> walk.left, dev |-> walk.dev,
                   users |-> walk.users]

UpdatesTarget(d) == tPush[d] # 0 \/ tReq[d].call \in {"StoreTokenUpdate", "EnableEnrollment"}

WalkedInv(d) ==
    /\ UpdatesTarget(d) => Fit(d)
    /\ walk # NotStarted /\ walk.dev = d => Fit(d)
    /\ walk # NotStarted /\ d \in walk.left => auth[d] # 0

WalkInv ==
    backend = "kv" =>
        TargetShape /\ WalkShape /\ \A d \in Devices : WalkedInv(d)

(* A step of the walk that puts nothing. *)
LEMMA WalkOnly ==
    ASSUME WalkInv, backend = "kv", UNCHANGED <<backend, store, target>>,
           walk # NotStarted, walk'.phase # "serving",
           \/ walk' = walk
           \/ \E ph, l, v, us : walk' = [phase |-> ph, left |-> l, dev |-> v, users |-> us],
           \A d \in Devices : walk'.dev = d => Fit(d),
           \A d \in Devices : d \in walk'.left => auth[d] # 0
    PROVE  WalkInv'
<1>1. TargetShape' /\ WalkShape' /\ walk' # NotStarted
  BY DEF WalkInv, TargetShape, WalkShape, NotStarted, target
<1>2. ASSUME NEW d \in Devices PROVE WalkedInv(d)'
  BY <1>1 DEF WalkInv, WalkedInv, UpdatesTarget, Fit, store, enrollments, target
<1> QED BY <1>1, <1>2 DEF WalkInv

(* A message that is put, if about a device, is about the one the walk is  *)
(* at.                                                                     *)
LEMMA PutWalk ==
    ASSUME WalkInv, backend = "kv", NEW id, NEW m \in CheckIns, NEW n, Put(id, m, n),
           \A d \in Devices : id = d => Fit(d),
           UNCHANGED source, walk # NotStarted,
           NEW ph, ph # "serving", NEW l \in SUBSET walk.left, NEW us,
           walk' = [phase |-> ph, left |-> l, dev |-> walk.dev, users |-> us]
    PROVE  WalkInv'
<1> USE DEF source, store, enrollments, clients, target
<1>1. /\ walk' # NotStarted /\ walk'.phase # "serving" /\ walk'.dev = walk.dev
      /\ walk'.left \subseteq walk.left
      /\ walk' = [phase |-> walk'.phase, left |-> walk'.left, dev |-> walk'.dev,
                  users |-> walk'.users]
  BY DEF WalkInv, WalkShape, NotStarted
<1>2. TargetShape' /\ tPush' = tPush /\ \A i \in ID : i # id => tReq'[i] = tReq[i]
  BY DEF Put, WalkInv, TargetShape, Target!Receive, Target!store, Target!enrollments
<1>3. ASSUME NEW d \in Devices PROVE WalkedInv(d)'
  <2>1. d \in ID
    BY DEF ID
  <2> QED BY <1>1, <1>2, <2>1 DEF WalkInv, WalkedInv, UpdatesTarget, Fit
<1> QED BY <1>1, <1>2, <1>3 DEF WalkInv, WalkShape

LEMMA TargetWalk ==
    ASSUME WalkInv, backend = "kv", NEW id \in ID, UNCHANGED <<backend, store, walk>>,
           Target!StorageCall(id) \/ Target!Respond(id) \/ Target!Fail(id)
    PROVE  WalkInv'
<1> USE DEF Target!At, Target!Then, Target!store, Target!enrollments, TargetShape
<1>1. TargetShape /\ WalkShape /\ WalkShape'
  BY DEF WalkInv, WalkShape
<1>2. CASE Target!Respond(id) \/ Target!Fail(id)
  <2>1. TargetShape' /\ \A d \in ID : UpdatesTarget(d)' => UpdatesTarget(d)
    BY <1>1, <1>2 DEF Target!Respond, Target!Fail, UpdatesTarget, Target!NoRequest, NoRequest
  <2> QED BY <1>1, <2>1 DEF WalkInv, WalkedInv, Fit, store, enrollments, ID
<1>3. CASE Target!StorageCall(id)
  <2>1. tReq[id] # NoRequest
    BY <1>3 DEF NoRequest, Target!StorageCall, Target!StoreAuthenticate, Target!ResetEnrollment,
       Target!ClearQueue, Target!Disable, Target!StoreTokenUpdate, Target!EnableEnrollment,
       Target!StoreUserAuthenticate, Target!DisableUser, Target!StoreBootstrapToken,
       Target!RetrieveBootstrapToken
  <2>3. TargetShape' /\ \A d \in ID : UpdatesTarget(d)' => UpdatesTarget(d)
    BY <1>1, <1>3, <2>1 DEF UpdatesTarget, Target!StorageCall, Target!StoreAuthenticate,
       Target!ResetEnrollment, Target!ClearQueue, Target!Disable, Target!StoreTokenUpdate,
       Target!EnableEnrollment, Target!StoreUserAuthenticate, Target!DisableUser,
       Target!StoreBootstrapToken, Target!RetrieveBootstrapToken
  <2> QED BY <1>1, <2>3 DEF WalkInv, WalkedInv, Fit, store, enrollments, ID
<1> QED BY <1>2, <1>3

LEMMA WalkInvNext ==
    ASSUME WalkInv, [Next]_vars
    PROVE  WalkInv'
<1> SUFFICES ASSUME backend = "kv" PROVE WalkInv'
  <2>1. backend' = backend
    BY DEF Next, vars, source, Serve, Start, NextDevice, PutAuthenticate, PutTokenUpdate,
       PutBootstrapToken, PutUser, PutUserAmongDevices, UsersDone, DevicesDone, TargetHandles,
       PutFails, WalkFails, MigrationFails
  <2> QED BY <2>1 DEF WalkInv
<1> USE DEF WalkInv, source
<1>1. CASE UNCHANGED vars
  BY <1>1 DEF vars, target, store, enrollments, TargetShape, WalkShape, WalkedInv, UpdatesTarget, Fit
<1>2. ASSUME NEW id \in ID, Serve(id) PROVE WalkInv'
  <2>1. walk = NotStarted /\ UNCHANGED <<backend, walk, target>>
    BY <1>2 DEF Serve, Serving
  <2>2. \A d \in Devices : ~ UpdatesTarget(d)
    BY <2>1 DEF WalkedInv, Fit
  <2> QED BY <2>1, <2>2 DEF TargetShape, WalkShape, WalkedInv, UpdatesTarget, target
<1>3. CASE Start
  <2>1. walk' = [phase |-> "device", left |-> Entries, dev |-> None, users |-> {}]
        /\ walk' # NotStarted
    BY <1>3 DEF Start, NotStarted
  <2>2. \A d \in Devices : d # None /\ d \notin Users
    BY NoneAssumption DEF ID
  <2>3. TargetShape' /\ WalkShape'
    BY <1>3, <2>1 DEF Start, TargetShape, WalkShape, target
  <2>4. ASSUME NEW d \in Devices PROVE WalkedInv(d)'
    <3>1. UpdatesTarget(d)' => Fit(d)
      BY <1>3 DEF Start, UpdatesTarget, WalkedInv, target
    <3>2. d \in Entries => auth[d] # 0
      BY DEF Entries
    <3> QED BY <1>3, <2>1, <2>2, <3>1, <3>2 DEF Start, WalkedInv, Fit, store, enrollments
  <2> QED BY <1>3, <2>3, <2>4 DEF Start
<1>4. ASSUME walk.phase # "serving"
      PROVE  /\ walk # NotStarted
             /\ walk = [phase |-> walk.phase, left |-> walk.left, dev |-> walk.dev,
                        users |-> walk.users]
             /\ \A d \in Devices : walk.dev = d => Fit(d)
             /\ \A d \in Devices : d \in walk.left => auth[d] # 0
  BY <1>4 DEF WalkShape, WalkedInv, NotStarted
<1>5. ASSUME NEW d \in Devices, NextDevice(d) PROVE WalkInv'
  <2>1. /\ walk.phase = "device" /\ d \in walk.left
        /\ UNCHANGED <<backend, store, target>>
    BY <1>5 DEF NextDevice, Walking
  <2>2. CASE d \in disabled
    <3>1. walk' = [phase |-> "device", left |-> walk.left \ {d}, dev |-> walk.dev,
                   users |-> walk.users]
      <4>1. walk' = [walk EXCEPT !.left = @ \ {d}]
        BY <1>5, <2>2 DEF NextDevice, SkipsDisabled
      <4> QED BY <1>4, <2>1, <4>1
    <3> QED BY <1>4, <2>1, <3>1, WalkOnly
  <2>3. CASE d \notin disabled
    <3>1. walk' = [phase |-> "Authenticate", left |-> walk.left \ {d}, dev |-> d,
                   users |-> walk.users]
      <4>1. walk' = [walk EXCEPT !.left = @ \ {d}, !.dev = d, !.phase = "Authenticate"]
        BY <1>5, <2>3 DEF NextDevice, SkipsDisabled
      <4> QED BY <1>4, <2>1, <4>1
    <3>2. Fit(d)
      BY <1>4, <2>1, <2>3 DEF Fit
    <3> QED BY <1>4, <2>1, <3>1, <3>2, WalkOnly
  <2> QED BY <2>2, <2>3
<1>6. CASE PutAuthenticate
  <2>1. walk' = [phase |-> "TokenUpdate", left |-> walk.left, dev |-> walk.dev,
                 users |-> walk.users]
    BY <1>4, <1>6 DEF PutAuthenticate, Walking
  <2>2. PICK n : Put(walk.dev, "Authenticate", n) /\ UNCHANGED source
    BY <1>6 DEF PutAuthenticate, Walking
  <2> QED BY <1>4, <1>6, <2>1, <2>2, PutWalk DEF PutAuthenticate, Walking, CheckIns
<1>7. CASE PutTokenUpdate
  <2>1. PICK ph : /\ ph # "serving"
                  /\ walk' = [phase |-> ph, left |-> walk.left, dev |-> walk.dev,
                              users |-> walk.users]
    <3>1. walk' = [walk EXCEPT !.phase = IF tok[walk.dev] = 0 THEN "device"
                                         ELSE "SetBootstrapToken"]
      BY <1>7 DEF PutTokenUpdate, Walking
    <3> QED BY <1>4, <1>7, <3>1 DEF PutTokenUpdate, Walking
  <2>2. PICK n : Put(walk.dev, "TokenUpdate", n) /\ UNCHANGED source
    BY <1>7 DEF PutTokenUpdate, Walking
  <2> QED BY <1>4, <1>7, <2>1, <2>2, PutWalk DEF PutTokenUpdate, Walking, CheckIns
<1>8. CASE PutBootstrapToken
  <2>1. walk' = [phase |-> "users", left |-> walk.left, dev |-> walk.dev,
                 users |-> {u \in channels : ParentID[u] = walk.dev}]
    BY <1>4, <1>8 DEF PutBootstrapToken, Walking
  <2>2. Put(walk.dev, "SetBootstrapToken", bstoken[walk.dev]) /\ UNCHANGED source
    BY <1>8 DEF PutBootstrapToken, Walking
  <2> QED BY <1>4, <1>8, <2>1, <2>2, PutWalk DEF PutBootstrapToken, Walking, CheckIns
<1>9. ASSUME NEW u \in Users, PutUser(u) PROVE WalkInv'
  <2>1. walk' = [phase |-> "users", left |-> walk.left, dev |-> walk.dev,
                 users |-> walk.users \ {u}]
    BY <1>4, <1>9 DEF PutUser, Walking
  <2>2. PICK n : Put(u, "TokenUpdate", n)
    BY <1>9 DEF PutUser
  <2>3. UNCHANGED source
    BY <1>9 DEF PutUser
  <2> QED BY <1>4, <1>9, <2>1, <2>2, <2>3, PutWalk DEF PutUser, Walking, CheckIns
<1>10. ASSUME NEW u \in Users, PutUserAmongDevices(u) PROVE WalkInv'
  <2>1. walk' = [phase |-> "device", left |-> walk.left \ {u}, dev |-> walk.dev,
                 users |-> walk.users]
    BY <1>4, <1>10 DEF PutUserAmongDevices, Walking
  <2>2. PICK n : Put(u, "TokenUpdate", n) /\ UNCHANGED source
    BY <1>10 DEF PutUserAmongDevices
  <2> QED BY <1>4, <1>10, <2>1, <2>2, PutWalk DEF PutUserAmongDevices, Walking, CheckIns
<1>11. CASE UsersDone \/ DevicesDone \/ WalkFails
  <2>1. UNCHANGED <<backend, store, target>> /\ walk # NotStarted
    BY <1>4, <1>11 DEF UsersDone, DevicesDone, WalkFails, MigrationFails, NotStarted, Walking
  <2>2. WalkShape /\ walk.phase # "serving"
    BY <2>1 DEF WalkShape
  <2>3. PICK ph, v : /\ ph # "serving" /\ v \in {None, walk.dev}
                     /\ walk' = [phase |-> ph, left |-> walk.left, dev |-> v, users |-> walk.users]
    BY <1>11, <2>1, <2>2 DEF UsersDone, DevicesDone, WalkFails, WalkShape
  <2>4. \A d \in Devices : d # None
    BY NoneAssumption DEF ID
  <2> QED BY <2>1, <2>3, <2>4, WalkOnly DEF WalkedInv
<1>12. ASSUME NEW id \in ID, TargetHandles(id) \/ PutFails(id) PROVE WalkInv'
  BY <1>12, TargetWalk DEF TargetHandles, PutFails, MigrationFails
<1> QED BY <1>1, <1>2, <1>3, <1>5, <1>6, <1>7, <1>8, <1>9, <1>10,
   <1>11, <1>12 DEF Next

-----------------------------------------------------------------------------
(* What follows *)

(* Server and device agree about the enrollment, although a check-in is    *)
(* several transactions (service/nanomdm/service.go, storage/kv/mdm.go,    *)
(* mysql.go, file.go) any of which may fail, and the server may stop; in   *)
(* the file backend, of a device whose last TokenUpdate was answered.      *)
THEOREM ServerKnowsEnrollmentCorrect == Spec => []ServerKnowsEnrollment
<1>1. SourceInv => ServerKnowsEnrollment
  BY DEF SourceInv, DeviceInv, EnabledInv, ServerKnowsEnrollment
<1> QED BY <1>1, SourceInvariant, PTL

(* The tally counts the TokenUpdates of this enrollment, whichever of an   *)
(* Authenticate's transactions had failed (bumpTally, storage/kv/mdm.go);  *)
(* it never counts too many, and in the file backend, whose bump may leave *)
(* an empty file (bumpNumericFile), none is missing while none has failed. *)
THEOREM TallyOfEnrollmentCorrect == Spec => []TallyOfEnrollment
<1>1. SourceInv => TallyOfEnrollment
  <2> SUFFICES ASSUME SourceInv, NEW d \in Devices, belief[d] \in Enrolling
               PROVE  /\ backend # "file" \/ oks[d] = tries[d] => oks[d] <= tally[d]
                      /\ tally[d] <= tries[d]
    BY DEF TallyOfEnrollment
  <2>1. /\ oks[d] \in Nat /\ tally[d] \in Nat /\ tries[d] \in Nat
        /\ TallyInv(d) /\ (req[d] # NoRequest => req[d].ctr \in Nat)
    BY DEF SourceInv, DeviceInv, Shape, Requests, IsRequest, ID
  <2>2. Counted(d) \in Nat
    BY <2>1 DEF Counted, Begun
  (* In the file backend: no TokenUpdate is under way. *)
  <2>3. oks[d] = tries[d] => ~ Begun(d, "TokenUpdate")
    BY <2>1 DEF TallyInv, Answers
  <2> QED BY <2>1, <2>2, <2>3 DEF TallyInv, Counted, Answers
<1> QED BY <1>1, SourceInvariant, PTL

(* The bootstrap token that is kept is not one of an enrollment before     *)
(* (storage/kv/bstoken.go, and StoreAuthenticate, which removes it).       *)
THEOREM EscrowOfEnrollmentCorrect == Spec => []EscrowOfEnrollment
<1>1. SourceInv => EscrowOfEnrollment
  BY DEF SourceInv, DeviceInv, EscrowInv, EscrowOfEnrollment
<1> QED BY <1>1, SourceInvariant, PTL

(* On the SQL backends a device's users are disabled with it, by one       *)
(* UPDATE (storage/mysql/mysql.go), whatever the users send meanwhile.     *)
THEOREM UsersLeaveWithDeviceCorrect == Spec => []UsersLeaveWithDevice
<1>1. Init => UsersInv
  BY DEF Init, ClientsInit, EmptyStore, UsersInv, UserInv, Enabled, ID
<1>2. SourceInv /\ UsersInv /\ [Next]_vars => UsersInv'
  BY UsersInvNext
<1>3. UsersInv => UsersLeaveWithDevice
  BY DEF UsersInv, UserInv, UsersLeaveWithDevice, EnabledSinceUpdate
<1> QED BY <1>1, <1>2, <1>3, SourceInvariant, PTL DEF Spec

(* nano2nano enables no device at the target that has left the server or   *)
(* was still enrolling when it stopped: the key-value walk skips disabled  *)
(* enrollments (storage/kv/migrate.go) and nothing it missed is enabled by *)
(* a later run.                                                            *)
THEOREM NoGhostsCorrect == Spec => []NoGhosts
<1>1. Init => GhostsInv /\ WalkInv
  <2> SUFFICES ASSUME Init PROVE GhostsInv /\ WalkInv
    OBVIOUS
  <2>1. GhostsInv
    BY DEF Init, ClientsInit, EmptyStore, GhostsInv, GhostInv, Departs, Begun, ID
  <2>2. WalkInv
    BY DEF Init, WalkInv, TargetShape, WalkShape, WalkedInv, UpdatesTarget, NoRequest,
       Target!EmptyStore, Target!NoRequest, Target!ID, ID
  <2> QED BY <2>1, <2>2
<1>2. SourceInv /\ GhostsInv /\ [Next]_vars => GhostsInv'
  BY GhostsInvNext
<1>3. WalkInv /\ [Next]_vars => WalkInv'
  BY WalkInvNext
<1>4. GhostsInv /\ WalkInv => NoGhosts
  BY DEF GhostsInv, GhostInv, WalkInv, WalkedInv, UpdatesTarget, Fit, NoGhosts, Target!Enabled
<1> QED BY <1>1, <1>2, <1>3, <1>4, SourceInvariant, PTL DEF Spec

-----------------------------------------------------------------------------
(* What a migration needs of the source: the last TokenUpdate that was     *)
(* answered, or a newer one, is stored, and what the walk goes by is there *)
(* for every client that is enrolled.                                      *)
ToStore(id) == req[id].call \in {"StoreTokenUpdate", "WriteTokenUpdate"}

UpdateInv(id) ==
    /\ told[id] <= tok[id] /\ tok[id] <= sent
    /\ belief[id] \in Enrolled => tok[id] # 0
    /\ Begun(id, "TokenUpdate") =>
          /\ req[id].no # 0 /\ req[id].no <= sent
          /\ IF ToStore(id) THEN tok[id] <= req[id].no ELSE tok[id] = req[id].no

UserCalls == {"StoreUserAuthenticate", "DisableUser", "respond"}

CalledInv(u) ==
    req[u] # NoRequest =>
        \/ /\ req[u].msg = "TokenUpdate" /\ req[u].call \in CallsFor("TokenUpdate")
           /\ belief[u] # "enrolled"
        \/ /\ req[u].msg = "UserAuthenticate" /\ req[u].call \in UserCalls
           /\ belief[u] \notin Enrolled

(* A TokenUpdate's file is empty while the client waits for its answer, or *)
(* has failed to get one.                                                  *)
BlankInv(id) ==
    <<"TokenUpdate", id>> \in blank =>
        /\ belief[id] # "enrolled"
        /\ Begun(id, "TokenUpdate") =>
              req[id].call \in {"StoreTokenUpdate", "WriteTokenUpdate", "FillTokenUpdate"}

ChannelInv(u) ==
    (belief[u] \in Enrolled \/ (Begun(u, "TokenUpdate") /\ req[u].call = "respond"))
        => u \in channels /\ u \notin disabled

AuthInv(d) ==
    /\ belief[d] \in Enrolling => auth[d] # 0
    /\ Begun(d, "Authenticate") =>
          \/ req[d].call \in {"StoreAuthenticate", "RemoveBootstrapToken", "WriteAuthenticate"}
          \/ auth[d] # 0
    /\ d \in escrowed => escrow[d] # 0

Messages == tok \in [ID -> Nat] /\ auth = [d \in Devices |-> auth[d]]

KeptInv ==
    /\ Messages /\ escrowed \cap Users = {}
    /\ backend # "file" => blank = {}
    /\ \A id \in ID : UpdateInv(id) /\ BlankInv(id)
    /\ \A u \in Users : CalledInv(u) /\ (backend = "kv" => ChannelInv(u))
    /\ \A d \in Devices : AuthInv(d)

(* A call is of a message that makes it. *)
LEMMA CallMessage ==
    ASSUME SourceInv, KeptInv, NEW id \in ID, req[id] # NoRequest
    PROVE  /\ req[id].msg = "TokenUpdate" => req[id].call \in CallsFor("TokenUpdate")
           /\ req[id].msg = "TokenUpdate" => belief[id] # "enrolled"
           /\ ToStore(id) \/ req[id].call = "FillTokenUpdate" => req[id].msg = "TokenUpdate"
<1>1. CASE id \in Devices
  <2>1. /\ req[id].call \in CallsFor(req[id].msg)
        /\ req[id].msg = "TokenUpdate" => belief[id] # "enrolled"
    BY <1>1 DEF SourceInv, DeviceInv, RequestInv, Begun
  <2> QED BY <2>1 DEF CallsFor, ToStore
<1>2. CASE id \in Users
  BY <1>2 DEF KeptInv, CalledInv, UserCalls, ToStore
<1> QED BY <1>1, <1>2 DEF ID

(* What a client's call leaves alone of the others' *)
LEMMA CallOthers ==
    ASSUME Shape, Messages, NEW id \in ID, Handle(id), UNCHANGED backend
    PROVE  /\ Messages'
           /\ \A i \in ID : i # id => req'[i] = req[i] /\ tok'[i] = tok[i]
           /\ \A d \in Devices : d # id => auth'[d] = auth[d]
           /\ backend = "kv" => \A u \in Users : u # id =>
                 /\ u \in channels => u \in channels'
                 /\ u \in disabled' => u \in disabled
<1> USE DEF Shape, Requests, Messages, Then, At, store, enrollments
<1>1. req[id].no \in Nat
  BY CallRequest DEF Handle, IsRequest
<1>2. CASE backend = "kv" /\ StorageCall(id)
  <2>1. \A u \in Users : u \notin userChannelEnrollments(id)
    BY KeyPrefix DEF ID
  <2> QED BY <1>1, <1>2, <2>1 DEF StorageCall, StoreAuthenticate, ResetEnrollment, ClearQueue,
     Disable, StoreTokenUpdate, EnableEnrollment, StoreUserAuthenticate, DisableUser,
     StoreBootstrapToken, RetrieveBootstrapToken
<1>3. CASE backend = "sql" /\ SQLCall(id)
  BY <1>1, <1>3 DEF SQLCall, UpsertDevice, ClearQueue, DisableRows, StoreTokenUpdate,
     EnableEnrollment, UpsertUser, StoreBootstrapToken, RetrieveBootstrapToken
<1>4. CASE backend = "file" /\ FileCall(id)
  BY <1>1, <1>4 DEF FileCall, MessageCall, OtherCall, FillAuthenticate, FillTokenUpdate, WriteTally,
       WriteBootstrapToken, FillBootstrapToken, ResetTally, RemoveBootstrapToken, WriteAuthenticate, ClearQueue,
     ListSubs, WriteDisabled, RemoveSubs, AssocSub, WriteTokenUpdate, BumpTally,
     RemoveDisabled, WriteUserAuthenticate, RetrieveBootstrapToken
<1> QED BY <1>2, <1>3, <1>4 DEF Handle

(* A request moves on to a call after its own. *)
LEMMA HandleMoves ==
    ASSUME Shape, NEW id \in ID, Handle(id)
    PROVE  /\ IsRequest(req[id]) /\ req[id] # NoRequest
           /\ \A call : call # "none" /\ Then(id, call) => Moves(id, call)
           /\ ListSubs(id) => Moves(id, "WriteDisabled")
           /\ WriteDisabled(id) => Moves(id, "WriteDisabled") \/ Moves(id, "RemoveSubs")
           /\ BumpTally(id) => Moves(id, "WriteTally")
<1>1. IsRequest(req[id])
  BY CallRequest DEF Handle
<1>2. ListSubs(id) => Moves(id, "WriteDisabled")
  BY <1>1, ListMoves DEF ListSubs
<1>3. WriteDisabled(id) => Moves(id, "WriteDisabled") \/ Moves(id, "RemoveSubs")
  BY <1>1, ListMoves, ThenMoves DEF WriteDisabled, At
<1>4. BumpTally(id) => Moves(id, "WriteTally")
  BY <1>1, BumpMoves
<1> QED BY <1>1, <1>2, <1>3, <1>4, ThenMoves DEF IsRequest, NoRequest

(* What a call does to its own enrollment *)
LEMMA CallStores ==
    ASSUME Shape, Messages, NEW id \in ID, Handle(id), UNCHANGED backend
    PROVE  \/ tok'[id] = req[id].no /\ ToStore(id) /\ ~ ToStore(id)'
           \/ tok'[id] = tok[id] /\ (ToStore(id)' <=> ToStore(id))
<1> USE DEF Messages, Moves, At, store, enrollments, ToStore
<1>1. /\ IsRequest(req[id]) /\ req[id] # NoRequest
      /\ \A call : call # "none" /\ Then(id, call) => Moves(id, call)
      /\ ListSubs(id) => Moves(id, "WriteDisabled")
      /\ WriteDisabled(id) => Moves(id, "WriteDisabled") \/ Moves(id, "RemoveSubs")
      /\ BumpTally(id) => Moves(id, "WriteTally")
  BY HandleMoves
<1>2. CASE backend = "kv" /\ StorageCall(id)
  BY <1>1, <1>2 DEF StorageCall, StoreAuthenticate, ResetEnrollment, ClearQueue,
     Disable, StoreTokenUpdate, EnableEnrollment, StoreUserAuthenticate, DisableUser,
     StoreBootstrapToken, RetrieveBootstrapToken
<1>3. CASE backend = "sql" /\ SQLCall(id)
  BY <1>1, <1>3 DEF SQLCall, UpsertDevice, ClearQueue, DisableRows, StoreTokenUpdate,
     EnableEnrollment, UpsertUser, StoreBootstrapToken, RetrieveBootstrapToken
<1>4. CASE backend = "file" /\ FileCall(id)
  BY <1>1, <1>4 DEF FileCall, MessageCall, OtherCall, FillAuthenticate, FillTokenUpdate, WriteTally,
       WriteBootstrapToken, FillBootstrapToken, ResetTally, RemoveBootstrapToken, WriteAuthenticate, ClearQueue,
     ListSubs, WriteDisabled, RemoveSubs, AssocSub, WriteTokenUpdate, BumpTally,
     RemoveDisabled, WriteUserAuthenticate, RetrieveBootstrapToken
<1> QED BY <1>2, <1>3, <1>4 DEF Handle

LEMMA HandleUpdate ==
    ASSUME SourceInv, KeptInv, NEW id \in ID, Handle(id), UNCHANGED backend, NEW i \in ID
    PROVE  UpdateInv(i)'
<1> USE DEF UpdateInv, Begun
<1>0. /\ UpdateInv(i) /\ Shape /\ Messages /\ UNCHANGED <<belief, told, sent>>
      /\ told[i] \in Nat /\ tok[i] \in Nat /\ sent \in Nat
  BY DEF Handle, KeptInv, SourceInv, Shape, Messages
<1>1. CASE i # id
  BY <1>0, <1>1, CallOthers DEF ToStore
<1>2. CASE i = id
  <2>1. /\ req[i] # NoRequest /\ req'[i].msg = req[i].msg /\ req'[i].no = req[i].no
    <3>1. /\ IsRequest(req[id]) /\ req[id] # NoRequest
          /\ \A call : call # "none" /\ Then(id, call) => Moves(id, call)
          /\ ListSubs(id) => Moves(id, "WriteDisabled")
          /\ WriteDisabled(id) => Moves(id, "WriteDisabled") \/ Moves(id, "RemoveSubs")
          /\ BumpTally(id) => Moves(id, "WriteTally")
      BY <1>0, HandleMoves
    <3>2. \E call : Moves(id, call)
      <4>1. CASE StorageCall(id)
        BY <3>1, <4>1 DEF StorageCall, StoreAuthenticate, ResetEnrollment, ClearQueue,
           Disable, StoreTokenUpdate, EnableEnrollment, StoreUserAuthenticate, DisableUser,
           StoreBootstrapToken, RetrieveBootstrapToken
      <4>2. CASE SQLCall(id)
        BY <3>1, <4>2 DEF SQLCall, UpsertDevice, ClearQueue, DisableRows, StoreTokenUpdate,
           EnableEnrollment, UpsertUser, StoreBootstrapToken, RetrieveBootstrapToken
      <4>3. CASE FileCall(id)
        BY <3>1, <4>3 DEF FileCall, MessageCall, OtherCall, FillAuthenticate, FillTokenUpdate, WriteTally,
       WriteBootstrapToken, FillBootstrapToken, ResetTally, RemoveBootstrapToken, WriteAuthenticate,
           ClearQueue, ListSubs, WriteDisabled, RemoveSubs, AssocSub, WriteTokenUpdate, BumpTally,
           RemoveDisabled, WriteUserAuthenticate, RetrieveBootstrapToken
      <4> QED BY <4>1, <4>2, <4>3 DEF Handle
    <3> QED BY <1>2, <3>1, <3>2 DEF Moves
  <2>2. ToStore(i) => req[i].msg = "TokenUpdate"
    BY <2>1, CallMessage
  <2>3. /\ \/ tok'[i] = req[i].no /\ ToStore(i) /\ ~ ToStore(i)'
           \/ tok'[i] = tok[i] /\ (ToStore(i)' <=> ToStore(i))
    BY <1>0, <1>2, CallStores
  <2>4. req[i].no \in Nat
    BY <1>0, <1>2, HandleMoves DEF IsRequest
  <2> QED BY <1>0, <2>1, <2>2, <2>3, <2>4
<1> QED BY <1>1, <1>2

(* A user's requests are of two kinds, and on key-value storage the last   *)
(* call of a TokenUpdate has its channel listed and enabled.               *)
LEMMA HandleUser ==
    ASSUME SourceInv, KeptInv, NEW id \in ID, Handle(id), UNCHANGED backend, NEW u \in Users
    PROVE  CalledInv(u)' /\ (backend = "kv" => ChannelInv(u)')
<1> USE DEF CalledInv, ChannelInv, Begun, Moves, At, UserCalls, CallsFor
<1>0. /\ u \in ID /\ Shape /\ Messages /\ UNCHANGED belief
      /\ CalledInv(u) /\ (backend = "kv" => ChannelInv(u))
  BY DEF Handle, KeptInv, SourceInv, ID
<1>1. CASE u # id
  BY <1>0, <1>1, CallOthers
<1>2. CASE u = id
  <2>1. /\ IsRequest(req[u]) /\ req[u] # NoRequest
        /\ \A call : call # "none" /\ Then(u, call) => Moves(u, call)
    BY <1>0, <1>2, HandleMoves
  <2>2. CASE backend = "kv" /\ StorageCall(u)
    <3>1. CASE EnableEnrollment(u)
      BY <1>0, <2>1, <3>1 DEF EnableEnrollment
    <3>2. CASE StoreTokenUpdate(u) \/ StoreUserAuthenticate(u)
      BY <1>0, <2>1, <3>2 DEF StoreTokenUpdate, StoreUserAuthenticate, enrollments
    <3>3. CASE DisableUser(u)
      BY <1>0, <2>1, <3>3 DEF DisableUser
    <3>4. ~ (StoreAuthenticate(u) \/ ResetEnrollment(u) \/ ClearQueue(u) \/ Disable(u)
             \/ StoreBootstrapToken(u) \/ RetrieveBootstrapToken(u))
      BY <1>0, <2>1 DEF StoreAuthenticate, ResetEnrollment, ClearQueue, Disable,
         StoreBootstrapToken, RetrieveBootstrapToken
    <3> QED BY <2>2, <3>1, <3>2, <3>3, <3>4 DEF StorageCall
  <2>3. CASE backend = "sql" /\ SQLCall(u)
    <3>1. CASE StoreTokenUpdate(u) \/ EnableEnrollment(u) \/ UpsertUser(u)
      BY <1>0, <2>1, <2>3, <3>1 DEF StoreTokenUpdate, EnableEnrollment, UpsertUser
    <3>2. ~ (UpsertDevice(u) \/ ClearQueue(u) \/ DisableRows(u)
             \/ StoreBootstrapToken(u) \/ RetrieveBootstrapToken(u))
      BY <1>0, <2>1 DEF UpsertDevice, ClearQueue, DisableRows, StoreBootstrapToken,
         RetrieveBootstrapToken
    <3> QED BY <2>3, <3>1, <3>2 DEF SQLCall
  <2>4. CASE backend = "file" /\ FileCall(u)
    <3>1. CASE \/ AssocSub(u) \/ WriteTokenUpdate(u) \/ FillTokenUpdate(u) \/ WriteTally(u)
               \/ RemoveDisabled(u) \/ WriteUserAuthenticate(u)
      BY <1>0, <2>1, <2>4, <3>1 DEF AssocSub, WriteTokenUpdate, FillTokenUpdate, WriteTally,
         RemoveDisabled, WriteUserAuthenticate
    <3>2. CASE BumpTally(u)
      <4>1. Moves(u, "WriteTally") /\ req[u].call = "BumpTally"
        BY <2>1, <3>2, <1>0, BumpMoves DEF BumpTally
      <4> QED BY <1>0, <2>1, <2>4, <4>1
    <3>3. ~ (ResetTally(u) \/ RemoveBootstrapToken(u) \/ WriteAuthenticate(u)
             \/ FillAuthenticate(u) \/ ClearQueue(u)
             \/ ListSubs(u) \/ WriteDisabled(u) \/ RemoveSubs(u)
             \/ WriteBootstrapToken(u) \/ FillBootstrapToken(u) \/ RetrieveBootstrapToken(u))
      BY <1>0, <2>1 DEF ResetTally, RemoveBootstrapToken, WriteAuthenticate, FillAuthenticate,
         ClearQueue, ListSubs, WriteDisabled, RemoveSubs, WriteBootstrapToken,
         FillBootstrapToken, RetrieveBootstrapToken
    <3> QED BY <2>4, <3>1, <3>2, <3>3 DEF FileCall, MessageCall, OtherCall
  <2> QED BY <1>2, <2>2, <2>3, <2>4 DEF Handle
<1> QED BY <1>1, <1>2

(* A file is filled before the request that truncated it goes on. *)
LEMMA HandleBlank ==
    ASSUME SourceInv, KeptInv, NEW id \in ID, Handle(id), UNCHANGED backend, NEW i \in ID
    PROVE  BlankInv(i)' /\ (backend # "file" => blank' = {})
<1> USE DEF BlankInv, Begun, At, Truncate, Fill
<1>0. /\ BlankInv(i) /\ Shape /\ Messages /\ UNCHANGED belief
      /\ backend # "file" => blank = {}
  BY DEF Handle, KeptInv, SourceInv
<1>1. i # id => req'[i] = req[i]
  BY <1>0, CallOthers
<1>2. /\ IsRequest(req[id]) /\ req[id] # NoRequest
      /\ \A call : call # "none" /\ Then(id, call) => Moves(id, call)
      /\ ListSubs(id) => Moves(id, "WriteDisabled")
      /\ WriteDisabled(id) => Moves(id, "WriteDisabled") \/ Moves(id, "RemoveSubs")
      /\ BumpTally(id) => Moves(id, "WriteTally")
  BY <1>0, HandleMoves
<1>3. /\ req[id].msg = "TokenUpdate" => belief[id] # "enrolled"
      /\ req[id].call \in {"WriteTokenUpdate", "FillTokenUpdate"} => req[id].msg = "TokenUpdate"
      /\ req[id].msg = "TokenUpdate" => req[id].call \in CallsFor("TokenUpdate")
  BY <1>2, CallMessage DEF ToStore
<1>4. CASE backend # "file"
  BY <1>0, <1>4 DEF Handle
<1>5. CASE backend = "file" /\ FileCall(id)
  <2>1. CASE WriteTokenUpdate(id)
    BY <1>0, <1>1, <1>2, <1>3, <1>5, <2>1 DEF WriteTokenUpdate, Moves
  <2>2. CASE FillTokenUpdate(id)
    BY <1>0, <1>1, <1>2, <1>3, <1>5, <2>2 DEF FillTokenUpdate, Moves
  <2>3. CASE WriteAuthenticate(id) \/ FillAuthenticate(id)
    <3>1. <<"TokenUpdate", i>> \in blank' => <<"TokenUpdate", i>> \in blank
      BY <2>3 DEF WriteAuthenticate, FillAuthenticate
    <3>2. req[id].call \in {"WriteAuthenticate", "FillAuthenticate"}
      BY <2>3 DEF WriteAuthenticate, FillAuthenticate
    <3>3. req[id].msg # "TokenUpdate" /\ req'[id].msg = req[id].msg
      BY <1>2, <1>3, <2>3, <3>2 DEF CallsFor, Moves, WriteAuthenticate, FillAuthenticate
    <3> QED BY <1>0, <1>1, <1>5, <3>1, <3>3
  <2>4. CASE OtherCall(id) /\ UNCHANGED blank
    <3>1. CASE i # id
      BY <1>0, <1>1, <1>5, <2>4, <3>1
    <3>2. CASE i = id
      <4>1. req[id].msg = "TokenUpdate" =>
               \/ AssocSub(id) \/ BumpTally(id) \/ WriteTally(id) \/ RemoveDisabled(id)
        BY <1>3, <2>4 DEF OtherCall, CallsFor, ResetTally, RemoveBootstrapToken, ClearQueue,
           ListSubs, WriteDisabled, RemoveSubs, WriteUserAuthenticate, WriteBootstrapToken,
           FillBootstrapToken, RetrieveBootstrapToken
      <4>2. /\ AssocSub(id) => Moves(id, "WriteTokenUpdate")
            /\ WriteTally(id) => Moves(id, "RemoveDisabled") /\ req[id].call = "WriteTally"
            /\ RemoveDisabled(id) => Moves(id, "respond") /\ req[id].call = "RemoveDisabled"
            /\ BumpTally(id) => Moves(id, "WriteTally") /\ req[id].call = "BumpTally"
        BY <1>2 DEF AssocSub, WriteTally, RemoveDisabled, BumpTally
      <4>3. Begun(id, "TokenUpdate")' => req[id].msg = "TokenUpdate"
        BY <1>2, <2>4 DEF OtherCall, Moves, ResetTally, RemoveBootstrapToken, ClearQueue,
           ListSubs, WriteDisabled, RemoveSubs, AssocSub, BumpTally, WriteTally, RemoveDisabled,
           WriteUserAuthenticate, WriteBootstrapToken, FillBootstrapToken, RetrieveBootstrapToken
      <4> QED BY <1>0, <1>2, <1>5, <2>4, <3>2, <4>1, <4>2, <4>3 DEF Moves
    <3> QED BY <3>1, <3>2
  <2> QED BY <1>5, <2>1, <2>2, <2>3, <2>4 DEF FileCall, MessageCall
<1> QED BY <1>4, <1>5 DEF Handle

(* The Authenticate message is stored before the request that brought it   *)
(* can be answered.                                                        *)
LEMMA HandleAuth ==
    ASSUME SourceInv, KeptInv, NEW id \in ID, Handle(id), UNCHANGED backend, NEW d \in Devices
    PROVE  AuthInv(d)'
<1> USE DEF AuthInv, Begun, Moves, At, store, enrollments
<1>0. /\ d \in ID /\ Shape /\ Messages /\ AuthInv(d) /\ DeviceInv(d)
      /\ UNCHANGED <<belief, escrow, escrowed>>
  BY DEF Handle, KeptInv, SourceInv, ID
<1>1. CASE d # id
  BY <1>0, <1>1, CallOthers
<1>2. CASE d = id
  <2>1. /\ IsRequest(req[d]) /\ req[d] # NoRequest
        /\ \A call : call # "none" /\ Then(d, call) => Moves(d, call)
        /\ ListSubs(d) => Moves(d, "WriteDisabled")
        /\ WriteDisabled(d) => Moves(d, "WriteDisabled") \/ Moves(d, "RemoveSubs")
        /\ BumpTally(d) => Moves(d, "WriteTally")
    BY <1>0, <1>2, HandleMoves
  <2>2. req[d].call \in CallsFor(req[d].msg) /\ req[d].no # 0
    BY <1>0, <2>1 DEF DeviceInv, RequestInv, Shape
  <2>3. CASE UNCHANGED auth
    <3>1. ASSUME Begun(d, "Authenticate")'
          PROVE  \/ req'[d].call \in {"StoreAuthenticate", "RemoveBootstrapToken", "WriteAuthenticate"}
                 \/ auth[d] # 0
      <4>1. CASE backend = "kv" /\ StorageCall(d)
        BY <1>0, <2>1, <2>2, <2>3, <3>1, <4>1 DEF CallsFor, Messages, StorageCall, StoreAuthenticate, ResetEnrollment,
           ClearQueue, Disable, StoreTokenUpdate, EnableEnrollment, StoreUserAuthenticate,
           DisableUser, StoreBootstrapToken, RetrieveBootstrapToken
      <4>2. CASE backend = "sql" /\ SQLCall(d)
        BY <1>0, <2>1, <2>2, <2>3, <3>1, <4>2 DEF CallsFor, Messages, SQLCall, UpsertDevice, ClearQueue,
           DisableRows, StoreTokenUpdate, EnableEnrollment, UpsertUser, StoreBootstrapToken,
           RetrieveBootstrapToken
      <4>3. CASE backend = "file" /\ FileCall(d)
        BY <1>0, <2>1, <2>2, <2>3, <3>1, <4>3 DEF CallsFor, Messages, FileCall, MessageCall, OtherCall, FillAuthenticate, FillTokenUpdate, WriteTally,
       WriteBootstrapToken, FillBootstrapToken, ResetTally, RemoveBootstrapToken,
           WriteAuthenticate, ClearQueue, ListSubs, WriteDisabled, RemoveSubs, AssocSub,
           WriteTokenUpdate, BumpTally, RemoveDisabled, WriteUserAuthenticate,
           RetrieveBootstrapToken
      <4> QED BY <1>2, <4>1, <4>2, <4>3 DEF Handle
    <3> QED BY <1>0, <2>3, <3>1
  <2>4. CASE auth' = [auth EXCEPT ![d] = req[d].no]
    BY <1>0, <2>2, <2>4 DEF Messages
  <2>5. UNCHANGED auth \/ auth' = [auth EXCEPT ![d] = req[d].no]
    BY <1>2 DEF Handle, StorageCall, StoreAuthenticate, ResetEnrollment,
       ClearQueue, Disable, StoreTokenUpdate, EnableEnrollment, StoreUserAuthenticate,
       DisableUser, StoreBootstrapToken, RetrieveBootstrapToken, SQLCall, UpsertDevice,
       DisableRows, UpsertUser, FileCall, MessageCall, OtherCall, FillAuthenticate, FillTokenUpdate, WriteTally,
       WriteBootstrapToken, FillBootstrapToken, ResetTally, RemoveBootstrapToken,
       WriteAuthenticate, ListSubs, WriteDisabled, RemoveSubs, AssocSub,
       WriteTokenUpdate, BumpTally, RemoveDisabled, WriteUserAuthenticate
  <2> QED BY <2>3, <2>4, <2>5
<1> QED BY <1>1, <1>2

(* The clients' steps *)
LEMMA SendKept ==
    ASSUME SourceInv, KeptInv, NEW id \in ID, NEW m \in CheckIns, Send(id, m), UNCHANGED backend
    PROVE  KeptInv'
<1> USE DEF Begun
<1>0. /\ Shape /\ Messages /\ UNCHANGED <<auth, tok, disabled, channels, told, blank>>
      /\ sent \in Nat /\ sent' \in Nat /\ sent <= sent'
      /\ Permitted(id, m) /\ req[id] = NoRequest
      /\ \A i \in ID : i # id => req'[i] = req[i]
  BY DEF SourceInv, Shape, KeptInv, Send, Receive, store, enrollments, Requests
<1>1. PICK n \in Nat : /\ n = IF Numbered(m) THEN sent' ELSE 1
                       /\ req'[id] = [msg |-> m, no |-> n, call |-> FirstCall(m), subs |-> {}, ctr |-> 0]
  BY <1>0 DEF Send, Receive, Shape, Requests
<1>2. /\ req'[id].msg = m /\ req'[id].no = n /\ req'[id].call = FirstCall(m)
      /\ req'[id] # NoRequest
  BY <1>1 DEF NoRequest
<1>3. /\ belief'[id] = BeliefWhenSent(id, m)
      /\ \A i \in ID : i # id => belief'[i] \in {belief[i], "out"}
      /\ \A d \in Devices : d # id => belief'[d] = belief[d]
  <2>1. \A d \in Devices : d # id => d \notin Void(id, m)
    BY DEF Void
  <2> QED BY <2>1 DEF Send, ID
<1>4. ASSUME NEW i \in ID PROVE UpdateInv(i)'
  <2>1. UpdateInv(i) /\ told[i] \in Nat /\ tok[i] \in Nat
    BY <1>0 DEF KeptInv, Shape, Messages
  <2>2. CASE i # id
    <3>1. Begun(i, "TokenUpdate") => req[i].no \in Nat
      BY <1>0 DEF Shape, Requests, IsRequest
    <3> QED BY <1>0, <1>3, <2>1, <2>2, <3>1 DEF UpdateInv, ToStore, Enrolled
  <2>3. CASE i = id
    <3>1. belief'[i] \in Enrolled => belief[i] \in Enrolled
      BY <1>3, <2>3 DEF BeliefWhenSent, Enrolled, CheckIns
    <3>2. CASE m = "TokenUpdate"
      <4>1. n = sent' /\ n = sent + 1 /\ ToStore(i)'
        BY <1>1, <1>2, <2>3, <3>2 DEF Send, Numbered, FirstCall, ToStore
      <4> QED BY <1>0, <1>2, <2>1, <2>3, <3>1, <4>1 DEF UpdateInv
    <3>3. CASE m # "TokenUpdate"
      BY <1>0, <1>2, <2>1, <2>3, <3>1, <3>3 DEF UpdateInv
    <3> QED BY <3>2, <3>3
  <2> QED BY <2>2, <2>3
<1>5. ASSUME NEW u \in Users PROVE CalledInv(u)' /\ (backend = "kv" => ChannelInv(u)')
  <2>1. u \in ID /\ u \notin Devices /\ CalledInv(u) /\ (backend = "kv" => ChannelInv(u))
    BY DEF KeptInv, ID
  <2>2. CASE u # id
    BY <1>0, <1>3, <2>1, <2>2 DEF CalledInv, ChannelInv, Enrolled
  <2>3. CASE u = id
    <3>1. m \in {"TokenUpdate", "UserAuthenticate"}
      BY <1>0, <2>1, <2>3 DEF Permitted, CheckIns
    <3>2. CASE m = "TokenUpdate"
      <4>1. CalledInv(u)' /\ req'[u].call = "StoreTokenUpdate"
        BY <1>2, <1>3, <2>3, <3>2 DEF CalledInv, CallsFor, FirstCall, BeliefWhenSent
      <4>2. belief'[u] \in Enrolled => belief[u] \in Enrolled
        BY <1>3, <2>3, <3>2 DEF BeliefWhenSent, Enrolled
      <4> QED BY <1>0, <1>2, <2>1, <2>3, <4>1, <4>2 DEF ChannelInv
    <3>3. CASE m = "UserAuthenticate"
      <4>1. belief'[u] = "updating"
        BY <1>3, <2>3, <3>3 DEF BeliefWhenSent
      <4>2. CalledInv(u)'
        BY <1>2, <2>3, <3>3, <4>1 DEF CalledInv, UserCalls, FirstCall, Enrolled
      <4> QED BY <1>2, <2>3, <3>3, <4>1, <4>2 DEF ChannelInv, Enrolled
    <3> QED BY <3>1, <3>2, <3>3
  <2> QED BY <2>2, <2>3
<1>6. ASSUME NEW d \in Devices PROVE AuthInv(d)'
  <2>1. d \in ID /\ d \notin Users /\ AuthInv(d)
    BY DEF KeptInv, ID
  <2>2. /\ d \in escrowed' => d \in escrowed
        /\ d \in escrowed' => escrow'[d] = escrow[d]
    BY DEF Send, SourceInv, Shape, CheckIns
  <2>3. CASE d # id
    BY <1>0, <1>3, <2>1, <2>2, <2>3 DEF AuthInv
  <2>4. CASE d = id
    <3>1. belief'[d] \in Enrolling => belief[d] \in Enrolling
      BY <1>0, <1>3, <2>1, <2>4 DEF Permitted, BeliefWhenSent, Enrolled, Enrolling,
         CheckIns
    <3>2. m = "Authenticate" => req'[d].call = "StoreAuthenticate"
      BY <1>2, <2>4 DEF FirstCall
    <3> QED BY <1>0, <1>2, <2>1, <2>2, <2>4, <3>1, <3>2 DEF AuthInv
  <2> QED BY <2>3, <2>4
<1>7. Messages' /\ escrowed' \cap Users = {}
  BY <1>0 DEF Messages, KeptInv, Send
<1>8. ASSUME NEW i \in ID PROVE BlankInv(i)'
  <2>1. BlankInv(i)
    BY DEF KeptInv
  <2>2. CASE i # id
    BY <1>0, <1>3, <2>1, <2>2 DEF BlankInv
  <2>3. CASE i = id
    BY <1>0, <1>2, <1>3, <2>1, <2>3 DEF BlankInv, BeliefWhenSent, FirstCall, Enrolled, CheckIns
  <2> QED BY <2>2, <2>3
<1> QED BY <1>0, <1>4, <1>5, <1>6, <1>7, <1>8 DEF KeptInv

LEMMA AnsweredKept ==
    ASSUME SourceInv, KeptInv, NEW id \in ID, Answered(id), UNCHANGED backend
    PROVE  KeptInv'
<1> USE DEF Begun
<1>0. /\ Shape /\ Messages /\ UNCHANGED <<auth, tok, disabled, channels, escrow, sent, blank>>
      /\ req[id].call = "respond" /\ req[id] # NoRequest /\ req'[id] = NoRequest
      /\ \A i \in ID : i # id => req'[i] = req[i] /\ belief'[i] = belief[i] /\ told'[i] = told[i]
      /\ belief'[id] = BeliefWhenAnswered(id, req[id].msg)
      /\ told'[id] = IF req[id].msg = "TokenUpdate" THEN req[id].no ELSE told[id]
      /\ escrowed' = IF req[id].msg = "SetBootstrapToken" THEN escrowed \cup {id} ELSE escrowed
  BY DEF SourceInv, Shape, KeptInv, Answered, Respond, At, store, enrollments, Requests, NoRequest
<1>1. ASSUME NEW i \in ID PROVE UpdateInv(i)'
  <2>1. UpdateInv(i) /\ told[i] \in Nat /\ tok[i] \in Nat /\ sent \in Nat
    BY <1>0 DEF KeptInv, Shape, Messages
  <2>2. CASE i # id
    BY <1>0, <2>1, <2>2 DEF UpdateInv, ToStore
  <2>3. CASE i = id
    BY <1>0, <2>1, <2>3 DEF UpdateInv, ToStore, BeliefWhenAnswered, Enrolled
  <2> QED BY <2>2, <2>3
<1>2. ASSUME NEW u \in Users PROVE CalledInv(u)' /\ (backend = "kv" => ChannelInv(u)')
  <2>1. u \in ID /\ CalledInv(u) /\ (backend = "kv" => ChannelInv(u))
    BY DEF KeptInv, ID
  <2>2. CASE u # id
    BY <1>0, <2>1, <2>2 DEF CalledInv, ChannelInv
  <2>3. CASE u = id
    <3>1. belief'[u] \in Enrolled => belief[u] \in Enrolled \/ req[u].msg = "TokenUpdate"
      BY <1>0, <2>1, <2>3 DEF BeliefWhenAnswered, CalledInv, Enrolled
    <3> QED BY <1>0, <2>1, <2>3, <3>1 DEF CalledInv, ChannelInv
  <2> QED BY <2>2, <2>3
<1>3. ASSUME NEW d \in Devices PROVE AuthInv(d)'
  <2>1. d \in ID /\ d \notin Users /\ AuthInv(d) /\ DeviceInv(d)
    BY DEF KeptInv, SourceInv, ID
  <2>2. CASE d # id
    BY <1>0, <2>1, <2>2 DEF AuthInv
  <2>3. CASE d = id
    <3>1. belief'[d] \in Enrolling => belief[d] \in Enrolling \/ req[d].msg = "Authenticate"
      BY <1>0, <2>1, <2>3 DEF BeliefWhenAnswered, Enrolled, Enrolling
    <3>2. req[d].msg = "SetBootstrapToken" => escrow[d] # 0
      BY <1>0, <2>1, <2>3 DEF DeviceInv, RequestInv, Shape
    <3> QED BY <1>0, <2>1, <2>3, <3>1, <3>2 DEF AuthInv
  <2> QED BY <2>2, <2>3
<1>4. Messages' /\ escrowed' \cap Users = {}
  <2>1. id \in Users => req[id].msg # "SetBootstrapToken"
    BY <1>0 DEF KeptInv, CalledInv
  <2> QED BY <1>0, <2>1 DEF Messages, KeptInv
<1>5. ASSUME NEW i \in ID PROVE BlankInv(i)'
  <2>1. BlankInv(i)
    BY DEF KeptInv
  <2>2. CASE i # id
    BY <1>0, <2>1, <2>2 DEF BlankInv
  <2>3. CASE i = id
    BY <1>0, <2>1, <2>3 DEF BlankInv, BeliefWhenAnswered
  <2> QED BY <2>2, <2>3
<1> QED BY <1>0, <1>1, <1>2, <1>3, <1>4, <1>5 DEF KeptInv

LEMMA KeptInvNext ==
    ASSUME SourceInv, KeptInv, [Next]_vars
    PROVE  KeptInv'
<1>1. ASSUME CutOff PROVE KeptInv'
  <2> USE DEF CutOff, store, enrollments, Begun
  <2>1. Messages' /\ escrowed' \cap Users = {}
    BY <1>1 DEF KeptInv, Messages
  <2>2. \A i \in ID : UpdateInv(i)' /\ BlankInv(i)'
    BY <1>1 DEF KeptInv, UpdateInv, BlankInv, ToStore
  <2>3. \A u \in Users : CalledInv(u)' /\ (backend = "kv" => ChannelInv(u)')
    BY <1>1 DEF KeptInv, CalledInv, ChannelInv, ID
  <2>4. \A d \in Devices : AuthInv(d)'
    BY <1>1 DEF KeptInv, AuthInv, ID
  <2> QED BY <1>1, <2>1, <2>2, <2>3, <2>4 DEF KeptInv
<1>2. ASSUME NEW id \in ID, Serve(id) PROVE KeptInv'
  <2>1. UNCHANGED backend
    BY <1>2 DEF Serve
  <2>2. CASE \E m \in CheckIns : Send(id, m)
    BY <2>1, <2>2, SendKept
  <2>3. CASE Handle(id)
    <3>1. Messages' /\ escrowed' \cap Users = {}
      BY <2>1, <2>3, CallOthers DEF SourceInv, KeptInv, Handle
    <3> QED BY <2>1, <2>3, <3>1, HandleUpdate, HandleUser, HandleAuth, HandleBlank DEF KeptInv
  <2>4. CASE Answered(id)
    BY <2>1, <2>4, AnsweredKept
  <2>5. CASE RequestFails(id)
    <3>1. CutOff
      BY <2>1, <2>5 DEF CutOff, RequestFails, Fail, SourceInv, Shape, Requests
    <3> QED BY <1>1, <3>1
  <2> QED BY <1>2, <2>2, <2>3, <2>4, <2>5 DEF Serve
<1>3. ASSUME Start PROVE KeptInv'
  BY <1>1, <1>3 DEF Start, CutOff, clients
<1>4. ASSUME UNCHANGED <<backend, store, blank, req, belief, told, escrow, escrowed, tries, oks, updated,
                    sent>>
      PROVE  KeptInv'
  BY <1>1, <1>4 DEF CutOff, SourceInv, Shape, Requests
<1> QED BY <1>2, <1>3, <1>4, NextSource

LEMMA KeptInvInit == Init => KeptInv
BY DEF Init, ClientsInit, EmptyStore, KeptInv, Messages, UpdateInv, BlankInv, CalledInv,
   ChannelInv, AuthInv, Begun, Enrolled, Enrolling, ID

-----------------------------------------------------------------------------
(* What the target gets.  In a run of nano2nano without errors the         *)
(* messages of every client that is enrolled are ahead of the walk, or     *)
(* under way, or have arrived.                                             *)
PutCalls(m) ==
    IF m = "TokenUpdate" THEN {"StoreTokenUpdate", "EnableEnrollment", "respond"}
    ELSE IF m = "SetBootstrapToken" THEN {"StoreBootstrapToken", "respond"}
    ELSE {"StoreAuthenticate", "ResetEnrollment", "ClearQueue", "Disable", "respond"}

PutMessages(id) ==
    IF id \in Users THEN {"TokenUpdate"} ELSE {"Authenticate", "TokenUpdate", "SetBootstrapToken"}

(* One message is under way at most, that of a walk. *)
PutInv(id) ==
    tReq[id] # NoRequest =>
        /\ tReq[id].msg \in PutMessages(id) /\ tReq[id].call \in PutCalls(tReq[id].msg)
        /\ tReq[id].msg = "TokenUpdate" => tReq[id].no = tok[id]
        /\ tReq[id].msg = "SetBootstrapToken" => tReq[id].no = bstoken[id]
        /\ walk # NotStarted /\ walk.phase # "done"

TargetInv ==
    /\ TargetShape /\ tBstoken = [d \in Devices |-> tBstoken[d]]
    /\ tDisabled \cap Users = {}
    /\ \A id \in ID : PutInv(id)

PhaseInv ==
    WalkShape /\ (walk # NotStarted =>
        /\ walk.phase \in {"Authenticate", "TokenUpdate", "SetBootstrapToken"} => walk.dev \in Devices
        /\ walk.phase = "SetBootstrapToken" => backend = "kv"
        /\ walk.phase = "done" /\ clean => walk.left = {}
        /\ walk.phase = "users" => IF backend = "kv" THEN walk.dev \in Devices ELSE walk.left = {})

(* d's messages are still to come. *)
Ahead(d, phases) == d \in walk.left \/ (walk.dev = d /\ walk.phase \in phases)

Under(id, m) == tReq[id] # NoRequest /\ tReq[id].msg = m

UpdateComes(d) ==
    \/ Ahead(d, {"Authenticate", "TokenUpdate"})
    \/ Under(d, "TokenUpdate") /\ tReq[d].call # "respond"
    \/ tPush[d] = tok[d] /\ d \notin tDisabled /\ ~ Under(d, "Authenticate")

TokenComes(d) ==
    \/ Ahead(d, {"Authenticate", "TokenUpdate", "SetBootstrapToken"})
    \/ Under(d, "SetBootstrapToken") /\ tReq[d].call # "respond"
    \/ tBstoken[d] = bstoken[d] /\ ~ Under(d, "Authenticate")

UserAhead(u) ==
    \/ walk.phase = "users" /\ u \in walk.users
    \/ IF backend = "kv"
       THEN Ahead(ParentID[u], {"Authenticate", "TokenUpdate", "SetBootstrapToken"})
       ELSE walk.phase \notin {"users", "done"}

UserComes(u) ==
    \/ UserAhead(u)
    \/ Under(u, "TokenUpdate") /\ tReq[u].call # "respond"
    \/ tPush[u] = tok[u]

ComesInv ==
    walk # NotStarted /\ clean =>
        /\ \A d \in Devices : Settled(d) =>
              UpdateComes(d) /\ (backend = "kv" /\ d \in escrowed => TokenComes(d))
        /\ \A u \in Users : EnrolledClient(u) => UserComes(u)

ArriveInv == TargetInv /\ PhaseInv /\ ComesInv

(* What the walk finds of a client that is enrolled *)
Found ==
    /\ \A d \in Devices : belief[d] \in Enrolled =>
          /\ auth[d] # 0 /\ tok[d] # 0 /\ d \notin disabled
          /\ backend = "kv" /\ d \in escrowed => bstoken[d] = escrow[d] /\ bstoken[d] # 0
    /\ \A u \in Users : belief[u] \in Enrolled =>
          tok[u] # 0 /\ (backend = "kv" => u \in channels /\ u \notin disabled)
    /\ \A id \in ID : Settled(id) =>
          belief[id] \in Enrolled /\ Decoded(id, "TokenUpdate", tok[id]) = tok[id]

LEMMA FoundCorrect == SourceInv /\ KeptInv => Found
<1> SUFFICES ASSUME SourceInv, KeptInv PROVE Found
  OBVIOUS
<1>1. ASSUME NEW d \in Devices, belief[d] \in Enrolled
      PROVE  /\ auth[d] # 0 /\ tok[d] # 0 /\ d \notin disabled
             /\ d \in escrowed => bstoken[d] = escrow[d] /\ bstoken[d] # 0
  <2>1. d \in ID /\ AuthInv(d) /\ UpdateInv(d) /\ EnabledInv(d) /\ EscrowInv(d)
    BY DEF KeptInv, SourceInv, DeviceInv, ID
  <2> QED BY <1>1, <2>1 DEF AuthInv, UpdateInv, EnabledInv, EscrowInv, Enrolling
<1>2. ASSUME NEW u \in Users, belief[u] \in Enrolled
      PROVE  tok[u] # 0 /\ (backend = "kv" => u \in channels /\ u \notin disabled)
  <2>1. u \in ID /\ UpdateInv(u) /\ (backend = "kv" => ChannelInv(u))
    BY DEF KeptInv, ID
  <2> QED BY <1>2, <2>1 DEF UpdateInv, ChannelInv
<1>3. ASSUME NEW id \in ID, Settled(id)
      PROVE  belief[id] \in Enrolled /\ Decoded(id, "TokenUpdate", tok[id]) = tok[id]
  <2>1. BlankInv(id) /\ (backend # "file" => blank = {})
    BY DEF KeptInv
  <2>2. <<"TokenUpdate", id>> \notin blank
    BY <1>3, <2>1 DEF Settled, BlankInv
  <2> QED BY <1>3, <2>2 DEF Settled, Enrolled, Decoded
<1> QED BY <1>1, <1>2, <1>3 DEF Found

LEMMA FoundSettled ==
    ASSUME Found
    PROVE  /\ \A d \in Devices : Settled(d) =>
                 /\ auth[d] # 0 /\ tok[d] # 0 /\ d \notin disabled
                 /\ Decoded(d, "TokenUpdate", tok[d]) # 0
                 /\ backend = "kv" /\ d \in escrowed => bstoken[d] = escrow[d] /\ bstoken[d] # 0
           /\ \A u \in Users : EnrolledClient(u) =>
                 /\ Settled(u) /\ tok[u] # 0 /\ Decoded(u, "TokenUpdate", tok[u]) # 0
                 /\ backend = "kv" => u \in channels /\ u \notin disabled
                 /\ ParentID[u] \in Devices /\ auth[ParentID[u]] # 0 /\ tok[ParentID[u]] # 0
                 /\ ParentID[u] \notin disabled
<1>1. \A id \in ID : Settled(id) =>
         belief[id] \in Enrolled /\ Decoded(id, "TokenUpdate", tok[id]) = tok[id]
  BY DEF Found
<1>2. ASSUME NEW d \in Devices, Settled(d)
      PROVE  /\ auth[d] # 0 /\ tok[d] # 0 /\ d \notin disabled
             /\ Decoded(d, "TokenUpdate", tok[d]) # 0
             /\ backend = "kv" /\ d \in escrowed => bstoken[d] = escrow[d] /\ bstoken[d] # 0
  <2>1. belief[d] \in Enrolled /\ Decoded(d, "TokenUpdate", tok[d]) = tok[d]
    BY <1>1, <1>2 DEF ID
  <2> QED BY <2>1 DEF Found
<1>3. ASSUME NEW u \in Users, EnrolledClient(u)
      PROVE  /\ Settled(u) /\ tok[u] # 0 /\ Decoded(u, "TokenUpdate", tok[u]) # 0
             /\ backend = "kv" => u \in channels /\ u \notin disabled
             /\ ParentID[u] \in Devices /\ auth[ParentID[u]] # 0 /\ tok[ParentID[u]] # 0
             /\ ParentID[u] \notin disabled
  <2>1. /\ Settled(u) /\ belief[u] \in Enrolled /\ Decoded(u, "TokenUpdate", tok[u]) = tok[u]
        /\ ParentID[u] \in Devices /\ belief[ParentID[u]] \in Enrolled
    BY <1>1, <1>3 DEF EnrolledClient, ID
  <2> QED BY <2>1 DEF Found
<1> QED BY <1>2, <1>3

(* A message that is put is under way alone. *)
LEMMA PutAlone ==
    ASSUME TargetInv, ~ Putting, NEW id \in ID, NEW m \in PutMessages(id), NEW n, Put(id, m, n)
    PROVE  /\ TargetShape' /\ tPush' = tPush /\ tBstoken' = tBstoken /\ tDisabled' = tDisabled
           /\ \A i \in ID : i # id => tReq'[i] = NoRequest
           /\ n = 0 => tReq'[id] = NoRequest
           /\ n # 0 => /\ Under(id, m)' /\ tReq'[id].no = n
                       /\ tReq'[id].call \in PutCalls(m) /\ tReq'[id].call # "respond"
<1> USE DEF TargetInv, TargetShape
<1>1. \A i \in ID : tReq[i] = NoRequest
  BY DEF Putting
<1>2. m \in {"Authenticate", "TokenUpdate", "SetBootstrapToken"}
  BY DEF PutMessages
<1>3. CASE n = 0
  BY <1>1, <1>3 DEF Put, target
<1>4. CASE n # 0
  <2>1. Target!Receive(id, m, n)
    BY <1>4 DEF Put
  <2>2. /\ tPush' = tPush /\ tBstoken' = tBstoken /\ tDisabled' = tDisabled
        /\ tReq' = [tReq EXCEPT ![id] = [msg |-> m, no |-> n, call |-> Target!FirstCall(m),
                                         subs |-> {}, ctr |-> 0]]
    BY <2>1 DEF Target!Receive, Target!store, Target!enrollments
  <2>3. PICK c : c = Target!FirstCall(m)
    OBVIOUS
  <2>4. c \in PutCalls(m) /\ c # "respond" /\ c # "none"
    BY <1>2, <2>3 DEF Target!FirstCall, PutCalls
  <2>5. tReq'[id] = [msg |-> m, no |-> n, call |-> c, subs |-> {}, ctr |-> 0]
    BY <2>2, <2>3
  <2>6. \A i \in ID : i # id => tReq'[i] = NoRequest
    BY <1>1, <2>2
  <2>7. /\ TargetShape' /\ tReq'[id].msg = m /\ tReq'[id].no = n /\ tReq'[id].call = c
        /\ tReq'[id] # NoRequest
    BY <2>2, <2>4, <2>5, <2>6 DEF NoRequest
  <2> QED BY <1>4, <2>2, <2>4, <2>6, <2>7 DEF Under
<1> QED BY <1>3, <1>4

(* What a call at the target does *)
LEMMA TargetThen ==
    ASSUME TargetInv, NEW id \in ID, tReq[id] # NoRequest, NEW call, call # "none",
           Target!Then(id, call)
    PROVE  /\ tReq' = [i \in ID |-> tReq'[i]] /\ \A i \in ID : i # id => tReq'[i] = tReq[i]
           /\ tReq'[id] = [msg |-> tReq[id].msg, no |-> tReq[id].no, call |-> call,
                           subs |-> tReq[id].subs, ctr |-> tReq[id].ctr]
           /\ tReq'[id] # NoRequest
           /\ tReq'[id].msg = tReq[id].msg /\ tReq'[id].no = tReq[id].no /\ tReq'[id].call = call
<1>1. tReq[id] = [msg |-> tReq[id].msg, no |-> tReq[id].no, call |-> tReq[id].call,
                  subs |-> tReq[id].subs, ctr |-> tReq[id].ctr]
  BY DEF TargetInv, TargetShape
<1>2. tReq' = [tReq EXCEPT ![id].call = call]
  BY DEF Target!Then
<1>3. tReq'[id] = [msg |-> tReq[id].msg, no |-> tReq[id].no, call |-> call,
                   subs |-> tReq[id].subs, ctr |-> tReq[id].ctr]
  BY <1>1, <1>2 DEF TargetInv, TargetShape
<1>4. tReq' = [i \in ID |-> tReq'[i]] /\ \A i \in ID : i # id => tReq'[i] = tReq[i]
  BY <1>2 DEF TargetInv, TargetShape
<1> QED BY <1>3, <1>4 DEF NoRequest

TargetAnswers(id) ==
    /\ tReq[id].call = "respond" /\ tReq'[id] = NoRequest
    /\ UNCHANGED <<tPush, tBstoken, tDisabled>>

UpdateArrives(id) ==
    /\ Under(id, "TokenUpdate") /\ Under(id, "TokenUpdate")' /\ tReq'[id].no = tReq[id].no
    /\ tBstoken' = tBstoken
    /\ \/ /\ tReq'[id].call = "EnableEnrollment" /\ tReq[id].call # "respond"
          /\ UNCHANGED <<tPush, tDisabled>>
       \/ /\ tReq'[id].call = "respond"
          /\ tPush' = [tPush EXCEPT ![id] = tReq[id].no] /\ tDisabled' = tDisabled \ {id}

TokenArrives(id) ==
    /\ Under(id, "SetBootstrapToken") /\ Under(id, "SetBootstrapToken")'
    /\ tReq'[id].no = tReq[id].no /\ tReq'[id].call = "respond"
    /\ tBstoken' = [tBstoken EXCEPT ![id] = tReq[id].no]
    /\ UNCHANGED <<tPush, tDisabled>>

Reenrolls(id) ==
    /\ Under(id, "Authenticate") /\ Under(id, "Authenticate")'
    /\ tReq'[id].call \in PutCalls("Authenticate")
    /\ tPush' = tPush /\ tBstoken' = [d \in Devices |-> tBstoken'[d]]
    /\ \A d \in Devices : d # id => tBstoken'[d] = tBstoken[d]
    /\ \A i \in ID : i # id => (i \in tDisabled' <=> i \in tDisabled)

LEMMA TargetSteps ==
    ASSUME TargetInv, NEW id \in ID, Target!StorageCall(id) \/ Target!Respond(id)
    PROVE  /\ TargetShape' /\ tReq[id] # NoRequest
           /\ \A i \in ID : i # id => tReq'[i] = tReq[i]
           /\ TargetAnswers(id) \/ UpdateArrives(id) \/ TokenArrives(id) \/ Reenrolls(id)
<1> USE DEF TargetInv, Target!At, Target!store, Target!enrollments
<1>1. CASE Target!Respond(id)
  BY <1>1 DEF Target!Respond, Target!NoRequest, NoRequest, TargetShape, TargetAnswers
<1>2. CASE Target!StorageCall(id)
  <2>1. tReq[id] # NoRequest
    BY <1>2 DEF NoRequest, Target!StorageCall, Target!StoreAuthenticate, Target!ResetEnrollment,
       Target!ClearQueue, Target!Disable, Target!StoreTokenUpdate, Target!EnableEnrollment,
       Target!StoreUserAuthenticate, Target!DisableUser, Target!StoreBootstrapToken,
       Target!RetrieveBootstrapToken
  <2>2. PutInv(id) /\ TargetShape
    OBVIOUS
  <2>3. /\ tReq[id].msg \in {"Authenticate", "TokenUpdate", "SetBootstrapToken"}
        /\ tReq[id].call \in PutCalls(tReq[id].msg)
        /\ tReq[id].msg # "TokenUpdate" => id \in Devices
    BY <2>1, <2>2 DEF PutInv, PutMessages, ID
  <2> DEFINE moved(call) ==
        /\ tReq' = [i \in ID |-> tReq'[i]] /\ \A i \in ID : i # id => tReq'[i] = tReq[i]
        /\ tReq'[id] = [msg |-> tReq[id].msg, no |-> tReq[id].no, call |-> call,
                        subs |-> tReq[id].subs, ctr |-> tReq[id].ctr]
        /\ tReq'[id] # NoRequest
        /\ tReq'[id].msg = tReq[id].msg /\ tReq'[id].no = tReq[id].no /\ tReq'[id].call = call
  <2>4. \A call : call # "none" /\ Target!Then(id, call) => moved(call)
    BY <2>1, TargetThen
  <2> HIDE DEF TargetInv, moved
  <2>5. ASSUME NEW call, moved(call), tPush' = tPush \/ tPush' = [tPush EXCEPT ![id] = tReq[id].no]
        PROVE  TargetShape' /\ \A i \in ID : i # id => tReq'[i] = tReq[i]
    BY <2>2, <2>5 DEF TargetShape, moved
  <2>6. CASE Target!StoreTokenUpdate(id)
    <3>1. moved("EnableEnrollment") /\ UNCHANGED <<tPush, tBstoken, tDisabled>>
          /\ tReq[id].call = "StoreTokenUpdate"
      BY <2>4, <2>6 DEF Target!StoreTokenUpdate
    <3>2. tReq[id].msg = "TokenUpdate"
      BY <2>3, <3>1 DEF PutCalls
    <3> QED BY <2>1, <2>5, <3>1, <3>2 DEF moved, UpdateArrives, Under
  <2>7. CASE Target!EnableEnrollment(id)
    <3>1. /\ moved("respond") /\ tBstoken' = tBstoken /\ tReq[id].call = "EnableEnrollment"
          /\ tPush' = [tPush EXCEPT ![id] = tReq[id].no] /\ tDisabled' = tDisabled \ {id}
      BY <2>4, <2>7 DEF Target!EnableEnrollment
    <3>2. tReq[id].msg = "TokenUpdate"
      BY <2>3, <3>1 DEF PutCalls
    <3> QED BY <2>1, <2>5, <3>1, <3>2 DEF moved, UpdateArrives, Under
  <2>8. CASE Target!StoreBootstrapToken(id)
    <3>1. /\ moved("respond") /\ UNCHANGED <<tPush, tDisabled>>
          /\ tReq[id].call = "StoreBootstrapToken"
          /\ tBstoken' = [tBstoken EXCEPT ![id] = tReq[id].no]
      BY <2>4, <2>8 DEF Target!StoreBootstrapToken
    <3>2. tReq[id].msg = "SetBootstrapToken"
      BY <2>3, <3>1 DEF PutCalls
    <3> QED BY <2>1, <2>5, <3>1, <3>2 DEF moved, TokenArrives, Under
  <2>9. CASE \/ Target!StoreAuthenticate(id) \/ Target!ResetEnrollment(id)
             \/ Target!ClearQueue(id) \/ Target!Disable(id)
    <3>1. tReq[id].msg = "Authenticate"
      BY <2>3, <2>9 DEF PutCalls, Target!StoreAuthenticate, Target!ResetEnrollment,
         Target!ClearQueue, Target!Disable
    <3>2. PICK call \in PutCalls("Authenticate") : moved(call)
      BY <2>4, <2>9 DEF PutCalls, Target!StoreAuthenticate, Target!ResetEnrollment,
         Target!ClearQueue, Target!Disable
    <3>3. \A k \in Target!userChannelEnrollments(id) : k = <<id>>
      BY DEF Target!userChannelEnrollments, Target!userChannelKeys
    <3>4. \A i \in ID : i # id => (i \in tDisabled' <=> i \in tDisabled)
      <4>1. <<id>> \notin ID
        OBVIOUS
      <4>2. CASE UNCHANGED tDisabled
        BY <4>2
      <4>3. CASE Target!Disable(id)
        BY <3>3, <4>1, <4>3 DEF Target!Disable
      <4> QED BY <2>9, <4>2, <4>3 DEF Target!StoreAuthenticate, Target!ResetEnrollment,
            Target!ClearQueue
    <3>5. tPush' = tPush /\ (tBstoken' = tBstoken \/ tBstoken' = [tBstoken EXCEPT ![id] = 0])
      BY <2>9 DEF Target!StoreAuthenticate, Target!ResetEnrollment, Target!ClearQueue,
         Target!Disable
    <3>6. tBstoken' = [d \in Devices |-> tBstoken'[d]]
          /\ \A d \in Devices : d # id => tBstoken'[d] = tBstoken[d]
      BY <3>5 DEF TargetInv
    <3> QED BY <2>1, <2>5, <3>1, <3>2, <3>4, <3>5, <3>6 DEF moved, Reenrolls, Under
  <2>10. ~ (Target!StoreUserAuthenticate(id) \/ Target!DisableUser(id)
            \/ Target!RetrieveBootstrapToken(id))
    BY <2>3 DEF PutCalls, Target!StoreUserAuthenticate, Target!DisableUser,
       Target!RetrieveBootstrapToken
  <2> QED BY <1>2, <2>1, <2>6, <2>7, <2>8, <2>9, <2>10 DEF Target!StorageCall
<1> QED BY <1>1, <1>2

(* A message arrives with its last call but one. *)
LEMMA HandlesArrive ==
    ASSUME ArriveInv, NEW id \in ID, TargetHandles(id)
    PROVE  ArriveInv'
<1> USE DEF Under
<1>1. /\ TargetInv /\ TargetShape' /\ PutInv(id) /\ tReq[id] # NoRequest
      /\ \A i \in ID : i # id => tReq'[i] = tReq[i]
      /\ TargetAnswers(id) \/ UpdateArrives(id) \/ TokenArrives(id) \/ Reenrolls(id)
  BY TargetSteps DEF TargetHandles, ArriveInv, TargetInv
<1>2. UNCHANGED <<backend, walk, clean, tok, bstoken, belief, escrowed>>
  BY DEF TargetHandles, source, store, clients
<1>3. /\ tBstoken' = [d \in Devices |-> tBstoken'[d]]
      /\ \A d \in Devices : d # id => tBstoken'[d] = tBstoken[d]
      /\ \A i \in ID : i # id => tPush'[i] = tPush[i] /\ (i \in tDisabled' <=> i \in tDisabled)
  BY <1>1 DEF TargetAnswers, UpdateArrives, TokenArrives, Reenrolls, TargetInv, TargetShape
<1>4. Reenrolls(id) \/ TokenArrives(id) => id \notin Users
  BY <1>1 DEF PutInv, PutMessages, Reenrolls, TokenArrives
<1>5. tDisabled' \cap Users = {}
  <2>1. tDisabled \cap Users = {} /\ Users \subseteq ID
    BY <1>1 DEF TargetInv, ID
  <2>2. id \in Users => tDisabled' \subseteq tDisabled
    BY <1>1, <1>4 DEF TargetAnswers, UpdateArrives
  <2> QED BY <1>3, <2>1, <2>2
<1>6. ASSUME NEW i \in ID PROVE PutInv(i)'
  <2>1. PutInv(i)
    BY <1>1 DEF TargetInv
  <2>2. CASE i # id
    BY <1>1, <1>2, <2>1, <2>2 DEF PutInv
  <2>3. CASE i = id
    BY <1>1, <1>2, <2>1, <2>3 DEF PutInv, PutCalls, TargetAnswers, UpdateArrives, TokenArrives, Reenrolls
  <2> QED BY <2>2, <2>3
<1>7. ASSUME NEW d \in Devices, UpdateComes(d) PROVE UpdateComes(d)'
  <2>0. d \in ID
    BY DEF ID
  <2>1. CASE d # id
    BY <1>1, <1>2, <1>3, <1>7, <2>0, <2>1 DEF UpdateComes, Ahead
  <2>2. CASE d = id
    <3>1. Ahead(d, {"Authenticate", "TokenUpdate"})' <=> Ahead(d, {"Authenticate", "TokenUpdate"})
      BY <1>2 DEF Ahead
    <3>2. CASE TargetAnswers(id)
      BY <1>2, <1>7, <2>2, <3>1, <3>2 DEF UpdateComes, TargetAnswers
    <3>3. CASE UpdateArrives(id)
      <4>1. tReq[d].no = tok[d]
        BY <1>1, <2>2, <3>3 DEF PutInv, UpdateArrives
      <4> QED BY <1>1, <1>2, <1>7, <2>0, <2>2, <3>1, <3>3, <4>1
            DEF UpdateComes, UpdateArrives, TargetInv, TargetShape
    <3>4. CASE TokenArrives(id)
      BY <1>2, <1>7, <2>2, <3>1, <3>4 DEF UpdateComes, TokenArrives
    <3>5. CASE Reenrolls(id)
      BY <1>7, <2>2, <3>1, <3>5 DEF UpdateComes, Reenrolls
    <3> QED BY <1>1, <3>2, <3>3, <3>4, <3>5
  <2> QED BY <2>1, <2>2
<1>8. ASSUME NEW d \in Devices, TokenComes(d) PROVE TokenComes(d)'
  <2> DEFINE phases == {"Authenticate", "TokenUpdate", "SetBootstrapToken"}
  <2>0. d \in ID
    BY DEF ID
  <2>1. CASE d # id
    BY <1>1, <1>2, <1>3, <1>8, <2>0, <2>1 DEF TokenComes, Ahead
  <2>2. CASE d = id
    <3>1. Ahead(d, phases)' <=> Ahead(d, phases)
      BY <1>2 DEF Ahead
    <3>2. CASE TargetAnswers(id)
      BY <1>2, <1>8, <2>2, <3>1, <3>2 DEF TokenComes, TargetAnswers
    <3>3. CASE UpdateArrives(id)
      BY <1>2, <1>8, <2>2, <3>1, <3>3 DEF TokenComes, UpdateArrives
    <3>4. CASE TokenArrives(id)
      <4>1. tReq[d].no = bstoken[d]
        BY <1>1, <2>2, <3>4 DEF PutInv, TokenArrives
      <4> QED BY <1>1, <1>2, <2>2, <3>4, <4>1 DEF TokenComes, TokenArrives, TargetInv
    <3>5. CASE Reenrolls(id)
      BY <1>8, <2>2, <3>1, <3>5 DEF TokenComes, Reenrolls
    <3> QED BY <1>1, <3>2, <3>3, <3>4, <3>5
  <2> QED BY <2>1, <2>2
<1>9. ASSUME NEW u \in Users, UserComes(u) PROVE UserComes(u)'
  <2>0. u \in ID
    BY DEF ID
  <2>1. UserAhead(u)' <=> UserAhead(u)
    BY <1>2 DEF UserAhead, Ahead
  <2>2. CASE u # id
    BY <1>1, <1>2, <1>3, <1>9, <2>0, <2>1, <2>2 DEF UserComes
  <2>3. CASE u = id
    <3>1. TargetAnswers(id) \/ UpdateArrives(id)
      BY <1>1, <1>4, <2>3
    <3>2. UpdateArrives(id) => tReq[u].no = tok[u]
      BY <1>1, <2>3 DEF PutInv, UpdateArrives
    <3> QED BY <1>1, <1>2, <1>9, <2>0, <2>1, <2>3, <3>1, <3>2
          DEF UserComes, TargetAnswers, UpdateArrives, TargetInv, TargetShape
  <2> QED BY <2>2, <2>3
<1>10. PhaseInv'
  BY <1>2 DEF ArriveInv, PhaseInv, WalkShape
<1>11. ComesInv'
  BY <1>2, <1>7, <1>8, <1>9 DEF ArriveInv, ComesInv, EnrolledClient, Settled
<1> QED BY <1>1, <1>3, <1>5, <1>6, <1>10, <1>11 DEF ArriveInv, TargetInv

UpdatePhases == {"Authenticate", "TokenUpdate"}
DevicePhases == {"Authenticate", "TokenUpdate", "SetBootstrapToken"}

(* A step of the walk: what was ahead of it is still ahead of it, or under *)
(* way, as message m with number n of id (0: none is put).                 *)
LEMMA WalkArrives ==
    ASSUME ArriveInv, ~ Putting, NEW id, NEW m, NEW n, Put(id, m, n),
           n # 0 => /\ id \in ID /\ m \in PutMessages(id)
                    /\ m = "TokenUpdate" => n = tok[id]
                    /\ m = "SetBootstrapToken" => n = bstoken[id]
                    /\ m = "Authenticate" => Ahead(id, UpdatePhases)' /\ Ahead(id, DevicePhases)'
                    /\ walk'.phase # "done",
           UNCHANGED <<source, clean>>, walk # NotStarted, walk' # NotStarted, PhaseInv',
           \A d \in Devices : Settled(d) =>
              /\ Ahead(d, UpdatePhases) =>
                    Ahead(d, UpdatePhases)' \/ (d = id /\ m = "TokenUpdate" /\ n # 0)
              /\ backend = "kv" /\ d \in escrowed /\ Ahead(d, DevicePhases) =>
                    Ahead(d, DevicePhases)' \/ (d = id /\ m = "SetBootstrapToken" /\ n # 0),
           \A u \in Users : EnrolledClient(u) /\ UserAhead(u) =>
              UserAhead(u)' \/ (u = id /\ m = "TokenUpdate" /\ n # 0)
    PROVE  ArriveInv'
<1>1. UNCHANGED <<backend, tok, bstoken, belief, escrowed>>
  BY DEF source, store, clients
<1>2. /\ TargetInv /\ \A i \in ID : tReq[i] = NoRequest
      /\ Devices \subseteq ID /\ Users \subseteq ID
  BY DEF ArriveInv, Putting, ID
<1>3. /\ TargetShape' /\ tPush' = tPush /\ tBstoken' = tBstoken /\ tDisabled' = tDisabled
      /\ \A i \in ID : i # id \/ n = 0 => tReq'[i] = NoRequest
      /\ n # 0 => /\ Under(id, m)' /\ tReq'[id].no = n
                  /\ tReq'[id].call \in PutCalls(m) /\ tReq'[id].call # "respond"
  <2>1. CASE n = 0
    BY <1>2, <2>1 DEF Put, target, TargetInv, TargetShape
  <2>2. CASE n # 0
    BY <1>2, <2>2, PutAlone
  <2> QED BY <2>1, <2>2
<1>4. ASSUME NEW i \in ID PROVE PutInv(i)'
  BY <1>1, <1>3 DEF PutInv, Under, PutMessages
<1>5. TargetInv'
  BY <1>2, <1>3, <1>4 DEF TargetInv
<1>6. ASSUME NEW d \in Devices, Settled(d), UpdateComes(d) PROVE UpdateComes(d)'
  <2>1. CASE Ahead(d, UpdatePhases)'
    BY <2>1 DEF UpdateComes, UpdatePhases
  <2>2. CASE d = id /\ m = "TokenUpdate" /\ n # 0
    BY <1>3, <2>2 DEF UpdateComes
  <2>3. CASE ~ Ahead(d, UpdatePhases) /\ ~ Ahead(d, UpdatePhases)'
    <3>1. tPush[d] = tok[d] /\ d \notin tDisabled
      BY <1>2, <1>6, <2>3 DEF UpdateComes, UpdatePhases, Under
    <3>2. ~ Under(d, "Authenticate")'
      BY <1>2, <1>3, <2>3 DEF Under
    <3> QED BY <1>1, <1>3, <3>1, <3>2 DEF UpdateComes
  <2> QED BY <1>6, <2>1, <2>2, <2>3
<1>7. ASSUME NEW d \in Devices, Settled(d), backend = "kv", d \in escrowed,
             TokenComes(d)
      PROVE  TokenComes(d)'
  <2>1. CASE Ahead(d, DevicePhases)'
    BY <2>1 DEF TokenComes, DevicePhases
  <2>2. CASE d = id /\ m = "SetBootstrapToken" /\ n # 0
    BY <1>3, <2>2 DEF TokenComes
  <2>3. CASE ~ Ahead(d, DevicePhases) /\ ~ Ahead(d, DevicePhases)'
    <3>1. tBstoken[d] = bstoken[d]
      BY <1>2, <1>7, <2>3 DEF TokenComes, DevicePhases, Under
    <3>2. ~ Under(d, "Authenticate")'
      BY <1>2, <1>3, <2>3 DEF Under
    <3> QED BY <1>1, <1>3, <3>1, <3>2 DEF TokenComes
  <2> QED BY <1>7, <2>1, <2>2, <2>3
<1>8. ASSUME NEW u \in Users, EnrolledClient(u), UserComes(u) PROVE UserComes(u)'
  <2>1. CASE UserAhead(u)'
    BY <2>1 DEF UserComes
  <2>2. CASE u = id /\ m = "TokenUpdate" /\ n # 0
    BY <1>3, <2>2 DEF UserComes
  <2>3. CASE ~ UserAhead(u)
    BY <1>1, <1>2, <1>3, <1>8, <2>3 DEF UserComes, Under
  <2> QED BY <1>8, <2>1, <2>2, <2>3
<1>9. ComesInv'
  BY <1>1, <1>6, <1>7, <1>8 DEF ArriveInv, ComesInv, EnrolledClient, Settled
<1> QED BY <1>5, <1>9 DEF ArriveInv

(* Where a walk that goes on can be *)
LEMMA WalkingAt ==
    ASSUME PhaseInv, NEW phase, phase # "serving", Walking(phase)
    PROVE  /\ walk # NotStarted /\ walk.phase = phase /\ ~ Putting
           /\ walk = [phase |-> phase, left |-> walk.left, dev |-> walk.dev, users |-> walk.users]
BY DEF PhaseInv, WalkShape, Walking, NotStarted

LEMMA NextDeviceArrives ==
    ASSUME ArriveInv, Found, NEW e \in Devices, NextDevice(e)
    PROVE  ArriveInv'
<1> USE DEF UpdatePhases, DevicePhases, Ahead
<1>1. /\ walk # NotStarted /\ walk.phase = "device" /\ ~ Putting /\ PhaseInv
      /\ walk = [phase |-> "device", left |-> walk.left, dev |-> walk.dev, users |-> walk.users]
  BY WalkingAt DEF NextDevice, ArriveInv, Walking
<1>2. /\ UNCHANGED <<source, clean>> /\ backend' = backend /\ Put(e, "TokenUpdate", 0)
  BY DEF NextDevice, Put, source
<1>3. CASE SkipsDisabled(e)
  <2>1. walk' = [phase |-> "device", left |-> walk.left \ {e}, dev |-> walk.dev,
                 users |-> walk.users]
    <3>1. walk' = [walk EXCEPT !.left = @ \ {e}]
      BY <1>3 DEF NextDevice
    <3> QED BY <1>1, <3>1
  <2>2. walk' # NotStarted /\ PhaseInv'
    BY <2>1 DEF PhaseInv, WalkShape, NotStarted
  <2>3. belief[e] \notin Enrolled /\ ~ Settled(e)
    <3>1. belief[e] \notin Enrolled
      BY <1>3 DEF Found, SkipsDisabled
    <3> QED BY <3>1 DEF Found, ID
  <2>4. \A u \in Users : EnrolledClient(u) /\ UserAhead(u) => UserAhead(u)'
    BY <1>1, <1>2, <2>1, <2>3 DEF UserAhead, EnrolledClient
  <2> QED BY <1>1, <1>2, <2>1, <2>2, <2>3, <2>4, WalkArrives
<1>4. CASE ~ SkipsDisabled(e)
  <2>1. walk' = [phase |-> "Authenticate", left |-> walk.left \ {e}, dev |-> e,
                 users |-> walk.users]
    <3>1. walk' = [walk EXCEPT !.left = @ \ {e}, !.dev = e, !.phase = "Authenticate"]
      BY <1>4 DEF NextDevice
    <3> QED BY <1>1, <3>1
  <2>2. walk' # NotStarted /\ PhaseInv'
    BY <2>1 DEF PhaseInv, WalkShape, NotStarted
  <2>4. \A u \in Users : EnrolledClient(u) /\ UserAhead(u) => UserAhead(u)'
    BY <1>1, <1>2, <2>1 DEF UserAhead, EnrolledClient
  <2> QED BY <1>1, <1>2, <2>1, <2>2, <2>4, WalkArrives
<1> QED BY <1>3, <1>4

LEMMA PutAuthenticateArrives ==
    ASSUME ArriveInv, Found, PutAuthenticate
    PROVE  ArriveInv'
<1> USE DEF UpdatePhases, DevicePhases, Ahead
<1>1. /\ walk # NotStarted /\ walk.phase = "Authenticate" /\ ~ Putting /\ PhaseInv
      /\ walk = [phase |-> "Authenticate", left |-> walk.left, dev |-> walk.dev,
                 users |-> walk.users]
  BY WalkingAt DEF PutAuthenticate, ArriveInv, Walking
<1>2. UNCHANGED <<source, clean>> /\ backend' = backend
  BY DEF PutAuthenticate, source
<1>3. PICK n : Put(walk.dev, "Authenticate", n)
  BY DEF PutAuthenticate
<1>4. walk.dev \in Devices /\ walk.dev \in ID /\ "Authenticate" \in PutMessages(walk.dev)
  BY <1>1 DEF PhaseInv, PutMessages, ID
<1>5. walk' = [phase |-> "TokenUpdate", left |-> walk.left, dev |-> walk.dev,
               users |-> walk.users]
  <2>1. walk' = [walk EXCEPT !.phase = "TokenUpdate"]
    BY DEF PutAuthenticate
  <2> QED BY <1>1, <2>1
<1>6. walk' # NotStarted /\ PhaseInv'
  BY <1>4, <1>5 DEF PhaseInv, WalkShape, NotStarted
<1>7. \A u \in Users : EnrolledClient(u) /\ UserAhead(u) => UserAhead(u)'
  BY <1>1, <1>2, <1>5 DEF UserAhead
<1> QED BY <1>1, <1>2, <1>3, <1>4, <1>5, <1>6, <1>7, WalkArrives

LEMMA PutTokenUpdateArrives ==
    ASSUME ArriveInv, Found, PutTokenUpdate
    PROVE  ArriveInv'
<1> USE DEF UpdatePhases, DevicePhases, Ahead
<1>1. /\ walk # NotStarted /\ walk.phase = "TokenUpdate" /\ ~ Putting /\ PhaseInv
      /\ walk = [phase |-> "TokenUpdate", left |-> walk.left, dev |-> walk.dev,
                 users |-> walk.users]
  BY WalkingAt DEF PutTokenUpdate, ArriveInv, Walking
<1>2. UNCHANGED <<source, clean>> /\ backend' = backend
  BY DEF PutTokenUpdate, source
<1>3. PICK n : n = Decoded(walk.dev, "TokenUpdate", tok[walk.dev]) /\ Put(walk.dev, "TokenUpdate", n)
  BY DEF PutTokenUpdate
<1>4. /\ walk.dev \in Devices /\ walk.dev \in ID /\ "TokenUpdate" \in PutMessages(walk.dev)
      /\ n # 0 => n = tok[walk.dev]
  BY <1>1, <1>3 DEF PhaseInv, PutMessages, Decoded, ID
<1>5. PICK ph : /\ ph = IF tok[walk.dev] = 0 \/ backend # "kv" THEN "device" ELSE "SetBootstrapToken"
                /\ walk' = [phase |-> ph, left |-> walk.left, dev |-> walk.dev,
                            users |-> walk.users]
  <2>1. walk' = [walk EXCEPT !.phase = IF tok[walk.dev] = 0 \/ backend # "kv" THEN "device"
                                       ELSE "SetBootstrapToken"]
    BY DEF PutTokenUpdate
  <2> QED BY <1>1, <2>1
<1>6. walk' # NotStarted /\ PhaseInv' /\ walk'.phase # "done"
  BY <1>2, <1>4, <1>5 DEF PhaseInv, WalkShape, NotStarted
<1>7. \A u \in Users : EnrolledClient(u) /\ UserAhead(u) => UserAhead(u)'
  BY <1>1, <1>2, <1>5, FoundSettled DEF UserAhead
<1>8. \A d \in Devices : Settled(d) =>
              /\ Ahead(d, UpdatePhases) => Ahead(d, UpdatePhases)' \/ (d = walk.dev /\ n # 0)
              /\ backend = "kv" /\ d \in escrowed /\ Ahead(d, DevicePhases) =>
                    Ahead(d, DevicePhases)'
  BY <1>1, <1>2, <1>3, <1>5, FoundSettled
<1> QED BY <1>1, <1>2, <1>3, <1>4, <1>6, <1>7, <1>8, WalkArrives

LEMMA PutBootstrapTokenArrives ==
    ASSUME ArriveInv, Found, PutBootstrapToken
    PROVE  ArriveInv'
<1> USE DEF UpdatePhases, DevicePhases, Ahead
<1>1. /\ walk # NotStarted /\ walk.phase = "SetBootstrapToken" /\ ~ Putting /\ PhaseInv
      /\ walk = [phase |-> "SetBootstrapToken", left |-> walk.left, dev |-> walk.dev,
                 users |-> walk.users]
  BY WalkingAt DEF PutBootstrapToken, ArriveInv, Walking
<1>2. UNCHANGED <<source, clean>> /\ backend' = backend /\ backend = "kv"
  BY <1>1 DEF PutBootstrapToken, source, PhaseInv
<1>3. PICK n : n = bstoken[walk.dev] /\ Put(walk.dev, "SetBootstrapToken", n)
  BY DEF PutBootstrapToken
<1>4. walk.dev \in Devices /\ walk.dev \in ID /\ "SetBootstrapToken" \in PutMessages(walk.dev)
  BY <1>1 DEF PhaseInv, PutMessages, ID
<1>5. walk' = [phase |-> "users", left |-> walk.left, dev |-> walk.dev,
               users |-> {u \in channels : ParentID[u] = walk.dev}]
  <2>1. walk' = [walk EXCEPT !.phase = "users",
                    !.users = {u \in channels : ParentID[u] = walk.dev}]
    BY DEF PutBootstrapToken
  <2> QED BY <1>1, <2>1
<1>6. walk' # NotStarted /\ PhaseInv' /\ walk'.phase # "done"
  BY <1>2, <1>4, <1>5 DEF PhaseInv, WalkShape, NotStarted
<1>7. \A u \in Users : EnrolledClient(u) /\ UserAhead(u) => UserAhead(u)'
  <2>1. \A u \in Users : EnrolledClient(u) => u \in channels
    BY <1>2, FoundSettled
  <2> QED BY <1>1, <1>2, <1>5, <2>1 DEF UserAhead
<1>8. \A d \in Devices : Settled(d) =>
              /\ Ahead(d, UpdatePhases) => Ahead(d, UpdatePhases)'
              /\ d \in escrowed /\ Ahead(d, DevicePhases) =>
                    Ahead(d, DevicePhases)' \/ (d = walk.dev /\ n # 0)
  BY <1>1, <1>2, <1>3, <1>5, FoundSettled
<1> QED BY <1>1, <1>2, <1>3, <1>4, <1>6, <1>7, <1>8, WalkArrives

LEMMA PutUserArrives ==
    ASSUME ArriveInv, Found, NEW v \in Users, PutUser(v)
    PROVE  ArriveInv'
<1> USE DEF UpdatePhases, DevicePhases, Ahead
<1>1. /\ walk # NotStarted /\ walk.phase = "users" /\ ~ Putting /\ PhaseInv
      /\ walk = [phase |-> "users", left |-> walk.left, dev |-> walk.dev, users |-> walk.users]
  BY WalkingAt DEF PutUser, ArriveInv, Walking
<1>2. UNCHANGED <<source, clean>> /\ backend' = backend
  BY DEF PutUser, source
<1>3. PICK n : /\ n = IF SkipsDisabled(v) THEN 0 ELSE Decoded(v, "TokenUpdate", tok[v])
               /\ Put(v, "TokenUpdate", n)
  BY DEF PutUser
<1>4. v \in ID /\ "TokenUpdate" \in PutMessages(v)
  BY DEF PutMessages, ID
<1>5. walk' = [phase |-> "users", left |-> walk.left, dev |-> walk.dev,
               users |-> walk.users \ {v}]
  <2>1. walk' = [walk EXCEPT !.users = @ \ {v}]
    BY DEF PutUser
  <2> QED BY <1>1, <2>1
<1>6. walk' # NotStarted /\ PhaseInv' /\ walk'.phase # "done"
  BY <1>1, <1>2, <1>5 DEF PhaseInv, WalkShape, NotStarted
<1>7. \A u \in Users : EnrolledClient(u) /\ UserAhead(u) =>
         UserAhead(u)' \/ (u = v /\ n # 0)
  <2>1. EnrolledClient(v) => n # 0
    BY <1>3, FoundSettled DEF SkipsDisabled
  <2> QED BY <1>1, <1>2, <1>5, <2>1 DEF UserAhead
<1>8. \A d \in Devices :
         /\ Ahead(d, UpdatePhases) => Ahead(d, UpdatePhases)'
         /\ Ahead(d, DevicePhases) => Ahead(d, DevicePhases)'
  BY <1>1, <1>5
<1>9. n # 0 => n = tok[v]
  BY <1>3 DEF Decoded
<1> QED BY <1>1, <1>2, <1>3, <1>4, <1>6, <1>7, <1>8, <1>9, WalkArrives

LEMMA PutUserAmongDevicesArrives ==
    ASSUME ArriveInv, Found, NEW v \in Users, PutUserAmongDevices(v)
    PROVE  ArriveInv'
<1> USE DEF UpdatePhases, DevicePhases, Ahead
<1>1. /\ walk # NotStarted /\ walk.phase = "device" /\ ~ Putting /\ PhaseInv
      /\ walk = [phase |-> "device", left |-> walk.left, dev |-> walk.dev, users |-> walk.users]
  BY WalkingAt DEF PutUserAmongDevices, ArriveInv, Walking
<1>2. UNCHANGED <<source, clean>> /\ backend' = backend
  BY DEF PutUserAmongDevices, source
<1>3. PICK n : n = Decoded(v, "TokenUpdate", tok[v]) /\ Put(v, "TokenUpdate", n)
  BY DEF PutUserAmongDevices
<1>4. /\ v \in ID /\ "TokenUpdate" \in PutMessages(v) /\ v \notin Devices
      /\ n # 0 => n = tok[v]
  BY <1>3 DEF PutMessages, Decoded, ID
<1>5. walk' = [phase |-> "device", left |-> walk.left \ {v}, dev |-> walk.dev,
               users |-> walk.users]
  <2>1. walk' = [walk EXCEPT !.left = @ \ {v}]
    BY DEF PutUserAmongDevices
  <2> QED BY <1>1, <2>1
<1>6. walk' # NotStarted /\ PhaseInv' /\ walk'.phase # "done"
  BY <1>1, <1>2, <1>5 DEF PhaseInv, WalkShape, NotStarted
<1>7. \A u \in Users : EnrolledClient(u) /\ UserAhead(u) => UserAhead(u)'
  <2>1. \A u \in Users : ParentID[u] # v
    BY <1>4
  <2> QED BY <1>1, <1>2, <1>5, <2>1 DEF UserAhead
<1>8. \A d \in Devices :
         /\ Ahead(d, UpdatePhases) => Ahead(d, UpdatePhases)'
         /\ Ahead(d, DevicePhases) => Ahead(d, DevicePhases)'
  BY <1>1, <1>4, <1>5
<1> QED BY <1>1, <1>2, <1>3, <1>4, <1>6, <1>7, <1>8, WalkArrives

LEMMA LoopDoneArrives ==
    ASSUME ArriveInv, Found, UsersDone \/ DevicesDone
    PROVE  ArriveInv'
<1> USE DEF UpdatePhases, DevicePhases, Ahead
<1>0. /\ UNCHANGED <<source, clean>> /\ backend' = backend
      /\ Put(None, "TokenUpdate", 0)
  BY DEF UsersDone, DevicesDone, Put, source
<1>1. CASE UsersDone
  <2>1. /\ walk # NotStarted /\ walk.phase = "users" /\ ~ Putting /\ PhaseInv
        /\ walk = [phase |-> "users", left |-> walk.left, dev |-> walk.dev,
                   users |-> walk.users]
        /\ walk.users = {}
    BY <1>1, WalkingAt DEF UsersDone, ArriveInv, Walking
  <2>2. walk' = [phase |-> IF backend = "kv" THEN "device" ELSE "done", left |-> walk.left,
                 dev |-> None, users |-> walk.users]
    <3>1. walk' = [walk EXCEPT !.phase = IF backend = "kv" THEN "device" ELSE "done",
                               !.dev = None]
      BY <1>1 DEF UsersDone
    <3> QED BY <2>1, <3>1
  <2>3. walk' # NotStarted /\ PhaseInv'
    BY <1>0, <2>1, <2>2 DEF PhaseInv, WalkShape, NotStarted
  <2>4. \A u \in Users : EnrolledClient(u) /\ UserAhead(u) => UserAhead(u)'
    BY <1>0, <2>1, <2>2 DEF UserAhead
  <2>5. \A d \in Devices :
           /\ Ahead(d, UpdatePhases) => Ahead(d, UpdatePhases)'
           /\ Ahead(d, DevicePhases) => Ahead(d, DevicePhases)'
    BY <2>1, <2>2
  <2> QED BY <1>0, <2>1, <2>3, <2>4, <2>5, WalkArrives
<1>2. CASE DevicesDone
  <2>1. /\ walk # NotStarted /\ walk.phase = "device" /\ ~ Putting /\ PhaseInv
        /\ walk = [phase |-> "device", left |-> walk.left, dev |-> walk.dev,
                   users |-> walk.users]
        /\ walk.left = {}
    BY <1>2, WalkingAt DEF DevicesDone, ArriveInv, Walking
  <2>2. PICK ph, us : /\ IF backend = "kv" THEN ph = "done" ELSE ph = "users" /\ us = Users
                      /\ walk' = [phase |-> ph, left |-> walk.left, dev |-> walk.dev,
                                  users |-> us]
    <3>1. CASE backend = "kv"
      <4>1. walk' = [walk EXCEPT !.phase = "done"]
        BY <1>2, <3>1 DEF DevicesDone
      <4>2. walk' = [phase |-> "done", left |-> walk.left, dev |-> walk.dev,
                     users |-> walk.users]
        BY <2>1, <4>1
      <4> QED BY <3>1, <4>2
    <3>2. CASE backend # "kv"
      <4>1. walk' = [walk EXCEPT !.phase = "users", !.users = Users]
        BY <1>2, <3>2 DEF DevicesDone
      <4>2. walk' = [phase |-> "users", left |-> walk.left, dev |-> walk.dev,
                     users |-> Users]
        BY <2>1, <4>1
      <4> QED BY <3>2, <4>2
    <3> QED BY <3>1, <3>2
  <2>3. walk' # NotStarted /\ PhaseInv'
    BY <1>0, <2>1, <2>2 DEF PhaseInv, WalkShape, NotStarted
  <2>4. \A u \in Users : EnrolledClient(u) /\ UserAhead(u) => UserAhead(u)'
    BY <1>0, <2>1, <2>2 DEF UserAhead
  <2>5. \A d \in Devices :
           /\ Ahead(d, UpdatePhases) => Ahead(d, UpdatePhases)'
           /\ Ahead(d, DevicePhases) => Ahead(d, DevicePhases)'
    BY <2>1, <2>2
  <2> QED BY <1>0, <2>1, <2>3, <2>4, <2>5, WalkArrives
<1> QED BY <1>1, <1>2

(* A run begins with everything ahead of it, whatever the target has of a  *)
(* run before.                                                             *)
LEMMA StartArrives ==
    ASSUME ArriveInv, Found, Start
    PROVE  ArriveInv'
<1>1. /\ walk' = [phase |-> "device", left |-> Entries, dev |-> None, users |-> {}]
      /\ UNCHANGED <<backend, target, tok, bstoken, belief>>
  BY DEF Start, store, clients
<1>2. walk' # NotStarted /\ PhaseInv'
  BY <1>1 DEF PhaseInv, WalkShape, NotStarted
<1>3. \A i \in ID : tReq[i] = NoRequest
  BY DEF Start, Serving, ArriveInv, TargetInv, PutInv
<1>4. TargetInv'
  BY <1>1, <1>3 DEF ArriveInv, TargetInv, TargetShape, PutInv, target
<1>5. \A d \in Devices : Settled(d) =>
         d \in walk'.left /\ UpdateComes(d)' /\ TokenComes(d)'
  BY <1>1, FoundSettled DEF Entries, UpdateComes, TokenComes, Ahead
<1>6. \A u \in Users : EnrolledClient(u) => UserComes(u)'
  BY <1>1, FoundSettled DEF Entries, UserComes, UserAhead, Ahead
<1>7. ComesInv'
  BY <1>1, <1>5, <1>6 DEF ComesInv, EnrolledClient, Settled
<1> QED BY <1>2, <1>4, <1>7 DEF ArriveInv

LEMMA ArriveInvNext ==
    ASSUME SourceInv, KeptInv, ArriveInv, [Next]_vars
    PROVE  ArriveInv'
<1>0. Found
  BY FoundCorrect
<1>1. CASE UNCHANGED vars
  BY <1>1 DEF vars, source, store, clients, target, ArriveInv, TargetInv, TargetShape, PutInv,
     PhaseInv, WalkShape, ComesInv, UpdateComes, TokenComes, UserComes, UserAhead, Ahead, Under,
     EnrolledClient, Settled
<1>2. ASSUME NEW id \in ID, Serve(id) PROVE ArriveInv'
  <2>1. walk = NotStarted /\ UNCHANGED <<backend, walk, clean, target>>
    BY <1>2 DEF Serve, Serving
  <2>2. \A i \in ID : tReq[i] = NoRequest
    BY <2>1 DEF ArriveInv, TargetInv, PutInv
  <2> QED BY <2>1, <2>2 DEF target, ArriveInv, TargetInv, TargetShape, PutInv, PhaseInv,
        WalkShape, ComesInv
<1>3. ASSUME NEW id \in ID, PutFails(id) PROVE ArriveInv'
  <2>1. /\ UNCHANGED <<backend, store, walk, tPush, tBstoken, tDisabled>> /\ clean' = FALSE
        /\ tReq' = [tReq EXCEPT ![id] = NoRequest]
    BY <1>3 DEF PutFails, MigrationFails, Target!Fail, Target!NoRequest, NoRequest,
       Target!store, Target!enrollments
  <2> QED BY <2>1 DEF store, ArriveInv, TargetInv, TargetShape, PutInv, PhaseInv, WalkShape,
        ComesInv
<1>4. ASSUME WalkFails PROVE ArriveInv'
  <2>1. /\ UNCHANGED <<backend, store, target>> /\ clean' = FALSE /\ ~ Putting
        /\ walk # NotStarted /\ WalkShape
    BY <1>4 DEF WalkFails, MigrationFails, NotStarted, ArriveInv, PhaseInv
  <2>2. walk' = [phase |-> "done", left |-> walk.left, dev |-> walk.dev, users |-> walk.users]
    BY <1>4, <2>1 DEF WalkFails, WalkShape
  <2>3. PhaseInv'
    BY <2>1, <2>2 DEF PhaseInv, WalkShape
  <2>4. TargetInv'
    BY <2>1 DEF ArriveInv, TargetInv, TargetShape, PutInv, Putting, target
  <2> QED BY <2>1, <2>3, <2>4 DEF ArriveInv, ComesInv
<1> QED BY <1>0, <1>1, <1>2, <1>3, <1>4, HandlesArrive, StartArrives, NextDeviceArrives,
   PutAuthenticateArrives, PutTokenUpdateArrives, PutBootstrapTokenArrives, PutUserArrives,
   PutUserAmongDevicesArrives, LoopDoneArrives DEF Next

LEMMA ArriveInvInit == Init => ArriveInv
BY DEF Init, ArriveInv, TargetInv, TargetShape, PutInv, PhaseInv, WalkShape, ComesInv, NoRequest,
   Target!EmptyStore, Target!NoRequest, Target!ID, ID

(* After a run of nano2nano without errors every client that is enrolled   *)
(* is enabled at the target, with the push info it was last told is stored *)
(* or newer, on every storage (RetrieveMigrationCheckins in storage/kv,    *)
(* mysql, pgsql and file), and a device's bootstrap token on key-value     *)
(* storage; wherever requests were cut off and earlier runs failed.  In    *)
(* the file backend the clients are those whose last TokenUpdate was       *)
(* answered: one cut off may have left an empty file (writeFile).          *)
THEOREM MigratedCorrect == Spec => []Migrated
<1>1. SourceInv /\ KeptInv /\ ArriveInv => Migrated
  <2> SUFFICES ASSUME SourceInv, KeptInv, ArriveInv, walk.phase = "done", clean
               PROVE  \A id \in ID : EnrolledClient(id) =>
                         /\ Target!Enabled(id) /\ tPush[id] >= told[id]
                         /\ backend = "kv" /\ id \in escrowed => tBstoken[id] = escrow[id]
    BY DEF Migrated
  <2>1. /\ walk # NotStarted /\ walk.left = {} /\ Found
        /\ \A id \in ID : tReq[id] = NoRequest
    BY FoundCorrect DEF ArriveInv, PhaseInv, TargetInv, PutInv, NotStarted
  <2>2. \A id \in ID : told[id] \in Nat /\ tok[id] \in Nat /\ told[id] <= tok[id]
    BY DEF SourceInv, Shape, KeptInv, Messages, UpdateInv
  <2>3. ASSUME NEW d \in Devices, Settled(d)
        PROVE  /\ tPush[d] = tok[d] /\ tok[d] # 0 /\ d \notin tDisabled
               /\ backend = "kv" /\ d \in escrowed => tBstoken[d] = escrow[d]
    <3>1. UpdateComes(d) /\ (backend = "kv" /\ d \in escrowed => TokenComes(d)) /\ d \in ID
      BY <2>1, <2>3 DEF ArriveInv, ComesInv, ID
    <3>2. tok[d] # 0 /\ (backend = "kv" /\ d \in escrowed => bstoken[d] = escrow[d])
      BY <2>1, <2>3, FoundSettled
    <3> QED BY <2>1, <3>1, <3>2 DEF UpdateComes, TokenComes, Ahead, Under
  <2>4. ASSUME NEW u \in Users, EnrolledClient(u)
        PROVE  tPush[u] = tok[u] /\ tok[u] # 0 /\ u \notin tDisabled
    <3>1. UserComes(u) /\ u \in ID /\ u \notin tDisabled
      BY <2>1, <2>4 DEF ArriveInv, ComesInv, TargetInv, ID
    <3>2. tok[u] # 0
      BY <2>1, <2>4, FoundSettled
    <3> QED BY <2>1, <3>1, <3>2 DEF UserComes, UserAhead, Ahead, Under
  <2>5. \A u \in Users : u \notin escrowed
    BY DEF KeptInv
  <2> QED BY <2>2, <2>3, <2>4, <2>5 DEF EnrolledClient, Target!Enabled, ID
<1>2. SourceInv /\ KeptInv /\ [Next]_vars => KeptInv'
  BY KeptInvNext
<1>3. SourceInv /\ KeptInv /\ ArriveInv /\ [Next]_vars => ArriveInv'
  BY ArriveInvNext
<1> QED BY <1>1, <1>2, <1>3, SourceInvariant, KeptInvInit, ArriveInvInit, PTL DEF Spec

=============================================================================
