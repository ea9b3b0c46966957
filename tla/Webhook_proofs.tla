--------------------------- MODULE Webhook_proofs ---------------------------
(* Theorems about Webhook: what the tallies it posts tell.                 *)
EXTENDS Webhook, TLAPS

(* The calls of a TokenUpdate up to the one that counts it, and those after *)
(* that, on each kind of storage                                           *)
BeforeBump == {"StoreTokenUpdate", "EnableEnrollment", "WriteTokenUpdate", "FillTokenUpdate",
               "BumpTally", "WriteTally"}

TokenCalls == BeforeBump \cup {"RemoveDisabled"}

IsRequest(r) ==
    /\ r.call # "none" /\ r.ctr \in Nat
    /\ r = [msg |-> r.msg, no |-> r.no, call |-> r.call, subs |-> r.subs, ctr |-> r.ctr]
    /\ r.call \in TokenCalls => r.msg = "TokenUpdate"

Requests ==
    /\ req = [id \in ID |-> req[id]]
    /\ \A id \in ID : req[id] = NoRequest \/ IsRequest(req[id])

(* The file of a tally is empty between the two steps of its bump.         *)
Tallies ==
    /\ tally \in [ID -> Nat]
    /\ \A id \in ID : req[id].call = "WriteTally" => tally[id] = 0

(* An event's goroutine is still to read the tally, or carries one that    *)
(* counts the event's TokenUpdate.                                         *)
EventInv(g) ==
    LET e == event[g] IN
    /\ e = [id |-> e.id, msg |-> e.msg, step |-> e.step, tally |-> e.tally,
            atLeast |-> e.atLeast]
    /\ e.atLeast \in Nat
    /\ e.msg # "TokenUpdate" => e.atLeast = 0
    /\ e.step = "start" => e.id \in ID /\ e.tally = 0
    /\ e.step = "send" => e.id \in ID /\ e.tally \in Nat
    /\ backend # "file" =>
          /\ e.step = "start" => tally[e.id] >= e.atLeast
          /\ e.step = "send" => e.tally >= e.atLeast

EventsInv ==
    /\ event = [g \in Goroutines |-> event[g]]
    /\ \A g \in Goroutines : EventInv(g)

(* Event g will tell the tally id has now. *)
WillTell(g, id) ==
    /\ event[g].id = id /\ event[g].msg = "TokenUpdate"
    /\ \/ event[g].step = "start"
       \/ event[g].step = "send" /\ event[g].tally = tally[id]

(* A tally that is not zero was posted, or will be: the request that       *)
(* counted is still under way, or its event is.                            *)
HeardInv ==
    /\ heard = [id \in ID |-> heard[id]]
    /\ \A id \in ID :
          \/ lost \/ tally[id] = 0 \/ tally[id] \in heard[id]
          \/ Bumped(id) \/ \E g \in Goroutines : WillTell(g, id)

Inv == Requests /\ Tallies /\ EventsInv /\ HeardInv

-----------------------------------------------------------------------------
(* What a call does to requests and tallies.                               *)
Effect(id) ==
    /\ Requests' /\ Tallies'
    /\ \A i \in ID : i # id => req'[i] = req[i]
    /\ \A i \in ID : tally'[i] \in {0, tally[i]}
                     \/ (i = id /\ tally'[i] >= tally[i] /\ Bumped(id)')
    /\ Bumped(id) => Bumped(id)'

(* A call moves its request on to call c. *)
Moves(id, c) ==
    /\ Requests' /\ \A i \in ID : i # id => req'[i] = req[i]
    /\ req'[id] # NoRequest /\ req'[id].msg = req[id].msg /\ req'[id].call = c

LEMMA ThenMoves ==
    ASSUME Requests, NEW id \in ID, IsRequest(req[id]), NEW c, c # "none",
           c \in TokenCalls => req[id].call \in TokenCalls, Then(id, c)
    PROVE  Moves(id, c)
BY DEF Requests, IsRequest, Then, NoRequest, Moves

(* The file backend's Disable changes the list of users with it. *)
LEMMA ListMoves ==
    ASSUME Requests, NEW id \in ID, IsRequest(req[id])
    PROVE  /\ \A S : req' = [req EXCEPT ![id].call = "WriteDisabled", ![id].subs = S]
                    => Moves(id, "WriteDisabled")
           /\ \A u : req[id].call = "WriteDisabled" /\ req' = [req EXCEPT ![id].subs = @ \ {u}]
                    => Moves(id, "WriteDisabled")
<1> USE DEF Requests, Moves, TokenCalls, BeforeBump
<1>1. ASSUME NEW S, req' = [req EXCEPT ![id].call = "WriteDisabled", ![id].subs = S]
      PROVE  Moves(id, "WriteDisabled")
  <2>1. req'[id] = [msg |-> req[id].msg, no |-> req[id].no, call |-> "WriteDisabled", subs |-> S,
                 ctr |-> req[id].ctr]
    BY <1>1 DEF IsRequest
  <2>2. IsRequest(req'[id])
    BY <2>1 DEF IsRequest
  <2> QED BY <1>1, <2>1, <2>2 DEF NoRequest
<1>2. ASSUME NEW u, req[id].call = "WriteDisabled", req' = [req EXCEPT ![id].subs = @ \ {u}]
      PROVE  Moves(id, "WriteDisabled")
  <2>1. \E S : req'[id] = [msg |-> req[id].msg, no |-> req[id].no, call |-> "WriteDisabled", subs |-> S,
                 ctr |-> req[id].ctr]
    BY <1>2 DEF IsRequest
  <2>2. IsRequest(req'[id])
    BY <2>1 DEF IsRequest
  <2> QED BY <1>2, <2>1, <2>2 DEF NoRequest
<1> QED BY <1>1, <1>2

(* Its bump of the tally remembers the one it has read.                    *)
LEMMA BumpMoves ==
    ASSUME Requests, Tallies, NEW id \in ID, IsRequest(req[id]), BumpTally(id)
    PROVE  Moves(id, "WriteTally")
<1>1. req' = [req EXCEPT ![id].call = "WriteTally", ![id].ctr = tally[id]]
      /\ req[id].call = "BumpTally"
  BY DEF BumpTally, At
<1>2. req'[id] = [msg |-> req[id].msg, no |-> req[id].no, call |-> "WriteTally",
                 subs |-> req[id].subs, ctr |-> tally[id]]
  BY <1>1 DEF Requests, IsRequest
<1>3. IsRequest(req'[id])
  <2>1. tally[id] \in Nat /\ req[id].msg = "TokenUpdate"
    BY <1>1 DEF IsRequest, Tallies, TokenCalls, BeforeBump
  <2>2. PICK m, n, us, t : /\ req'[id] = [msg |-> m, no |-> n, call |-> "WriteTally", subs |-> us,
                                          ctr |-> t]
                           /\ m = "TokenUpdate" /\ t \in Nat
    BY <1>2, <2>1
  <2> QED BY <2>2 DEF IsRequest
<1> QED BY <1>1, <1>2, <1>3 DEF Requests, Moves, NoRequest

(* The calls that are the same on several storages.                        *)
SameCall(id) ==
    \/ ClearQueue(id) \/ StoreTokenUpdate(id) \/ EnableEnrollment(id)
    \/ StoreBootstrapToken(id) \/ RetrieveBootstrapToken(id)

LEMMA CallRequest ==
    ASSUME Requests, NEW id \in ID, req[id].call # "none"
    PROVE  /\ IsRequest(req[id])
           /\ \A c : c # "none" /\ (c \in TokenCalls => req[id].call \in TokenCalls) /\ Then(id, c)
                => Moves(id, c)
<1>1. IsRequest(req[id])
  BY DEF Requests, NoRequest
<1> QED BY <1>1, ThenMoves

LEMMA SameEffect ==
    ASSUME Requests, Tallies, NEW id \in ID, SameCall(id)
    PROVE  Effect(id)
<1> USE DEF At, Effect, Tallies, Bumped, Begun, Moves, TokenCalls, BeforeBump, store, enrollments
<1>1. CASE ClearQueue(id)
  BY <1>1, CallRequest DEF ClearQueue
<1>2. CASE StoreTokenUpdate(id)
  BY <1>2, CallRequest DEF StoreTokenUpdate
<1>3. CASE EnableEnrollment(id)
  <2>1. Moves(id, "respond") /\ req[id].msg = "TokenUpdate"
    BY <1>3, CallRequest DEF EnableEnrollment, IsRequest
  <2> QED BY <1>3, <2>1 DEF EnableEnrollment
<1>4. CASE StoreBootstrapToken(id)
  BY <1>4, CallRequest DEF StoreBootstrapToken
<1>5. CASE RetrieveBootstrapToken(id)
  BY <1>5, CallRequest DEF RetrieveBootstrapToken
<1> QED BY <1>1, <1>2, <1>3, <1>4, <1>5 DEF SameCall

LEMMA KVEffect ==
    ASSUME Requests, Tallies, NEW id \in ID, StorageCall(id)
    PROVE  Effect(id)
<1> USE DEF At, Effect, Tallies, Bumped, Begun, Moves, TokenCalls, BeforeBump, store, enrollments
<1>1. CASE StoreAuthenticate(id)
  BY <1>1, CallRequest DEF StoreAuthenticate
<1>2. CASE ResetEnrollment(id)
  BY <1>2, CallRequest DEF ResetEnrollment
<1>3. CASE Disable(id)
  BY <1>3, CallRequest DEF Disable
<1>4. CASE StoreUserAuthenticate(id)
  BY <1>4, CallRequest DEF StoreUserAuthenticate
<1>5. CASE DisableUser(id)
  BY <1>5, CallRequest DEF DisableUser
<1> QED BY <1>1, <1>2, <1>3, <1>4, <1>5, SameEffect DEF StorageCall, SameCall

LEMMA SQLEffect ==
    ASSUME Requests, Tallies, NEW id \in ID, SQLCall(id)
    PROVE  Effect(id)
<1> USE DEF At, Effect, Tallies, Bumped, Begun, Moves, TokenCalls, BeforeBump, store, enrollments
<1>1. CASE UpsertDevice(id)
  BY <1>1, CallRequest DEF UpsertDevice
<1>2. CASE DisableRows(id)
  BY <1>2, CallRequest DEF DisableRows
<1>3. CASE UpsertUser(id)
  BY <1>3, CallRequest DEF UpsertUser
<1> QED BY <1>1, <1>2, <1>3, SameEffect DEF SQLCall, SameCall

LEMMA FileEffect ==
    ASSUME Requests, Tallies, NEW id \in ID, FileCall(id)
    PROVE  Effect(id)
<1> USE DEF At, Effect, Tallies, Bumped, Begun, Moves, TokenCalls, BeforeBump, store, enrollments
<1>1. CASE ResetTally(id)
  BY <1>1, CallRequest DEF ResetTally
<1>2. CASE RemoveBootstrapToken(id)
  BY <1>2, CallRequest DEF RemoveBootstrapToken
<1>3. CASE WriteAuthenticate(id)
  BY <1>3, CallRequest DEF WriteAuthenticate
<1>4. CASE ListSubs(id)
  <2>1. Moves(id, "WriteDisabled")
    BY <1>4, CallRequest, ListMoves DEF ListSubs
  <2> QED BY <1>4, <2>1 DEF ListSubs
<1>5. CASE WriteDisabled(id)
  <2>1. ASSUME NEW u, req' = [req EXCEPT ![id].subs = @ \ {u}]
        PROVE  Moves(id, "WriteDisabled")
    BY <1>5, <2>1, CallRequest, ListMoves DEF WriteDisabled
  <2> QED BY <1>5, <2>1, CallRequest DEF WriteDisabled
<1>6. CASE RemoveSubs(id)
  BY <1>6, CallRequest DEF RemoveSubs
<1>7. CASE AssocSub(id)
  BY <1>7, CallRequest DEF AssocSub
<1>8. CASE WriteTokenUpdate(id)
  BY <1>8, CallRequest DEF WriteTokenUpdate
<1>9. CASE BumpTally(id)
  <2>1. Moves(id, "WriteTally")
    BY <1>9, CallRequest, BumpMoves DEF BumpTally
  <2> QED BY <1>9, <2>1 DEF BumpTally
<1>10. CASE RemoveDisabled(id)
  BY <1>10, CallRequest DEF RemoveDisabled
<1>11. CASE WriteUserAuthenticate(id)
  BY <1>11, CallRequest DEF WriteUserAuthenticate
<1>12. CASE WriteTally(id)
  <2>1. /\ Moves(id, "RemoveDisabled") /\ req[id].msg = "TokenUpdate"
        /\ req[id].ctr \in Nat /\ tally[id] = 0
    BY <1>12, CallRequest DEF WriteTally, IsRequest
  <2> QED BY <1>12, <2>1 DEF WriteTally
<1>13. CASE FillAuthenticate(id)
  BY <1>13, CallRequest DEF FillAuthenticate
<1>14. CASE FillTokenUpdate(id)
  BY <1>14, CallRequest DEF FillTokenUpdate
<1>15. CASE WriteBootstrapToken(id)
  BY <1>15, CallRequest DEF WriteBootstrapToken
<1>16. CASE FillBootstrapToken(id)
  BY <1>16, CallRequest DEF FillBootstrapToken
<1> HIDE DEF Effect
<1> QED BY <1>1, <1>2, <1>3, <1>4, <1>5, <1>6, <1>7, <1>8, <1>9, <1>10, <1>11, <1>12, <1>13,
   <1>14, <1>15, <1>16, SameEffect DEF FileCall, MessageCall, OtherCall, SameCall

LEMMA HandleEffect ==
    ASSUME Requests, Tallies, NEW id \in ID, Handle(id)
    PROVE  Effect(id)
BY KVEffect, SQLEffect, FileEffect DEF Handle

-----------------------------------------------------------------------------
(* What a call does to the events under way: an event whose enrollment's   *)
(* tally begins anew promises nothing any more.                      *)
LEMMA ServeInv ==
    ASSUME Inv, NEW id \in ID, Serve(id), UNCHANGED backend
    PROVE  Inv'
<1>1. Effect(id)
  BY HandleEffect DEF Inv, Serve
<1> USE DEF Inv, Effect, Tallies
<1>2. EventsInv'
  <2>1. event' = [g \in Goroutines |-> event'[g]]
    BY DEF Serve
  <2>2. ASSUME NEW g \in Goroutines PROVE EventInv(g)'
    <3>1. EventInv(g)
      BY DEF EventsInv
    <3>2. event'[g] = IF BeginsAnew(event[g].id) THEN [event[g] EXCEPT !.atLeast = 0] ELSE event[g]
      BY DEF Serve
    <3>3. CASE BeginsAnew(event[g].id)
      <4>1. event'[g] = [id |-> event[g].id, msg |-> event[g].msg, step |-> event[g].step,
                         tally |-> event[g].tally, atLeast |-> 0]
        BY <3>1, <3>2, <3>3 DEF EventInv
      <4> QED BY <1>1, <3>1, <3>3, <4>1 DEF EventInv
    <3>4. CASE ~ BeginsAnew(event[g].id)
      BY <1>1, <3>1, <3>2, <3>4 DEF EventInv, BeginsAnew
    <3> QED BY <3>3, <3>4
  <2> QED BY <2>1, <2>2 DEF EventsInv
<1>3. HeardInv'
  <2>1. heard' = [i \in ID |-> heard'[i]] /\ lost' = lost
    BY DEF Serve
  <2>2. ASSUME NEW i \in ID
        PROVE  \/ lost' \/ tally'[i] = 0 \/ tally'[i] \in heard'[i]
               \/ Bumped(i)' \/ \E g \in Goroutines : WillTell(g, i)'
    <3>1. CASE tally'[i] = tally[i] /\ tally'[i] # 0
      <4>1. heard'[i] = heard[i]
        BY <3>1 DEF Serve
      <4>2. Bumped(i) => Bumped(i)'
        BY <1>1 DEF Bumped, Begun
      <4>3. ASSUME NEW g \in Goroutines, WillTell(g, i)
            PROVE  WillTell(g, i)'
        BY <3>1, <4>3 DEF WillTell, Serve
      <4> QED BY <2>1, <3>1, <4>1, <4>2, <4>3 DEF HeardInv
    <3> QED BY <1>1, <3>1
  <2> QED BY <2>1, <2>2 DEF HeardInv
<1> QED BY <1>1, <1>2, <1>3

LEMMA BeginInv ==
    ASSUME Inv, NEW id \in ID, NEW m \in CheckIns, Begin(id, m), UNCHANGED backend
    PROVE  Inv'
<1> USE DEF Inv
<1>1. /\ \E n : req' = [req EXCEPT ![id] = [msg |-> m, no |-> n, call |-> FirstCall(m), subs |-> {}, ctr |-> 0]]
      /\ req[id] = NoRequest
      /\ UNCHANGED <<tally, event, heard, lost>>
  BY DEF Begin, Send, Receive, store, enrollments
<1>2. Requests' /\ Tallies'
  <2>1. \A n : IsRequest([msg |-> m, no |-> n, call |-> FirstCall(m), subs |-> {}, ctr |-> 0])
    BY DEF IsRequest, FirstCall, CheckIns, TokenCalls, BeforeBump
  <2>2. Requests' /\ req'[id].call # "WriteTally"
    <3>1. PICK n : req' = [req EXCEPT ![id] = [msg |-> m, no |-> n, call |-> FirstCall(m),
                                               subs |-> {}, ctr |-> 0]]
      BY <1>1
    <3>2. FirstCall(m) # "WriteTally"
      BY DEF FirstCall, CheckIns
    <3>3. req'[id] = [msg |-> m, no |-> n, call |-> FirstCall(m), subs |-> {}, ctr |-> 0]
      BY <3>1 DEF Requests
    <3> QED BY <2>1, <3>1, <3>2, <3>3 DEF Requests
  <2>3. \A i \in ID : i # id => req'[i] = req[i]
    BY <1>1
  <2> QED BY <1>1, <2>2, <2>3 DEF Tallies
<1>3. \A i \in ID : Bumped(i) => Bumped(i)'
  BY <1>1 DEF Bumped, Begun, Requests
<1>4. EventsInv' /\ \A g \in Goroutines, i \in ID : WillTell(g, i)' = WillTell(g, i)
  BY <1>1 DEF EventsInv, EventInv, WillTell
<1>5. HeardInv'
  BY <1>1, <1>3, <1>4 DEF HeardInv
<1> QED BY <1>2, <1>4, <1>5

(* The event of a request that is over takes the promise on.               *)
LEMMA FinishInv ==
    ASSUME Inv, NEW id \in ID, NEW g \in Goroutines, Finish(id, g), UNCHANGED backend
    PROVE  Inv'
<1> USE DEF Inv
<1>1. /\ req' = [req EXCEPT ![id] = NoRequest] /\ req[id] # NoRequest
      /\ UNCHANGED <<tally, heard, lost>>
      /\ event[g].step \in Over
      /\ runOthers(id, g, TRUE)
  BY DEF Finish, Answered, RequestFails, Respond, Fail, At, runOthers, store, enrollments,
     NoRequest
<1>2. Requests' /\ Tallies' /\ IsRequest(req[id])
  BY <1>1 DEF Requests, Tallies, NoRequest
<1>3. EventsInv'
  <2>1. EventInv(g)'
    BY <1>1 DEF EventsInv, EventInv, runOthers, Tallies
  <2>2. ASSUME NEW h \in Goroutines, h # g PROVE EventInv(h)'
    BY <1>1, <2>2 DEF EventsInv, EventInv, runOthers
  <2>3. event' = [h \in Goroutines |-> event'[h]]
    BY <1>1 DEF EventsInv, runOthers
  <2> QED BY <2>1, <2>2, <2>3 DEF EventsInv
<1>4. HeardInv'
  <2>1. ASSUME NEW i \in ID
        PROVE  \/ lost' \/ tally'[i] = 0 \/ tally'[i] \in heard'[i]
               \/ Bumped(i)' \/ \E h \in Goroutines : WillTell(h, i)'
    <3>1. CASE Bumped(i) /\ i = id
      <4>1. WillTell(g, i)'
        BY <1>1, <3>1 DEF WillTell, runOthers, Bumped, Begun, EventsInv
      <4> QED BY <4>1
    <3>2. CASE Bumped(i) /\ i # id
      BY <1>1, <3>2 DEF Bumped, Begun, Requests
    <3>3. ASSUME NEW h \in Goroutines, WillTell(h, i)
          PROVE  WillTell(h, i)'
      BY <1>1, <3>3 DEF WillTell, runOthers, Over, EventsInv
    <3> QED BY <1>1, <3>1, <3>2, <3>3 DEF HeardInv
  <2> QED BY <1>1, <2>1 DEF HeardInv
<1> QED BY <1>2, <1>3, <1>4

-----------------------------------------------------------------------------
(* The goroutines *)

LEMMA GoroutineInv ==
    ASSUME Inv, NEW g \in Goroutines, NewEvent(g) \/ Post(g) \/ EventFails(g),
           UNCHANGED backend
    PROVE  Inv'
<1> USE DEF Inv
<1>1. /\ UNCHANGED <<req, tally>>
      /\ Requests' /\ Tallies'
      /\ \A i \in ID : Bumped(i)' = Bumped(i)
  BY DEF NewEvent, Post, EventFails, store, enrollments, Requests, Tallies, Bumped, Begun
<1>2. /\ EventInv(g)
      /\ event' = [event EXCEPT ![g] = event'[g]]
      /\ \A h \in Goroutines : h # g => event'[h] = event[h]
  BY DEF NewEvent, Post, EventFails, EventsInv
<1>3. EventsInv'
  <2>1. EventInv(g)'
    <3>1. CASE NewEvent(g)
      <4> DEFINE e == event[g]
      <4>1. e.step = "start" /\ e.id \in ID /\ e.tally = 0 /\ tally[e.id] \in Nat
        BY <1>2, <3>1 DEF NewEvent, EventInv, Tallies
      <4>2. event'[g] = IF e.msg # "TokenUpdate" THEN [e EXCEPT !.step = "send"]
                        ELSE [e EXCEPT !.step = "send", !.tally = tally[e.id]]
        BY <3>1 DEF NewEvent, EventsInv, ContextDone, RetrieveTokenUpdateTally
      <4>3. event'[g] = [id |-> e.id, msg |-> e.msg, step |-> "send", atLeast |-> e.atLeast,
                         tally |-> IF e.msg # "TokenUpdate" THEN 0 ELSE tally[e.id]]
        BY <1>2, <4>1, <4>2 DEF EventInv
      <4> QED BY <1>2, <4>1, <4>3 DEF EventInv
    <3>2. CASE Post(g) \/ EventFails(g)
      BY <1>2, <3>2 DEF Post, EventFails, EventInv, NoEvent, EventsInv
    <3> QED BY <3>1, <3>2
  <2>2. \A h \in Goroutines : h # g => EventInv(h)'
    BY <1>1, <1>2 DEF EventsInv, EventInv
  <2> QED BY <1>2, <2>1, <2>2 DEF EventsInv
<1>4. HeardInv'
  <2>1. ASSUME NEW i \in ID, NEW h \in Goroutines, WillTell(h, i)
        PROVE  lost' \/ WillTell(h, i)' \/ tally'[i] \in heard'[i]
    <3>1. CASE h # g
      BY <1>1, <1>2, <2>1, <3>1 DEF WillTell
    <3>2. CASE h = g /\ NewEvent(g)
      BY <1>1, <1>2, <2>1, <3>2 DEF WillTell, NewEvent, ContextDone, RetrieveTokenUpdateTally,
         EventInv, EventsInv
    <3>3. CASE h = g /\ Post(g)
      BY <1>1, <1>2, <2>1, <3>3 DEF WillTell, Post, ContextDone, NoEvent, EventsInv, HeardInv
    <3>4. CASE EventFails(g)
      BY <3>4 DEF EventFails
    <3> QED BY <3>1, <3>2, <3>3, <3>4
  <2>2. /\ heard' = [i \in ID |-> heard'[i]] /\ (lost => lost')
        /\ \A i \in ID : heard[i] \subseteq heard'[i]
    BY DEF NewEvent, Post, EventFails, HeardInv
  <2>3. ASSUME NEW i \in ID
        PROVE  \/ lost' \/ tally'[i] = 0 \/ tally'[i] \in heard'[i]
               \/ Bumped(i)' \/ \E h \in Goroutines : WillTell(h, i)'
    <3>1. \/ lost \/ tally[i] = 0 \/ tally[i] \in heard[i]
          \/ Bumped(i) \/ \E h \in Goroutines : WillTell(h, i)
      BY DEF HeardInv
    <3>2. CASE lost \/ tally[i] = 0 \/ tally[i] \in heard[i] \/ Bumped(i)
      BY <1>1, <2>2, <3>2
    <3>3. CASE \E h \in Goroutines : WillTell(h, i)
      BY <2>1, <3>3
    <3> QED BY <3>1, <3>2, <3>3
  <2> QED BY <2>2, <2>3 DEF HeardInv
<1> QED BY <1>1, <1>3, <1>4

LEMMA InvInit == Init => Inv
<1> SUFFICES ASSUME Init PROVE Inv
  OBVIOUS
<1>1. Requests /\ Tallies /\ HeardInv
  BY DEF Init, ClientsInit, EmptyStore, Requests, Tallies, HeardInv
<1>2. EventsInv
  BY DEF Init, EventsInv, EventInv, NoEvent
<1> QED BY <1>1, <1>2 DEF Inv

LEMMA InvNext == Inv /\ [Next]_vars => Inv'
<1> SUFFICES ASSUME Inv, [Next]_vars PROVE Inv'
  OBVIOUS
<1>1. CASE UNCHANGED vars
  BY <1>1 DEF vars, clients, store, enrollments, Inv, Requests, Tallies, EventsInv, EventInv,
     HeardInv, Bumped, Begun, WillTell
<1>2. CASE Next
  BY <1>2, BeginInv, ServeInv, FinishInv, GoroutineInv, MessagesAssumption DEF Next
<1> QED BY <1>1, <1>2

LEMMA InvHolds == Spec => []Inv
BY InvInit, InvNext, PTL DEF Spec

(* A TokenUpdate's event tells a tally that counts it, although it is read *)
(* after the client has its answer (service/webhook/webhook.go), for any   *)
(* number of goroutines, enrollments and TokenUpdates, on the SQL and the  *)
(* key-value storages.                                                     *)
THEOREM TallyCountsCorrect == Spec => []TallyCounts
<1>1. Inv => TallyCounts
  BY DEF Inv, EventsInv, EventInv, TallyCounts
<1> QED BY <1>1, InvHolds, PTL

(* Once all is quiet the webhook has heard the tallies of all enrollments: *)
(* of the goroutines that nothing orders, one that reads late tells what   *)
(* the others missed (service/multi/multi.go, runOthers).                  *)
THEOREM HeardOfAllCorrect == Spec => []HeardOfAll
<1>1. Inv => HeardOfAll
  BY DEF Inv, HeardInv, WillTell, Bumped, Begun, Over, HeardOfAll
<1> QED BY <1>1, InvHolds, PTL

=============================================================================
