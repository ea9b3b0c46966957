------------------------------- MODULE Webhook -------------------------------
(***************************************************************************)
(* The webhook (service/webhook) beside the core service: the multi        *)
(* service (service/multi) has the core service handle a request, starts   *)
(* a goroutine that posts an event about it, whatever came of it, and      *)
(* lets the client have its answer.  The event of a TokenUpdate carries    *)
(* the tally the goroutine then finds in the storage.  Nothing orders the  *)
(* goroutines, and an event that could not be posted is lost.              *)
(***************************************************************************)
EXTENDS Checkins

CONSTANTS
    Messages,    \* bound: the check-in messages clients send
    Goroutines   \* bound: the goroutines there are at a time

ASSUME MessagesAssumption == Messages \subseteq CheckIns

VARIABLES
    event,       \* the event of each goroutine, and how far it has got
    heard,       \* tallies of id posted since its tally was last reset
    lost         \* an event was lost

vars == <<backend, store, blank, req, clients, event, heard, lost>>

Over == {"posted", "error", "cancelled"}

Events == [id : ID, msg : CheckIns, step : {"start", "send"} \cup Over,
           tally : Nos,      \* the tally it carries
           atLeast : Nos]    \* the tally its request stored, 0 if void by now

NoEvent(how) == [id |-> CHOOSE id \in ID : TRUE, msg |-> "CheckOut", step |-> how,
                 tally |-> 0, atLeast |-> 0]

TypeOK ==
    /\ ClientsTypeOK /\ event \in [Goroutines -> Events]
    /\ heard \in [ID -> SUBSET Nos] /\ lost \in BOOLEAN

Init ==
    /\ ClientsInit
    /\ event = [g \in Goroutines |-> NoEvent("posted")]
    /\ heard = [id \in ID |-> {}] /\ lost = FALSE

-----------------------------------------------------------------------------
Begin(id, m) ==
    /\ Send(id, m)
    /\ UNCHANGED <<event, heard, lost>>

(* The tally of an enrollment that is void begins anew; while one is bumped *)
(* its file is empty for now.                                              *)
BeginsAnew(id) ==
    tally'[id] < tally[id] /\ ~ (backend = "file" /\ req[id].call = "BumpTally")

Serve(id) ==
    /\ Handle(id)
    /\ heard' = [i \in ID |-> IF tally'[i] = 0 THEN {} ELSE heard[i]]
    /\ event' = [g \in Goroutines |->
          IF BeginsAnew(event[g].id) THEN [event[g] EXCEPT !.atLeast = 0] ELSE event[g]]
    /\ UNCHANGED lost

(* Once the core service is done, with an error or without: runOthers *)
runOthersIfOK(id, g, failed) ==     \* a mutant
    IF failed THEN UNCHANGED event
    ELSE event' = [event EXCEPT ![g] =
            [id |-> id, msg |-> req[id].msg, step |-> "start", tally |-> 0,
             atLeast |-> 0]]

runOthers(id, g, failed) ==
    event' = [event EXCEPT ![g] =
        [id |-> id, msg |-> req[id].msg, step |-> "start", tally |-> 0,
         atLeast |-> IF req[id].msg = "TokenUpdate" /\ At(id, "respond")
                     THEN tally[id] ELSE 0]]

Finish(id, g) ==
    /\ event[g].step \in Over
    /\ \/ Answered(id) /\ runOthers(id, g, FALSE)
       \/ RequestFails(id) /\ runOthers(id, g, TRUE)
    /\ UNCHANGED <<heard, lost>>

-----------------------------------------------------------------------------
(* The request's own context is done soon after its handler returned, the  *)
(* one multi derives from it (ContextWithoutCancel) never is.              *)
DoneWithRequest(g) == TRUE     \* a mutant

ContextDone(g) == FALSE

TallyOfDevice(id) ==     \* a mutant
    IF id \in Users THEN tally[ParentID[id]] ELSE tally[id]

RetrieveTokenUpdateTally(id) == tally[id]

NewEvent(g) ==
    LET e == event[g] IN
    /\ e.step = "start"
    /\ event' = [event EXCEPT ![g] =
          IF e.msg # "TokenUpdate" THEN [e EXCEPT !.step = "send"]
          ELSE IF ContextDone(g) THEN NoEvent("cancelled")
          ELSE [e EXCEPT !.step = "send", !.tally = RetrieveTokenUpdateTally(e.id)]]
    /\ lost' = (lost \/ event'[g].step = "cancelled")
    /\ UNCHANGED <<store, blank, req, clients, heard>>

Post(g) ==
    /\ event[g].step = "send"
    /\ event' = [event EXCEPT ![g] = NoEvent(IF ContextDone(g) THEN "cancelled" ELSE "posted")]
    /\ heard' = IF event[g].msg = "TokenUpdate" /\ event'[g].step = "posted"
                THEN [heard EXCEPT ![event[g].id] = @ \cup {event[g].tally}] ELSE heard
    /\ lost' = (lost \/ event'[g].step = "cancelled")
    /\ UNCHANGED <<store, blank, req, clients>>

(* The tally cannot be read, or the webhook's server does not answer 200:  *)
(* the error is logged, and that is all.                                   *)
EventFails(g) ==
    /\ event[g].step \notin Over
    /\ fails < MaxFail /\ fails' = fails + 1
    /\ event' = [event EXCEPT ![g] = NoEvent("error")] /\ lost' = TRUE
    /\ UNCHANGED <<store, blank, req, belief, told, escrow, escrowed, tries, oks, updated,
                   sent, heard>>

Next ==
    /\ \/ \E id \in ID :
             \/ \E m \in Messages : Begin(id, m)
             \/ Serve(id)
             \/ \E g \in Goroutines : Finish(id, g)
       \/ \E g \in Goroutines : NewEvent(g) \/ Post(g) \/ EventFails(g)
    /\ UNCHANGED backend

(* The goroutine goes on, whatever the requests do. *)
Proceeds(g) == (NewEvent(g) \/ Post(g)) /\ UNCHANGED backend

Spec == Init /\ [][Next]_vars /\ \A g \in Goroutines : WF_vars(Proceeds(g))

-----------------------------------------------------------------------------
(* "Count of how many TokenUpdate check-in messages have occured since     *)
(* device enrollment" (service/webhook/event.go): the tally an event       *)
(* carries, read once the client has its answer and other requests may be  *)
(* under way, counts the TokenUpdate the event is about and those before   *)
(* it, unless the enrollment is void by now.  In the file backend the      *)
(* goroutine may read the empty file of a bump under way, as 0.            *)
TallyCounts ==
    backend # "file" => \A g \in Goroutines :
        event[g].step = "send" => event[g].tally >= event[g].atLeast

(* When no goroutine and no request is under way and no event was lost,    *)
(* the webhook has heard the tally as it stands, the one of a TokenUpdate  *)
(* that was stored and yet answered with an error included.                *)
HeardOfAll ==
    (\A g \in Goroutines : event[g].step \in Over) /\ (\A id \in ID : req[id] = NoRequest)
        /\ ~ lost
    => \A id \in ID : tally[id] \in heard[id] \cup {0}

(* Every request's event is posted, or an error is logged: it does not go  *)
(* with the request, whose context is done as soon as the client has its   *)
(* answer.                                                                 *)
EventPosted ==
    \A g \in Goroutines :
        event[g].step \notin Over ~> event[g].step \in {"posted", "error"}

=============================================================================
