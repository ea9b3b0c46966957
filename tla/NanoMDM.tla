------------------------------ MODULE NanoMDM ------------------------------
(***************************************************************************)
(* The NanoMDM core service (service/nanomdm/service.go) on its SQL        *)
(* storage (storage/mysql, storage/pgsql).                                 *)
(*                                                                         *)
(* Every HTTP request runs in a goroutine of its own (a thread here) and   *)
(* makes its storage calls one after the other; each storage call is one   *)
(* SQL statement or one transaction, hence one atomic step.  Between two   *)
(* calls of a request the calls of other requests run, and a request may   *)
(* be cut short: the database may fail, or the client may disconnect,      *)
(* which cancels the request's context.                                    *)
(*                                                                         *)
(* The enrollments (the MDM clients) are the environment.  They answer the *)
(* command they were given with NotNow or with a final status, they resend *)
(* an answer that got an error, and they send one request at a time unless *)
(* Overlap is TRUE.                                                        *)
(***************************************************************************)
EXTENDS Integers

CONSTANTS
    Devices,     \* device channel enrollment IDs
    Users,       \* user channel enrollment IDs
    ParentID,    \* ParentID[u] is the device of user channel u
    UUIDs,       \* command UUIDs
    Threads,     \* requests the server may be handling at once
    None,        \* no ID, or no UUID
    Backend,     \* "mysql" or "pgsql"
    rm,          \* the delete=1 storage option: delete answered commands
    Overlap,     \* may a client have two requests in flight?
    Messages,    \* the messages clients send in this instance
    MaxTally,    \* bound on the TokenUpdate tally
    MaxClock,    \* bound on created_at timestamps
    MaxFail      \* bound on database failures and lost connections

ID == Devices \cup Users

CheckIns == {"Authenticate", "TokenUpdate", "CheckOut",
             "SetBootstrapToken", "GetBootstrapToken"}

ASSUME ConstantsAssumption ==
    /\ Devices \cap Users = {}
    /\ ParentID \in [Users -> Devices]
    /\ None \notin ID \cup UUIDs
    /\ Backend \in {"mysql", "pgsql"}
    /\ rm \in BOOLEAN
    /\ Overlap \in BOOLEAN
    \* Without a lock pgsql's deletion is not one atomic step; DeleteCommand
    \* models it statement by statement.
    /\ rm => Backend = "mysql"
    /\ Messages \subseteq CheckIns \cup {"CommandResults"}
    /\ MaxTally \in Nat /\ MaxClock \in Nat /\ MaxFail \in Nat

VARIABLES
    devices,     \* rows of the devices table
    bootstrap,   \* the devices rows with a bootstrap token
    enrolled,    \* rows of the enrollments table
    enabled,     \* the enrollments rows with enabled = 1
    tally,       \* token_update_tally
    commands,    \* rows of the commands table
    created,     \* created_at of a command's enrollment_queue rows
    queue,       \* queue[id]: the enrollment_queue rows of id
    active,      \* active[id]: those with active = 1
    result,      \* result[id][uuid]: status in command_results, or "NULL"
    clock,       \* the database clock
    req,         \* req[t]: the request thread t is handling
    fails,       \* failures so far
    \* What the clients know.
    belief,      \* where client id thinks its enrollment stands
    escrow,      \* what device d knows of its bootstrap token
    holding,     \* the answer client id has to give next
    \* History, for the properties.
    current,     \* commands queued since the last ClearQueue of the device
    delivered,   \* commands given to id, over the life of their queue row
    acked,       \* commands with a final status of id, since they were queued
    updated      \* TokenUpdate stored since the device last began to leave

enrollVars == <<devices, bootstrap, enrolled, enabled, tally>>
queueVars  == <<commands, created, queue, active, result, clock,
                current, delivered, acked>>
clientVars == <<belief, escrow, holding>>
vars == <<enrollVars, queueVars, clientVars, updated, req, fails>>

Statuses == {"Idle", "NotNow", "Acknowledged"}

(* The storage call a request makes next. *)
Calls == {"StoreAuthenticate", "ClearQueue", "Disable", "StoreTokenUpdate",
          "StoreBootstrapToken", "RetrieveBootstrapToken",
          "StoreCommandReport", "RetrieveNextCommand", "respond"}

FirstCall(m) ==
    CASE m = "Authenticate"      -> "StoreAuthenticate"
      [] m = "TokenUpdate"       -> "StoreTokenUpdate"
      [] m = "CheckOut"          -> "Disable"
      [] m = "SetBootstrapToken" -> "StoreBootstrapToken"
      [] m = "GetBootstrapToken" -> "RetrieveBootstrapToken"
      [] m = "CommandResults"    -> "StoreCommandReport"

Request == [msg: CheckIns \cup {"CommandResults"}, id: ID, call: Calls,
            status: Statuses, uuid: UUIDs \cup {None},
            next: UUIDs \cup {None}]

Answer == [uuid: UUIDs \cup {None}, status: Statuses \cup {"undecided"}]

NoRequest == [call |-> "none"]

NoAnswer == [uuid |-> None, status |-> "Idle"]

DeviceOf(id) == IF id \in Devices THEN id ELSE ParentID[id]

(* A device and the user channels whose enrollments row has its device_id. *)
Channels(d) == {id \in ID : DeviceOf(id) = d}

Pending(id, u) == result[id][u] \in {"NULL", "NotNow"}

TypeOK ==
    /\ devices \subseteq ID
    /\ bootstrap \subseteq devices
    /\ enrolled \subseteq ID
    /\ enabled \subseteq enrolled
    /\ tally \in [ID -> 0 .. MaxTally]
    /\ commands \subseteq UUIDs
    /\ created \in [UUIDs -> 0 .. MaxClock]
    /\ queue \in [ID -> SUBSET UUIDs]
    /\ active \in [ID -> SUBSET UUIDs]
    /\ result \in [ID -> [UUIDs -> {"NULL", "NotNow", "Acknowledged"}]]
    /\ clock \in 0 .. MaxClock
    /\ req \in [Threads -> Request \cup {NoRequest}]
    /\ fails \in 0 .. MaxFail
    /\ belief \in [ID -> {"out", "leaving", "authed", "updating", "enrolled"}]
    /\ escrow \in [ID -> {"none", "sent", "stored"}]
    /\ holding \in [ID -> Answer]
    /\ current \in [ID -> SUBSET UUIDs]
    /\ delivered \in [ID -> SUBSET UUIDs]
    /\ acked \in [ID -> SUBSET UUIDs]
    /\ updated \subseteq ID

Init ==
    /\ devices = {}
    /\ bootstrap = {}
    /\ enrolled = {}
    /\ enabled = {}
    /\ tally = [id \in ID |-> 0]
    /\ commands = {}
    /\ created = [u \in UUIDs |-> 0]
    /\ queue = [id \in ID |-> {}]
    /\ active = [id \in ID |-> {}]
    /\ result = [id \in ID |-> [u \in UUIDs |-> "NULL"]]
    /\ clock = 0
    /\ req = [t \in Threads |-> NoRequest]
    /\ fails = 0
    /\ belief = [id \in ID |-> "out"]
    /\ escrow = [id \in ID |-> "none"]
    /\ holding = [id \in ID |-> NoAnswer]
    /\ current = [id \in ID |-> {}]
    /\ delivered = [id \in ID |-> {}]
    /\ acked = [id \in ID |-> {}]
    /\ updated = {}

-----------------------------------------------------------------------------
(***************************************************************************)
(* The clients send requests.                                              *)
(***************************************************************************)

InFlight(t, id) == req[t] # NoRequest /\ req[t].id = id

MaySend(id) == Overlap \/ \A t \in Threads : ~InFlight(t, id)

(* Devices enroll, then use the enrollment; a device only sends a          *)
(* TokenUpdate or escrows a token once its Authenticate succeeded.  User   *)
(* channels come and go as people log in, unaware of the device channel.   *)
Permitted(id, m) ==
    CASE m = "Authenticate"      -> id \in Devices
      [] m = "TokenUpdate"       -> \/ id \in Users
                                    \/ belief[id] \in {"authed", "updating",
                                                       "enrolled"}
      [] m = "CheckOut"          -> belief[id] # "out"
      [] m = "SetBootstrapToken" -> belief[id] \in {"authed", "updating",
                                                    "enrolled"} /\ id \in Devices
      [] m = "GetBootstrapToken" -> id \in Devices

BeliefWhenSent(id, m) ==
    CASE m \in {"Authenticate", "CheckOut"} -> "leaving"
      [] m = "TokenUpdate" /\ belief[id] # "enrolled" -> "updating"
      [] OTHER -> belief[id]

BeliefWhenDone(id, m) ==
    CASE m = "Authenticate" -> "authed"
      [] m = "TokenUpdate"  -> "enrolled"
      [] m = "CheckOut"     -> "out"
      [] OTHER -> belief[id]

Receive(t, id, m, s, u) ==
    /\ req[t] = NoRequest
    /\ req' = [req EXCEPT ![t] = [msg |-> m, id |-> id, call |-> FirstCall(m),
                                  status |-> s, uuid |-> u, next |-> None]]

CheckIn(t, id, m) ==
    /\ m \in Messages
    /\ m = "TokenUpdate" => tally[id] < MaxTally
    /\ MaySend(id)
    /\ Permitted(id, m)
    /\ Receive(t, id, m, "Idle", None)
    /\ belief' = [belief EXCEPT ![id] = BeliefWhenSent(id, m)]
    /\ escrow' = [escrow EXCEPT ![id] =
                    CASE m = "Authenticate" -> "none"
                      [] m = "SetBootstrapToken" -> "sent"
                      [] OTHER -> @]
    /\ updated' = IF m \in {"Authenticate", "CheckOut"}
                  THEN updated \ Channels(id) ELSE updated
    /\ UNCHANGED <<enrollVars, queueVars, holding, fails>>

(* With no command to answer a client reports Idle; otherwise it answers   *)
(* the command it holds, the same way again when the first answer failed.  *)
Report(t, id, s) ==
    /\ "CommandResults" \in Messages
    /\ MaySend(id)
    /\ \/ holding[id].status = s
       \/ holding[id].status = "undecided" /\ s # "Idle"
    /\ Receive(t, id, "CommandResults", s, holding[id].uuid)
    /\ holding' = [holding EXCEPT ![id].status = s]
    /\ UNCHANGED <<enrollVars, queueVars, belief, escrow, updated, fails>>

-----------------------------------------------------------------------------
(***************************************************************************)
(* The storage calls of a request.                                         *)
(***************************************************************************)

At(t, call) == req[t] # NoRequest /\ req[t].call = call

Then(t, call) == req' = [req EXCEPT ![t].call = call]

StoreAuthenticateKeepingBootstrap(t) ==     \* a mutant
    /\ At(t, "StoreAuthenticate")
    /\ devices' = devices \cup {req[t].id}
    /\ Then(t, "ClearQueue")
    /\ UNCHANGED <<bootstrap, enrolled, enabled, tally, queueVars, clientVars,
                   updated, fails>>

StoreAuthenticate(t) ==
    /\ At(t, "StoreAuthenticate")
    /\ devices' = devices \cup {req[t].id}
    /\ bootstrap' = bootstrap \ {req[t].id}
    /\ Then(t, "ClearQueue")
    /\ UNCHANGED <<enrolled, enabled, tally, queueVars, clientVars, updated, fails>>

(* The queue rows the UPDATE of ClearQueue makes inactive.  The pgsql      *)
(* statement joins the updated table with itself on the enrollment ID      *)
(* only: one unanswered row of an enrollment, active or not, takes all of  *)
(* the enrollment's active rows with it.                                   *)
ClearedMySQL(id) == {u \in active[id] : Pending(id, u)}

ClearedPgSQL(id) ==
    {u \in active[id] : \E v \in queue[id] : Pending(id, v)}

Cleared(id) == IF Backend = "mysql" THEN ClearedMySQL(id) ELSE ClearedPgSQL(id)

(* The enrollments ClearQueue and Disable reach, by their device_id. *)
ClearedRowsOfDeviceOnly(d) == {d} \cap enrolled     \* a mutant

ClearedRows(d) == {id \in enrolled : DeviceOf(id) = d}

DisabledRowsOfDeviceOnly(d) == {d} \cap enabled     \* a mutant

DisabledRows(d) == {id \in enabled : DeviceOf(id) = d}

ClearQueue(t) ==
    /\ At(t, "ClearQueue")
    /\ req[t].id \in Devices
    /\ active' = [id \in ID |-> IF id \in ClearedRows(req[t].id)
                                THEN active[id] \ Cleared(id)
                                ELSE active[id]]
    /\ current' = [id \in ID |-> IF id \in Channels(req[t].id)
                                 THEN {} ELSE current[id]]
    /\ Then(t, "Disable")
    /\ UNCHANGED <<enrollVars, commands, created, queue, result, clock,
                   delivered, acked, clientVars, updated, fails>>

Disable(t) ==
    /\ At(t, "Disable")
    /\ req[t].id \in Devices
    /\ enabled' = enabled \ DisabledRows(req[t].id)
    /\ tally' = [id \in ID |-> IF id \in DisabledRows(req[t].id)
                               THEN 0 ELSE tally[id]]
    /\ Then(t, "respond")
    /\ UNCHANGED <<devices, bootstrap, enrolled, queueVars, clientVars, updated, fails>>

(* The upsert of the enrollments row, which counts the TokenUpdates. *)
upsertEnrollmentNotEnabling(id) ==     \* a mutant
    /\ enrolled' = enrolled \cup {id}
    /\ enabled' = IF id \in enrolled THEN enabled ELSE enabled \cup {id}
    /\ tally' = [tally EXCEPT ![id] = IF id \in enrolled THEN @ + 1 ELSE 1]

upsertEnrollmentCountingFromZero(id) ==     \* a mutant
    /\ enrolled' = enrolled \cup {id}
    /\ enabled' = enabled \cup {id}
    /\ tally' = [tally EXCEPT ![id] = IF id \in enrolled THEN @ + 1 ELSE 0]

updateEnrollment(id) ==     \* a mutant
    /\ enabled' = enabled \cup {id}
    /\ tally' = [tally EXCEPT ![id] = @ + 1]
    /\ UNCHANGED enrolled

upsertEnrollment(id) ==
    /\ enrolled' = enrolled \cup {id}
    /\ enabled' = enabled \cup {id}
    /\ tally' = [tally EXCEPT ![id] = IF id \in enrolled THEN @ + 1 ELSE 1]

(* The row's device_id must be in devices. *)
StoreTokenUpdate(t) ==
    LET id == req[t].id IN
    /\ At(t, "StoreTokenUpdate")
    /\ DeviceOf(id) \in devices
    /\ tally[id] < MaxTally
    /\ upsertEnrollment(id)
    /\ Then(t, "respond")
    /\ updated' = updated \cup {id}
    /\ UNCHANGED <<devices, bootstrap, queueVars, clientVars, fails>>

(* An UPDATE: with no devices row it stores nothing and reports success. *)
StoreBootstrapToken(t) ==
    /\ At(t, "StoreBootstrapToken")
    /\ bootstrap' = bootstrap \cup ({req[t].id} \cap devices)
    /\ Then(t, "respond")
    /\ UNCHANGED <<devices, enrolled, enabled, tally, queueVars, clientVars, updated, fails>>

RetrieveBootstrapToken(t) ==
    /\ At(t, "RetrieveBootstrapToken")
    /\ req[t].id \in devices
    /\ Then(t, "respond")
    /\ UNCHANGED <<enrollVars, queueVars, clientVars, updated, fails>>

(* Neither enrollment_queue rows q nor command_results rows r refer to u. *)
UnreferencedByAnyone(u, q, r) == TRUE     \* a mutant

Unreferenced(u, q, r) == \A e \in ID : u \notin q[e] /\ r[e][u] = "NULL"

(* deleteCommand: the queue row and its result go, and the command itself  *)
(* once no queue row and no result refers to it.                           *)
deleteCommand(id, u) ==
    LET q == [queue EXCEPT ![id] = @ \ {u}]
        r == [result EXCEPT ![id][u] = IF u \in queue[id] THEN "NULL" ELSE @]
    IN  /\ queue' = q
        /\ active' = [active EXCEPT ![id] = @ \ {u}]
        /\ result' = r
        /\ commands' = IF Unreferenced(u, q, r) THEN commands \ {u} ELSE commands
        /\ delivered' = [delivered EXCEPT ![id] = @ \ {u}]
        /\ current' = [current EXCEPT ![id] = @ \ {u}]

(* The foreign keys of a command_results row. *)
ResultKeysExist(id, u) == id \in enrolled /\ u \in commands

insertResult(id, u, s) ==     \* a mutant
    /\ ResultKeysExist(id, u)
    /\ result' = [result EXCEPT ![id][u] = IF @ = "NULL" THEN s ELSE @]
    /\ UNCHANGED <<commands, queue, active, current, delivered>>

upsertResult(id, u, s) ==
    /\ ResultKeysExist(id, u)
    /\ result' = [result EXCEPT ![id][u] = s]
    /\ UNCHANGED <<commands, queue, active, current, delivered>>

StoreCommandReport(t) ==
    LET id == req[t].id
        u  == req[t].uuid
        s  == req[t].status
    IN  /\ At(t, "StoreCommandReport")
        /\ \/ /\ s = "Idle"
              /\ UNCHANGED queueVars
           \/ /\ s = "NotNow"
              /\ upsertResult(id, u, s)
              /\ UNCHANGED <<created, clock, acked>>
           \/ /\ s = "Acknowledged"
              /\ IF rm THEN deleteCommand(id, u) ELSE upsertResult(id, u, s)
              /\ acked' = [acked EXCEPT ![id] = @ \cup {u}]
              /\ UNCHANGED <<created, clock>>
        /\ Then(t, "RetrieveNextCommand")
        /\ UNCHANGED <<enrollVars, clientVars, updated, fails>>

(* The rows of the SELECT, skipping the NotNow ones right after a NotNow. *)
EligibleNeverSkipping(id, skipNotNow) ==     \* a mutant
    {u \in active[id] : result[id][u] \in {"NULL", "NotNow"}}

Eligible(id, skipNotNow) ==
    {u \in active[id] : \/ result[id][u] = "NULL"
                        \/ result[id][u] = "NotNow" /\ ~skipNotNow}

(* ORDER BY created_at LIMIT 1; rows of the same time come in any order. *)
AnyOf(S) == S     \* a mutant

Oldest(S) == {u \in S : \A v \in S : created[u] <= created[v]}

RetrieveNextCommand(t) ==
    LET id == req[t].id
        S  == Eligible(id, req[t].status = "NotNow")
    IN  /\ At(t, "RetrieveNextCommand")
        /\ \/ /\ S = {}
              /\ req' = [req EXCEPT ![t].call = "respond"]
              /\ UNCHANGED delivered
           \/ \E u \in Oldest(S) :
                /\ req' = [req EXCEPT ![t].call = "respond", ![t].next = u]
                /\ delivered' = [delivered EXCEPT ![id] = @ \cup {u}]
        /\ UNCHANGED <<enrollVars, commands, created, queue, active, result,
                       clock, current, acked, clientVars, updated, fails>>

-----------------------------------------------------------------------------
(***************************************************************************)
(* The end of a request.                                                   *)
(***************************************************************************)

Respond(t) ==
    LET id == req[t].id
        m  == req[t].msg
    IN  /\ At(t, "respond")
        /\ req' = [req EXCEPT ![t] = NoRequest]
        /\ belief' = [belief EXCEPT ![id] = BeliefWhenDone(id, m)]
        /\ escrow' = [escrow EXCEPT ![id] =
                        IF m = "SetBootstrapToken" THEN "stored" ELSE @]
        /\ holding' = [holding EXCEPT ![id] =
                        IF m # "CommandResults" THEN @
                        ELSE IF req[t].next = None THEN NoAnswer
                        ELSE [uuid |-> req[t].next, status |-> "undecided"]]
        /\ UNCHANGED <<enrollVars, queueVars, updated, fails>>

(* The storage call fails for what is, or is not, in the database. *)
CallFails(t) ==
    LET id == req[t].id IN
    \/ At(t, "ClearQueue") /\ id \notin Devices
    \/ At(t, "Disable") /\ id \notin Devices
    \/ At(t, "StoreTokenUpdate") /\ DeviceOf(id) \notin devices
    \/ At(t, "RetrieveBootstrapToken") /\ id \notin devices
    \/ /\ At(t, "StoreCommandReport")
       /\ req[t].status # "Idle" /\ ~(rm /\ req[t].status = "Acknowledged")
       /\ ~ResultKeysExist(id, req[t].uuid)

(* Any other error: the database is unreachable, or the client is gone.    *)
(* A client whose answer failed may also start over with Idle.             *)
Abort(t) ==
    /\ req[t] # NoRequest
    /\ \/ CallFails(t) /\ UNCHANGED fails
       \/ fails < MaxFail /\ fails' = fails + 1
    /\ req' = [req EXCEPT ![t] = NoRequest]
    /\ \/ UNCHANGED holding
       \/ /\ req[t].msg = "CommandResults"
          /\ holding' = [holding EXCEPT ![req[t].id] = NoAnswer]
    /\ UNCHANGED <<enrollVars, queueVars, belief, escrow, updated>>

-----------------------------------------------------------------------------
(***************************************************************************)
(* The API enqueues a command for a set of enrollments: one transaction,   *)
(* rolled back when the UUID exists or an enrollment does not.             *)
(***************************************************************************)
NewCommand(ids, u) == u \notin commands     \* a mutant

EnqueueKeysExist(ids, u) == u \notin commands /\ ids \subseteq enrolled

EnqueueCommand(ids, u) ==
    /\ ids # {}
    /\ EnqueueKeysExist(ids, u)
    /\ commands' = commands \cup {u}
    /\ queue'   = [id \in ID |-> IF id \in ids THEN queue[id] \cup {u} ELSE queue[id]]
    /\ active'  = [id \in ID |-> IF id \in ids THEN active[id] \cup {u} ELSE active[id]]
    /\ current' = [id \in ID |-> IF id \in ids THEN current[id] \cup {u} ELSE current[id]]
    /\ acked'   = [id \in ID |-> IF id \in ids THEN acked[id] \ {u} ELSE acked[id]]
    /\ \E now \in clock .. MaxClock :
         /\ now <= clock + 1
         /\ clock' = now
         /\ created' = [created EXCEPT ![u] = now]
    /\ UNCHANGED <<enrollVars, result, delivered, clientVars, updated, req, fails>>

-----------------------------------------------------------------------------
StorageCall(t) ==
    \/ StoreAuthenticate(t) \/ ClearQueue(t) \/ Disable(t)
    \/ StoreTokenUpdate(t)
    \/ StoreBootstrapToken(t) \/ RetrieveBootstrapToken(t)
    \/ StoreCommandReport(t) \/ RetrieveNextCommand(t)

Next ==
    \/ \E t \in Threads, id \in ID, m \in CheckIns : CheckIn(t, id, m)
    \/ \E t \in Threads, id \in ID, s \in Statuses : Report(t, id, s)
    \/ \E t \in Threads : StorageCall(t) \/ Respond(t) \/ Abort(t)
    \/ \E ids \in SUBSET ID, u \in UUIDs : EnqueueCommand(ids, u)

Spec == Init /\ [][Next]_vars

(* Goroutines run and the database answers; a client that was pushed       *)
(* connects again and again, and goes through its session.                 *)
Fairness ==
    /\ \A t \in Threads : WF_vars(StorageCall(t) \/ Respond(t))
    /\ \A t \in Threads : WF_vars(CallFails(t) /\ Abort(t))
    /\ \A id \in ID : SF_vars(\E t \in Threads, s \in Statuses : Report(t, id, s))

FairSpec == Spec /\ Fairness

-----------------------------------------------------------------------------
(***************************************************************************)
(* Properties.                                                             *)
(***************************************************************************)

(* Only an Idle report answers no command. *)
AnswersMatch ==
    /\ \A id \in ID : holding[id].uuid = None <=> holding[id].status = "Idle"
    /\ \A t \in Threads : req[t] # NoRequest =>
         (req[t].uuid = None <=> req[t].status = "Idle")

(* What RetrieveNextCommand may return for id now or later. *)
Deliverable(id) == {u \in active[id] : Pending(id, u)}

(* An enrollment is enabled exactly when its tally counts TokenUpdates:    *)
(* the upsert of StoreTokenUpdate and the UPDATE of Disable keep the two   *)
(* columns of an enrollments row together, and only an enrollment of a     *)
(* device that authenticated has a row at all.                             *)
EnabledIffTally ==
    /\ \A id \in ID : id \in enabled <=> tally[id] > 0
    /\ \A id \in enrolled : DeviceOf(id) \in devices

(* The foreign keys hold, and no command is left without a queue row or a  *)
(* result: what deleteCommand and EnqueueCommand do to the three tables.   *)
QueueIntegrity ==
    /\ \A id \in ID :
         /\ active[id] \subseteq queue[id]
         /\ queue[id] \subseteq commands
         /\ queue[id] # {} => id \in enrolled
         /\ \A u \in UUIDs : result[id][u] # "NULL" => ResultKeysExist(id, u)
    /\ \A u \in commands : \E id \in ID : u \in queue[id] \/ result[id][u] # "NULL"

(* "this prevents queued commands still being queued after device          *)
(* unenrollment" (Authenticate in service.go): once ClearQueue ran, no     *)
(* command that was queued before it can be delivered, to the device or to *)
(* its user channels, whatever is reported or enqueued meanwhile.          *)
NoStaleCommand == \A id \in ID : Deliverable(id) \subseteq current[id]

(* A command with a final status is never delivered to the enrollment      *)
(* again, though later NotNow reports overwrite statuses and answers are   *)
(* resent after lost responses.                                            *)
NoRedelivery == \A id \in ID : Deliverable(id) \cap acked[id] = {}

(* Why the two hold for a client that sends one request at a time: the     *)
(* report being handled is the one answer the client owes, and what is     *)
(* not answered for good has no final status.                              *)
OneRequestEach ==
    \A id \in ID : \A t1, t2 \in Threads :
        InFlight(t1, id) /\ InFlight(t2, id) => t1 = t2

ReportsHolding ==
    \A t \in Threads : req[t] # NoRequest =>
        /\ \/ req[t].call \in {"StoreCommandReport", "RetrieveNextCommand"}
           \/ req[t].next # None
           => req[t].msg = "CommandResults"
        /\ req[t].call # "respond" => req[t].next = None
        /\ req[t].msg = "CommandResults" =>
             holding[req[t].id] = [uuid |-> req[t].uuid, status |-> req[t].status]

UnansweredNotAcked ==
    /\ \A id \in ID : holding[id].status \in {"undecided", "NotNow"} =>
                      holding[id].uuid \notin acked[id]
    /\ \A t \in Threads : req[t] # NoRequest => req[t].next \notin acked[req[t].id]
    /\ \A id \in ID, u \in UUIDs : result[id][u] = "Acknowledged" => u \in acked[id]

DeliveryInv ==
    /\ OneRequestEach /\ ReportsHolding /\ UnansweredNotAcked
    /\ NoStaleCommand /\ NoRedelivery

(* RetrieveNextCommand gives an enrollment its commands in the order they  *)
(* were enqueued: none overtakes an older one that is still active, with   *)
(* NotNow answers and skipNotNow in between.                               *)
FirstDeliveryInOrder ==
    \A id \in ID : \A u \in active[id], v \in delivered[id] :
        created[u] < created[v] => u \in delivered[id]

(* The server agrees with the device: after a successful TokenUpdate the   *)
(* enrollment is enabled until the device leaves; after a successful       *)
(* Authenticate or CheckOut it is disabled until the next TokenUpdate.     *)
ServerKnowsEnrollment ==
    \A d \in Devices :
        /\ belief[d] = "enrolled" => d \in enabled
        /\ belief[d] \in {"authed", "out"} => d \notin enabled

(* "disable the enrollment or any sub-enrollment (because an enrollment is *)
(* only valid after a tokenupdate)": once the device's Authenticate or     *)
(* CheckOut was answered, a channel is enabled only by a TokenUpdate of    *)
(* its own stored since that message was sent.                             *)
EnabledSinceUpdate ==
    \A id \in enabled : belief[DeviceOf(id)] # "leaving" => id \in updated

(* The bootstrap token the server holds is that of the device's current    *)
(* enrollment: stored when the device was told so, and none from before    *)
(* the last successful Authenticate.                                       *)
EscrowOfEnrollment ==
    \A d \in Devices : belief[d] \in {"authed", "updating", "enrolled"} =>
        /\ escrow[d] = "stored" => d \in bootstrap
        /\ escrow[d] = "none" => d \notin bootstrap

(* Every queued command reaches its enrollment, unless it is cleared       *)
(* first, even if the client answers NotNow to everything: the skipNotNow  *)
(* argument of RetrieveNextCommand keeps a postponed command from blocking *)
(* the ones behind it.                                                     *)
EveryCommandDelivered ==
    \A id \in ID, u \in UUIDs :
        u \in active[id] /\ result[id][u] = "NULL"
          ~> (holding[id].uuid = u \/ result[id][u] # "NULL" \/ u \notin active[id])

=============================================================================
