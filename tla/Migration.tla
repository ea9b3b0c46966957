------------------------------ MODULE Migration ------------------------------
(***************************************************************************)
(* The migration of a server's enrollments.  The server stops, with        *)
(* requests under way; nano2nano (cmd/nano2nano) has the storage walk its  *)
(* keys, rows or directories (RetrieveMigrationCheckins in storage/kv,     *)
(* mysql, pgsql and file) and puts the check-in messages it finds, one     *)
(* after the other, to the migration endpoint of another server, the       *)
(* target, which is on key-value storage and handles them like any others. *)
(***************************************************************************)
EXTENDS Checkins

CONSTANT None    \* no device

ASSUME NoneAssumption == None \notin ID

VARIABLES
    walk,        \* where the walk is
    clean,       \* no error so far of a storage or the target, in this run
                 \* of nano2nano
    \* the target's storage
    tAuth, tBstoken, tTok, tUserAuth, tDisabled, tTally, tPush, tChannels, tReq

source == <<backend, store, blank, req, clients>>
target == <<tAuth, tBstoken, tTok, tUserAuth, tDisabled, tTally, tPush, tChannels, tReq>>
vars   == <<source, walk, clean, target>>

Target == INSTANCE KVEnrollment WITH
    auth <- tAuth, bstoken <- tBstoken, tok <- tTok, userAuth <- tUserAuth,
    disabled <- tDisabled, tally <- tTally, push <- tPush,
    channels <- tChannels, req <- tReq

NotStarted == [phase |-> "serving"]

Walks == [phase : {"device", "Authenticate", "TokenUpdate", "SetBootstrapToken",
                   "users", "done"},
          left : SUBSET ID, dev : Devices \cup {None}, users : SUBSET Users]

TypeOK ==
    /\ ClientsTypeOK /\ Target!StoreTypeOK(Nos, Target!KVCalls)
    /\ walk \in Walks \cup {NotStarted} /\ clean \in BOOLEAN

Init ==
    /\ ClientsInit /\ Target!EmptyStore
    /\ walk = NotStarted /\ clean = TRUE

-----------------------------------------------------------------------------
Serving == walk = NotStarted

Serve(id) ==
    /\ Serving
    /\ (\E m \in CheckIns : Send(id, m)) \/ Handle(id) \/ Answered(id) \/ RequestFails(id)
    /\ UNCHANGED <<backend, walk, clean, target>>

(* nano2nano: with the server gone, walk the devices that have an          *)
(* Authenticate message, in the file backend the user channels too; after  *)
(* errors the administrator runs it again.                                 *)
Entries == {d \in Devices : auth[d] # 0}
               \cup (IF backend = "file" THEN {u \in Users : tok[u] # 0} ELSE {})

Start ==
    /\ Serving \/ (walk.phase = "done" /\ ~ clean)
    /\ req' = [id \in ID |-> NoRequest]
    /\ walk' = [phase |-> "device", left |-> Entries, dev |-> None, users |-> {}]
    /\ clean' = TRUE
    /\ UNCHANGED <<backend, store, blank, clients, target>>

Putting == \E id \in ID : tReq[id] # NoRequest

(* The walk goes on when the message before was put. *)
Walking(phase) == walk.phase = phase /\ ~ Putting

SkipsNone(id) == FALSE     \* a mutant

(* Only the key-value walk looks whether an enrollment is disabled. *)
SkipsDisabled(id) == backend = "kv" /\ id \in disabled

NextDevice(d) ==
    /\ Walking("device") /\ d \in walk.left
    /\ walk' = IF SkipsDisabled(d) THEN [walk EXCEPT !.left = @ \ {d}]
               ELSE [walk EXCEPT !.left = @ \ {d}, !.dev = d, !.phase = "Authenticate"]
    /\ UNCHANGED <<source, clean, target>>

PutNew(id, m, n) ==     \* a mutant
    IF n = 0 \/ (m = "TokenUpdate" /\ tTok[id] = n) THEN UNCHANGED target
    ELSE Target!Receive(id, m, n)

Put(id, m, n) == IF n = 0 THEN UNCHANGED target ELSE Target!Receive(id, m, n)

(* A message that is not there, or cannot be decoded, is logged and passed *)
(* over.                                                                   *)
Decoded(id, m, n) == IF <<m, id>> \in blank THEN 0 ELSE n

PutAuthenticate ==
    /\ Walking("Authenticate")
    /\ Put(walk.dev, "Authenticate", Decoded(walk.dev, "Authenticate", auth[walk.dev]))
    /\ walk' = [walk EXCEPT !.phase = "TokenUpdate"]
    /\ UNCHANGED <<source, clean>>

(* Without a TokenUpdate it is an "invalid enrollment", users and all.     *)
(* The other storages migrate no bootstrap tokens, and their users later.  *)
PutTokenUpdate ==
    /\ Walking("TokenUpdate")
    /\ Put(walk.dev, "TokenUpdate", Decoded(walk.dev, "TokenUpdate", tok[walk.dev]))
    /\ walk' = [walk EXCEPT !.phase =
          IF tok[walk.dev] = 0 \/ backend # "kv" THEN "device"
          ELSE "SetBootstrapToken"]
    /\ UNCHANGED <<source, clean>>

PutBootstrapToken ==
    /\ Walking("SetBootstrapToken")
    /\ Put(walk.dev, "SetBootstrapToken", bstoken[walk.dev])
    /\ walk' = [walk EXCEPT !.phase = "users",
          !.users = {u \in channels : ParentID[u] = walk.dev}]
    /\ UNCHANGED <<source, clean>>

(* nano2nano does not put the UserAuthenticate messages the walk sends it. *)
PutUser(u) ==
    /\ Walking("users") /\ u \in walk.users
    /\ Put(u, "TokenUpdate",
           IF SkipsDisabled(u) THEN 0 ELSE Decoded(u, "TokenUpdate", tok[u]))
    /\ walk' = [walk EXCEPT !.users = @ \ {u}]
    /\ UNCHANGED <<source, clean>>

(* The file backend's first loop sends the users' TokenUpdates as well,    *)
(* wherever they come among the devices.                                   *)
PutUserAmongDevices(u) ==
    /\ Walking("device") /\ u \in walk.left
    /\ Put(u, "TokenUpdate", Decoded(u, "TokenUpdate", tok[u]))
    /\ walk' = [walk EXCEPT !.left = @ \ {u}]
    /\ UNCHANGED <<source, clean>>

UsersDone ==
    /\ Walking("users") /\ walk.users = {}
    /\ walk' = [walk EXCEPT !.phase = IF backend = "kv" THEN "device" ELSE "done",
                            !.dev = None]
    /\ UNCHANGED <<source, clean, target>>

(* The second loop, but of the key-value storage, is over the users. *)
DevicesDone ==
    /\ Walking("device") /\ walk.left = {}
    /\ walk' = IF backend = "kv" THEN [walk EXCEPT !.phase = "done"]
               ELSE [walk EXCEPT !.phase = "users", !.users = Users]
    /\ UNCHANGED <<source, clean, target>>

TargetHandles(id) ==
    /\ Target!StorageCall(id) \/ Target!Respond(id)
    /\ UNCHANGED <<source, walk, clean>>

MigrationFails ==
    /\ fails < MaxFail /\ fails' = fails + 1
    /\ clean' = FALSE
    /\ UNCHANGED <<backend, store, blank, req, belief, told, escrow, escrowed, tries, oks,
                   updated, sent>>

(* A failing put is logged, and the next message follows; a failing look   *)
(* at the source's storage ends the walk.                                  *)
PutFails(id) == Target!Fail(id) /\ MigrationFails /\ UNCHANGED walk

WalkFails ==
    /\ walk.phase \notin {"serving", "done"} /\ ~ Putting
    /\ walk' = [walk EXCEPT !.phase = "done"]
    /\ MigrationFails /\ UNCHANGED target

Next ==
    \/ \E id \in ID : Serve(id) \/ TargetHandles(id) \/ PutFails(id)
    \/ Start \/ \E d \in Devices : NextDevice(d)
    \/ PutAuthenticate \/ PutTokenUpdate \/ PutBootstrapToken
    \/ \E u \in Users : PutUser(u) \/ PutUserAmongDevices(u)
    \/ UsersDone \/ DevicesDone \/ WalkFails

Spec == Init /\ [][Next]_vars

-----------------------------------------------------------------------------
(* The same of the user channels (storage/mdm.go) where it is true: on the *)
(* SQL backends, whatever requests of the user's race with the device's,   *)
(* and with errors.                                                        *)
UsersLeaveWithDevice == backend = "sql" => EnabledSinceUpdate

EnrolledClient(id) ==
    Settled(id) /\ (id \in Users => belief[ParentID[id]] \in Enrolled)

(* "this transfers the needed Push topic, token, and push magic to         *)
(* continue to send APNs push notifications" (docs/operations-guide.md):   *)
(* after a migration without errors every client that is enrolled is       *)
(* enabled at the target, with the push info it was last told is stored,   *)
(* or newer, and a device's bootstrap token; whatever requests were cut    *)
(* off, and whatever the runs of nano2nano before this one left there.  In *)
(* the file backend a cut-off TokenUpdate may leave nothing to migrate:    *)
(* there it holds of the clients whose last TokenUpdate was answered.      *)
(* Only the key-value walk has bootstrap tokens.                           *)
Migrated ==
    walk.phase = "done" /\ clean =>
        \A id \in ID : EnrolledClient(id) =>
            /\ Target!Enabled(id) /\ tPush[id] >= told[id]
            /\ backend = "kv" /\ id \in escrowed => tBstoken[id] = escrow[id]

(* A device that left, or has not finished enrolling, is not enabled at    *)
(* the target; the other walks make no such difference.                    *)
NoGhosts ==
    backend = "kv" => \A d \in Devices : belief[d] \in {"authed", "out"} => ~ Target!Enabled(d)

=============================================================================
