------------------------------ MODULE Checkins ------------------------------
(***************************************************************************)
(* The clients of a server on each kind of storage: a device enrolls, uses *)
(* the enrollment and leaves; users log in on it.  A client sends one      *)
(* request at a time, and the same again, with a new number, when it       *)
(* failed.  When a device leaves or enrolls anew its users' enrollments    *)
(* are void.  A client that is enrolled and sends another TokenUpdate is   *)
(* renewing until that is answered.                                        *)
(***************************************************************************)
EXTENDS SQLEnrollment, FileEnrollment

CONSTANTS
    Backends,    \* the storages considered
    MaxSent,     \* bound on numbered messages (TokenUpdates, bootstrap
                 \* tokens) for each storage
    MaxFail      \* bound on errors

ASSUME BackendsAssumption == Backends \subseteq {"kv", "sql", "file"}

ASSUME BoundsAssumption == MaxSent \in [Backends -> Nat \ {0}] /\ MaxFail \in Nat

VARIABLES
    backend,     \* the storage in use
    belief,      \* where client id thinks its enrollment stands
    told,        \* the last TokenUpdate of id that was answered
    escrow,      \* the last bootstrap token of d in this enrollment
    escrowed,    \* devices whose last token was stored for all they know
    tries, oks,  \* TokenUpdates of id in this enrollment: sent, answered
    updated,     \* users enabled since their device last began to leave
    sent,        \* numbered messages sent
    fails

clients == <<belief, told, escrow, escrowed, tries, oks, updated, sent, fails>>

Nos == UNION {0 .. MaxSent[b] : b \in Backends}

Enrolled == {"enrolled", "renewing"}

Enrolling == {"authed", "updating"} \cup Enrolled

Beliefs == {"out", "leaving"} \cup Enrolling

ClientsTypeOK ==
    /\ backend \in Backends
    /\ StoreTypeOK(Nos, CASE backend = "kv"   -> KVCalls
                          [] backend = "sql"  -> SQLCalls
                          [] backend = "file" -> FileCalls)
    /\ blank \subseteq Unwritten
    /\ belief \in [ID -> Beliefs] /\ told \in [ID -> Nos]
    /\ escrow \in [Devices -> Nos] /\ escrowed \subseteq Devices
    /\ tries \in [ID -> Nos] /\ oks \in [ID -> Nos]
    /\ updated \subseteq Users /\ sent \in Nos /\ fails \in 0 .. MaxFail

ClientsInit ==
    /\ backend \in Backends
    /\ EmptyStore /\ blank = {}
    /\ belief = [id \in ID |-> "out"] /\ told = [id \in ID |-> 0]
    /\ escrow = [d \in Devices |-> 0] /\ escrowed = {}
    /\ tries = [id \in ID |-> 0] /\ oks = [id \in ID |-> 0]
    /\ updated = {} /\ sent = 0 /\ fails = 0

-----------------------------------------------------------------------------
Permitted(id, m) ==
    CASE m = "Authenticate" -> id \in Devices
      [] m = "CheckOut"     -> id \in Devices /\ belief[id] # "out"
      [] m \in {"SetBootstrapToken", "GetBootstrapToken"} ->
            id \in Devices /\ belief[id] \in Enrolling
      [] m = "TokenUpdate" ->
            IF id \in Devices THEN belief[id] \in Enrolling
            ELSE belief[ParentID[id]] \in Enrolled
      [] m = "UserAuthenticate" -> id \in Users /\ belief[ParentID[id]] \in Enrolled

Numbered(m) == m \in {"TokenUpdate", "SetBootstrapToken"}

(* The enrollments void from message m of client id on *)
Void(id, m) ==
    IF m \in {"Authenticate", "CheckOut"}
    THEN {id} \cup {u \in Users : ParentID[u] = id} ELSE {}

BeliefWhenSent(id, m) ==
    CASE m \in {"Authenticate", "CheckOut"} -> "leaving"
      [] m = "UserAuthenticate" -> "updating"
      [] m = "TokenUpdate" -> IF belief[id] \in Enrolled THEN "renewing" ELSE "updating"
      [] OTHER -> belief[id]

Send(id, m) ==
    /\ Permitted(id, m)
    /\ sent' = IF Numbered(m) THEN sent + 1 ELSE sent
    /\ sent' <= MaxSent[backend]
    /\ Receive(id, m, IF Numbered(m) THEN sent' ELSE 1)
    /\ belief' = [i \in ID |-> IF i = id THEN BeliefWhenSent(id, m)
                               ELSE IF i \in Void(id, m) THEN "out" ELSE belief[i]]
    /\ escrow' = CASE m = "Authenticate"      -> [escrow EXCEPT ![id] = 0]
                   [] m = "SetBootstrapToken" -> [escrow EXCEPT ![id] = sent']
                   [] OTHER -> escrow
    /\ escrowed' = IF m \in {"Authenticate", "SetBootstrapToken"}
                   THEN escrowed \ {id} ELSE escrowed
    /\ tries' = [i \in ID |-> IF i \in Void(id, m) THEN 0
                              ELSE IF i = id /\ m = "TokenUpdate" THEN tries[i] + 1
                              ELSE tries[i]]
    /\ oks' = [i \in ID |-> IF i \in Void(id, m) THEN 0 ELSE oks[i]]
    /\ updated' = updated \ Void(id, m)
    /\ UNCHANGED <<blank, told, fails>>

(* In the file backend both for an enrollment without a Disabled file and  *)
(* for one with it                                                         *)
Enables(id) == req[id].call \in {"EnableEnrollment", "FillTokenUpdate", "RemoveDisabled"}

Handle(id) ==
    /\ \/ backend = "kv" /\ StorageCall(id) /\ UNCHANGED blank
       \/ backend = "sql" /\ SQLCall(id) /\ UNCHANGED blank
       \/ backend = "file" /\ FileCall(id)
    /\ updated' = IF Enables(id) THEN updated \cup ({id} \cap Users) ELSE updated
    /\ UNCHANGED <<belief, told, escrow, escrowed, tries, oks, sent, fails>>

BeliefWhenAnswered(id, m) ==
    CASE m = "Authenticate" -> "authed"
      [] m = "CheckOut"     -> "out"
      [] m = "TokenUpdate" /\ belief[id] \in {"updating", "renewing"} -> "enrolled"
      [] OTHER -> belief[id]

Answered(id) ==
    LET m == req[id].msg IN
    /\ Respond(id)
    /\ belief' = [belief EXCEPT ![id] = BeliefWhenAnswered(id, m)]
    /\ told' = IF m = "TokenUpdate" THEN [told EXCEPT ![id] = req[id].no] ELSE told
    /\ oks' = IF m = "TokenUpdate" THEN [oks EXCEPT ![id] = @ + 1] ELSE oks
    /\ escrowed' = IF m = "SetBootstrapToken" THEN escrowed \cup {id} ELSE escrowed
    /\ UNCHANGED <<blank, escrow, tries, updated, sent, fails>>

RequestFails(id) ==
    /\ Fail(id)
    /\ fails < MaxFail /\ fails' = fails + 1
    /\ UNCHANGED <<blank, belief, told, escrow, escrowed, tries, oks, updated, sent>>

-----------------------------------------------------------------------------
(* The push info of an enrolled client is there.  In the file backend an   *)
(* overwrite that fails has truncated the file of the TokenUpdate before,  *)
(* which leaves the client without push info until it sends another.       *)
Settled(id) ==
    belief[id] = "enrolled" \/ (belief[id] = "renewing" /\ backend # "file")

(* The server agrees with the device, although a request is several        *)
(* transactions and may fail between any two: after a successful           *)
(* TokenUpdate the device is enabled, with that push info or newer, until  *)
(* it leaves (file storage: or sends another TokenUpdate, and then it is   *)
(* still not disabled); after a successful Authenticate or CheckOut it is  *)
(* not enabled.                                                            *)
ServerKnowsEnrollment ==
    \A d \in Devices :
        /\ Settled(d) => Enabled(d) /\ push[d] >= told[d]
        /\ belief[d] \in Enrolled => d \notin disabled
        /\ belief[d] \in {"authed", "out"} => ~ Enabled(d)

(* The tally of a device counts the TokenUpdates of its enrollment, from   *)
(* the last Authenticate on ("tally-after-reenroll" in test/e2e): at least *)
(* those that were answered, at most those that were sent.  In the file    *)
(* backend a bump that fails may leave an empty file, and the count starts *)
(* again: there the former holds while every TokenUpdate was answered.     *)
TallyOfEnrollment ==
    \A d \in Devices : belief[d] \in Enrolling =>
        /\ backend # "file" \/ oks[d] = tries[d] => oks[d] <= tally[d]
        /\ tally[d] <= tries[d]

(* The bootstrap token the server holds is that of the enrollment.         *)
EscrowOfEnrollment ==
    \A d \in Devices : belief[d] \in Enrolling =>
        /\ d \in escrowed => bstoken[d] = escrow[d]
        /\ escrow[d] = 0 => bstoken[d] = 0

(* "If r is from a device channel then any user channels for this device   *)
(* also need to be disabled" (storage/mdm.go): a user channel is enabled   *)
(* only by a TokenUpdate since its device last left.                       *)
EnabledSinceUpdate ==
    \A u \in Users : belief[ParentID[u]] # "leaving" /\ Enabled(u) => u \in updated

(* Why: how far a device's request is tells what of the enrollment before  *)
(* is left and what of this one is there, on every kind of storage.        *)
Begun(d, m) == req[d] # NoRequest /\ req[d].msg = m

Departs(d) == Begun(d, "Authenticate") \/ Begun(d, "CheckOut")

CallsFor(m) ==
    CASE m = "Authenticate" -> {"StoreAuthenticate", "ResetEnrollment",
            "RemoveBootstrapToken", "WriteAuthenticate", "FillAuthenticate",
            "ClearQueue", "Disable", "WriteDisabled", "RemoveSubs", "respond"}
      [] m = "CheckOut" -> {"Disable", "WriteDisabled", "RemoveSubs", "respond"}
      [] m = "TokenUpdate" -> {"StoreTokenUpdate", "EnableEnrollment",
            "WriteTokenUpdate", "FillTokenUpdate", "BumpTally", "WriteTally",
            "RemoveDisabled", "respond"}
      [] m = "SetBootstrapToken" -> {"StoreBootstrapToken", "FillBootstrapToken", "respond"}
      [] m = "GetBootstrapToken" -> {"RetrieveBootstrapToken", "respond"}
      [] OTHER -> {}

RequestInv(d) ==
    /\ req[d] # NoRequest =>
          req[d].call \in CallsFor(req[d].msg) /\ req[d].no \in 1 .. (sent + 1)
    /\ Departs(d) => belief[d] = "leaving"
    /\ Begun(d, "Authenticate") =>
          tries[d] = 0 /\ oks[d] = 0 /\ escrow[d] = 0 /\ d \notin escrowed
    /\ Begun(d, "TokenUpdate") =>
          belief[d] \in {"updating", "renewing"} /\ req[d].no \in told[d] .. sent
    /\ Begun(d, "SetBootstrapToken") =>
          belief[d] \in Enrolling /\ escrow[d] = req[d].no /\ d \notin escrowed
    /\ Begun(d, "GetBootstrapToken") => belief[d] \in Enrolling
    /\ told[d] <= sent

EnabledInv(d) ==
    /\ Settled(d) => Enabled(d) /\ push[d] >= told[d]
    /\ belief[d] \in Enrolled => d \notin disabled
    /\ belief[d] \in {"authed", "out"} => ~ Enabled(d)
    /\ Departs(d) /\ req[d].call \in {"RemoveSubs", "respond"} => ~ Enabled(d)
    /\ Begun(d, "TokenUpdate") =>
          /\ req[d].call \in {"BumpTally", "WriteTally", "RemoveDisabled", "respond"}
                => push[d] = req[d].no
          /\ req[d].call = "respond" => Enabled(d)

Bumped(d) == Begun(d, "TokenUpdate") /\ req[d].call \in {"RemoveDisabled", "respond"}

ToBump(d) == Begun(d, "TokenUpdate") /\ ~ Bumped(d)

(* The tally, or what it was before its file was truncated *)
Counted(d) ==
    IF backend = "file" /\ Begun(d, "TokenUpdate") /\ req[d].call = "WriteTally"
    THEN req[d].ctr ELSE tally[d]

Answers(d) == oks[d] + (IF Begun(d, "TokenUpdate") THEN 1 ELSE 0)

TallyInv(d) ==
    /\ belief[d] \in Enrolling =>
          /\ backend # "file" \/ Answers(d) = tries[d] =>
                oks[d] + (IF Bumped(d) THEN 1 ELSE 0) <= Counted(d)
          /\ Counted(d) + (IF ToBump(d) THEN 1 ELSE 0) <= tries[d]
          /\ tally[d] <= Counted(d) /\ Answers(d) <= tries[d]
    /\ Begun(d, "Authenticate") /\ req[d].call \notin {"StoreAuthenticate", "ResetEnrollment"} =>
          tally[d] = 0 \/ (backend = "sql" /\ req[d].call # "respond")
    /\ backend = "sql" /\ ~ Enabled(d) => tally[d] = 0

EscrowInv(d) ==
    /\ belief[d] \in Enrolling =>
          /\ d \in escrowed => bstoken[d] = escrow[d]
          /\ escrow[d] = 0 => bstoken[d] = 0
    /\ Begun(d, "Authenticate") /\ req[d].call \notin {"StoreAuthenticate", "RemoveBootstrapToken"} =>
          bstoken[d] = 0
    /\ Begun(d, "SetBootstrapToken") /\ req[d].call = "respond" => bstoken[d] = req[d].no

DeviceInv(d) == RequestInv(d) /\ EnabledInv(d) /\ TallyInv(d) /\ EscrowInv(d)

(* On the SQL backends one statement disables the device's users as well.  *)
UserInv(u) ==
    LET d == ParentID[u] IN
    Enabled(u) /\ (belief[d] # "leaving" \/ (Departs(d) /\ req[d].call = "respond")) =>
        u \in updated

=============================================================================
