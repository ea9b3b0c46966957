---------------------------- MODULE KVEnrollment ----------------------------
(***************************************************************************)
(* The check-in half of the core service (service/nanomdm) on the          *)
(* key-value storage (storage/kv/mdm.go, bstoken.go): what a server does   *)
(* with the check-in messages it receives.  Each call of a request is one  *)
(* transaction on one bucket, hence one step; a request makes up to four,  *)
(* and may fail before any of them.                                        *)
(*                                                                         *)
(* Messages are numbered; 0 stands for a key that is not there.            *)
(***************************************************************************)
EXTENDS Naturals, Sequences

CONSTANTS
    Devices,     \* device channel enrollment IDs
    Users,       \* user channel enrollment IDs
    ParentID     \* ParentID[u] is the device of user channel u

ID == Devices \cup Users

(* The beginning of a key is nobody's ID: see userChannelEnrollments. *)
ASSUME ChannelsAssumption ==
    /\ Devices \cap Users = {} /\ ParentID \in [Users -> Devices]
    /\ \A id \in ID : <<id>> \notin ID

VARIABLES
    auth,        \* devices bucket: the Authenticate message
    bstoken,     \*                 the bootstrap token
    tok,         \* devices and users buckets: the TokenUpdate message
    userAuth,    \* users bucket: the UserAuthenticate message
    disabled,    \* enrollments bucket: the IDs with a "disabled" key
    tally,       \*                     the TokenUpdate tally
    push,        \*                     push info, by the TokenUpdate it is from
    channels,    \*                     the user channels associated
    req          \* the request client id is waiting for

enrollments == <<disabled, tally, push, channels>>
store == <<auth, bstoken, tok, userAuth, enrollments>>

CheckIns == {"Authenticate", "TokenUpdate", "CheckOut", "UserAuthenticate",
             "SetBootstrapToken", "GetBootstrapToken"}

NoRequest == [call |-> "none"]

FirstCall(m) ==
    CASE m = "Authenticate"      -> "StoreAuthenticate"
      [] m = "TokenUpdate"       -> "StoreTokenUpdate"
      [] m = "CheckOut"          -> "Disable"
      [] m = "UserAuthenticate"  -> "StoreUserAuthenticate"
      [] m = "SetBootstrapToken" -> "StoreBootstrapToken"
      [] m = "GetBootstrapToken" -> "RetrieveBootstrapToken"

KVCalls == {"StoreAuthenticate", "ResetEnrollment", "ClearQueue", "Disable",
            "StoreTokenUpdate", "EnableEnrollment", "StoreUserAuthenticate",
            "DisableUser", "StoreBootstrapToken", "RetrieveBootstrapToken",
            "respond"}

(* subs, ctr: the user channels a Disable has found and not yet disabled,  *)
(* and the tally read, in the file backend (FileEnrollment)                *)
Request(Nos, calls) ==
    [msg : CheckIns, no : Nos, call : calls, subs : SUBSET Users, ctr : Nat]

StoreTypeOK(Nos, calls) ==
    /\ auth \in [Devices -> Nos] /\ bstoken \in [Devices -> Nos]
    /\ tok \in [ID -> Nos] /\ userAuth \in [Users -> Nos]
    /\ disabled \subseteq ID \cup {<<d>> : d \in Devices}
    /\ tally \in [ID -> Nat] /\ push \in [ID -> Nos]
    /\ channels \subseteq Users
    /\ req \in [ID -> Request(Nos, calls) \cup {NoRequest}]

EmptyStore ==
    /\ auth = [d \in Devices |-> 0] /\ bstoken = [d \in Devices |-> 0]
    /\ tok = [id \in ID |-> 0] /\ userAuth = [u \in Users |-> 0]
    /\ disabled = {} /\ tally = [id \in ID |-> 0]
    /\ push = [id \in ID |-> 0] /\ channels = {}
    /\ req = [id \in ID |-> NoRequest]

Receive(id, m, n) ==
    /\ req[id] = NoRequest
    /\ req' = [req EXCEPT ![id] = [msg |-> m, no |-> n, call |-> FirstCall(m),
                                    subs |-> {}, ctr |-> 0]]
    /\ UNCHANGED store

At(id, call) == req[id].call = call

Then(id, call) == req' = [req EXCEPT ![id].call = call]

-----------------------------------------------------------------------------
(* The keys of device d's user channels in the enrollments bucket, and     *)
(* what userChannelEnrollments makes of them: it means to cut the prefix   *)
(* off and returns the prefix instead (key[0:pfxLen]), which is nobody's   *)
(* ID.                                                                     *)
userChannelKeys(d) == {<<d, u>> : u \in {u \in channels : ParentID[u] = d}}

userChannelEnrollments(d) == {<<key[1]>> : key \in userChannelKeys(d)}

StoreAuthenticateKeepingBootstrap(id) ==     \* a mutant
    /\ At(id, "StoreAuthenticate")
    /\ auth' = [auth EXCEPT ![id] = req[id].no]
    /\ Then(id, "ResetEnrollment")
    /\ UNCHANGED <<bstoken, tok, userAuth, enrollments>>

StoreAuthenticate(id) ==
    /\ At(id, "StoreAuthenticate")
    /\ auth' = [auth EXCEPT ![id] = req[id].no]
    /\ bstoken' = [bstoken EXCEPT ![id] = 0]
    /\ Then(id, "ResetEnrollment")
    /\ UNCHANGED <<tok, userAuth, enrollments>>

ResetWithoutTally(id) ==     \* a mutant
    /\ At(id, "ResetEnrollment")
    /\ Then(id, "ClearQueue")
    /\ UNCHANGED store

ResetEnrollment(id) ==
    /\ At(id, "ResetEnrollment")
    /\ tally' = [i \in ID |-> IF i \in {id} \cup userChannelEnrollments(id)
                              THEN 0 ELSE tally[i]]
    /\ Then(id, "ClearQueue")
    /\ UNCHANGED <<auth, bstoken, tok, userAuth, disabled, push, channels>>

ClearQueueOnly(id) ==     \* a mutant
    /\ At(id, "ClearQueue")
    /\ Then(id, "respond")
    /\ UNCHANGED store

(* The queue is in a bucket of its own: see KVQueue. *)
ClearQueue(id) ==
    /\ At(id, "ClearQueue")
    /\ Then(id, "Disable")
    /\ UNCHANGED store

Disable(id) ==
    /\ At(id, "Disable")
    /\ disabled' = disabled \cup {id}
         \cup (IF id \in Devices THEN userChannelEnrollments(id) ELSE {})
    /\ Then(id, "respond")
    /\ UNCHANGED <<auth, bstoken, tok, userAuth, tally, push, channels>>

StoreTokenUpdate(id) ==
    /\ At(id, "StoreTokenUpdate")
    /\ tok' = [tok EXCEPT ![id] = req[id].no]
    /\ Then(id, "EnableEnrollment")
    /\ UNCHANGED <<auth, bstoken, userAuth, enrollments>>

EnableEnrollment(id) ==
    /\ At(id, "EnableEnrollment")
    /\ push' = [push EXCEPT ![id] = req[id].no]
    /\ channels' = channels \cup ({id} \cap Users)
    /\ tally' = [tally EXCEPT ![id] = @ + 1]
    /\ disabled' = disabled \ {id}
    /\ Then(id, "respond")
    /\ UNCHANGED <<auth, bstoken, tok, userAuth>>

StoreUserAuthenticate(id) ==
    /\ At(id, "StoreUserAuthenticate")
    /\ userAuth' = [userAuth EXCEPT ![id] = req[id].no]
    /\ Then(id, "DisableUser")
    /\ UNCHANGED <<auth, bstoken, tok, enrollments>>

DisableUser(id) ==
    /\ At(id, "DisableUser")
    /\ disabled' = disabled \cup {id}
    /\ Then(id, "respond")
    /\ UNCHANGED <<auth, bstoken, tok, userAuth, tally, push, channels>>

StoreBootstrapToken(id) ==
    /\ At(id, "StoreBootstrapToken")
    /\ bstoken' = [bstoken EXCEPT ![id] = req[id].no]
    /\ Then(id, "respond")
    /\ UNCHANGED <<auth, tok, userAuth, enrollments>>

RetrieveBootstrapToken(id) ==
    /\ At(id, "RetrieveBootstrapToken")
    /\ Then(id, "respond")
    /\ UNCHANGED store

StorageCall(id) ==
    \/ StoreAuthenticate(id) \/ ResetEnrollment(id) \/ ClearQueue(id) \/ Disable(id)
    \/ StoreTokenUpdate(id) \/ EnableEnrollment(id)
    \/ StoreUserAuthenticate(id) \/ DisableUser(id)
    \/ StoreBootstrapToken(id) \/ RetrieveBootstrapToken(id)

(* The answer to the client, or an error instead of the next call *)
Respond(id) ==
    /\ At(id, "respond")
    /\ req' = [req EXCEPT ![id] = NoRequest]
    /\ UNCHANGED store

Fail(id) ==
    /\ req[id] # NoRequest
    /\ req' = [req EXCEPT ![id] = NoRequest]
    /\ UNCHANGED store

Enabled(id) == push[id] # 0 /\ id \notin disabled

=============================================================================
