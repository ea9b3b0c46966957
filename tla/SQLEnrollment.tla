--------------------------- MODULE SQLEnrollment ---------------------------
(***************************************************************************)
(* The check-in half of the core service on the SQL backends, for the      *)
(* clients of Checkins (NanoMDM has it with the command queue): the calls  *)
(* of KVEnrollment's requests, a statement each.  auth, bstoken and tok    *)
(* are columns of devices, tok and userAuth of users; an id has a row of   *)
(* enrollments once it has push info, its enabled column is 0 for those in *)
(* disabled.  StoreTokenUpdate's statements and the bootstrap token's do   *)
(* what KVEnrollment's transactions do.                                    *)
(***************************************************************************)
EXTENDS KVEnrollment

SQLCalls == {"StoreAuthenticate", "ClearQueue", "Disable", "StoreTokenUpdate",
             "EnableEnrollment", "StoreUserAuthenticate", "StoreBootstrapToken",
             "RetrieveBootstrapToken", "respond"}

UpsertDevice(id) ==
    /\ At(id, "StoreAuthenticate")
    /\ auth' = [auth EXCEPT ![id] = req[id].no]
    /\ bstoken' = [bstoken EXCEPT ![id] = 0]
    /\ Then(id, "ClearQueue")
    /\ UNCHANGED <<tok, userAuth, enrollments>>

DeviceRow(d) == {d} \ disabled     \* a mutant

EnabledRows(d) ==
    {i \in ID : /\ push[i] # 0 /\ i \notin disabled
                /\ (i = d \/ (i \in Users /\ ParentID[i] = d))}

DisableRows(id) ==
    LET rows == EnabledRows(id) IN
    /\ At(id, "Disable")
    /\ disabled' = disabled \cup rows
    /\ tally' = [i \in ID |-> IF i \in rows THEN 0 ELSE tally[i]]
    /\ Then(id, "respond")
    /\ UNCHANGED <<auth, bstoken, tok, userAuth, push, channels>>

UpsertUser(id) ==
    /\ At(id, "StoreUserAuthenticate")
    /\ userAuth' = [userAuth EXCEPT ![id] = req[id].no]
    /\ Then(id, "respond")
    /\ UNCHANGED <<auth, bstoken, tok, enrollments>>

SQLCall(id) ==
    \/ UpsertDevice(id) \/ ClearQueue(id) \/ DisableRows(id)
    \/ StoreTokenUpdate(id) \/ EnableEnrollment(id) \/ UpsertUser(id)
    \/ StoreBootstrapToken(id) \/ RetrieveBootstrapToken(id)

=============================================================================
