--------------------------- MODULE FileEnrollment ---------------------------
(***************************************************************************)
(* The check-in half of the core service on the file backend               *)
(* (storage/file/file.go): the calls of KVEnrollment's requests, each made *)
(* of writes and removals of single files in the enrollment's directory,   *)
(* any of which may fail.  writeFile creates or truncates the file, and    *)
(* then fills it: in between, and for good when it fails there, the file   *)
(* is empty and what it held is gone.  The variables are those of          *)
(* KVEnrollment, a file for a key; the push info is read from the          *)
(* TokenUpdate's file (push.go), a numeric file that is empty reads as 0,  *)
(* and a device's directory has a file for each of its user channels.      *)
(***************************************************************************)
EXTENDS KVEnrollment

VARIABLE blank    \* the messages whose file is empty

Unwritten == {"Authenticate", "TokenUpdate"} \X ID

FileCalls == {"StoreAuthenticate", "RemoveBootstrapToken", "WriteAuthenticate",
              "FillAuthenticate", "ClearQueue", "Disable", "WriteDisabled",
              "RemoveSubs", "StoreTokenUpdate", "WriteTokenUpdate",
              "FillTokenUpdate", "BumpTally", "WriteTally", "RemoveDisabled",
              "StoreUserAuthenticate", "StoreBootstrapToken",
              "FillBootstrapToken", "RetrieveBootstrapToken", "respond"}

Truncate(m, id) == blank' = blank \cup {<<m, id>>}

Fill(m, id) == blank' = blank \ {<<m, id>>}

(* StoreAuthenticate *)

ResetTally(id) ==
    /\ At(id, "StoreAuthenticate")
    /\ tally' = [tally EXCEPT ![id] = 0]
    /\ Then(id, "RemoveBootstrapToken")
    /\ UNCHANGED <<auth, bstoken, tok, userAuth, disabled, push, channels>>

RemoveBootstrapToken(id) ==
    /\ At(id, "RemoveBootstrapToken")
    /\ bstoken' = [bstoken EXCEPT ![id] = 0]
    /\ Then(id, "WriteAuthenticate")
    /\ UNCHANGED <<auth, tok, userAuth, enrollments>>

WriteAuthenticate(id) ==
    /\ At(id, "WriteAuthenticate")
    /\ auth' = [auth EXCEPT ![id] = req[id].no]
    /\ Truncate("Authenticate", id)
    /\ Then(id, "FillAuthenticate")
    /\ UNCHANGED <<bstoken, tok, userAuth, enrollments>>

FillAuthenticate(id) ==
    /\ At(id, "FillAuthenticate")
    /\ Fill("Authenticate", id)
    /\ Then(id, "ClearQueue")
    /\ UNCHANGED store

(* Disable: the user channels listed now, one by one, then the device; in  *)
(* the end the list is thrown away, with what joined it meanwhile.  A list *)
(* that cannot be read is taken for empty.                                 *)

SubEnrollments(d) == {u \in channels : ParentID[u] = d}

ListSubs(id) ==
    /\ At(id, "Disable")
    /\ \E subs \in {SubEnrollments(id), {}} :
          req' = [req EXCEPT ![id].call = "WriteDisabled", ![id].subs = subs]
    /\ UNCHANGED store

WriteDisabled(id) ==
    /\ At(id, "WriteDisabled")
    /\ \/ \E u \in req[id].subs :
             /\ disabled' = disabled \cup {u}
             /\ req' = [req EXCEPT ![id].subs = @ \ {u}]
       \/ /\ req[id].subs = {}
          /\ disabled' = disabled \cup {id}
          /\ Then(id, "RemoveSubs")
    /\ UNCHANGED <<auth, bstoken, tok, userAuth, tally, push, channels>>

RemoveSubs(id) ==
    /\ At(id, "RemoveSubs")
    /\ channels' = channels \ SubEnrollments(id)
    /\ Then(id, "respond")
    /\ UNCHANGED <<auth, bstoken, tok, userAuth, disabled, tally, push>>

(* StoreTokenUpdate *)

AssocSub(id) ==
    /\ At(id, "StoreTokenUpdate")
    /\ channels' = channels \cup ({id} \cap Users)
    /\ Then(id, "WriteTokenUpdate")
    /\ UNCHANGED <<auth, bstoken, tok, userAuth, disabled, tally, push>>

WriteTokenUpdate(id) ==
    /\ At(id, "WriteTokenUpdate")
    /\ tok' = [tok EXCEPT ![id] = req[id].no]
    /\ push' = [push EXCEPT ![id] = 0]
    /\ Truncate("TokenUpdate", id)
    /\ Then(id, "FillTokenUpdate")
    /\ UNCHANGED <<auth, bstoken, userAuth, disabled, tally, channels>>

FillTokenUpdate(id) ==
    /\ At(id, "FillTokenUpdate")
    /\ push' = [push EXCEPT ![id] = req[id].no]
    /\ Fill("TokenUpdate", id)
    /\ Then(id, "BumpTally")
    /\ UNCHANGED <<auth, bstoken, tok, userAuth, disabled, tally, channels>>

(* The tally is read and its file truncated. *)
BumpTally(id) ==
    /\ At(id, "BumpTally")
    /\ req' = [req EXCEPT ![id].call = "WriteTally", ![id].ctr = tally[id]]
    /\ tally' = [tally EXCEPT ![id] = 0]
    /\ UNCHANGED <<auth, bstoken, tok, userAuth, disabled, push, channels>>

WriteTally(id) ==
    /\ At(id, "WriteTally")
    /\ tally' = [tally EXCEPT ![id] = req[id].ctr + 1]
    /\ Then(id, "RemoveDisabled")
    /\ UNCHANGED <<auth, bstoken, tok, userAuth, disabled, push, channels>>

RemoveDisabled(id) ==
    /\ At(id, "RemoveDisabled")
    /\ disabled' = disabled \ {id}
    /\ Then(id, "respond")
    /\ UNCHANGED <<auth, bstoken, tok, userAuth, tally, push, channels>>

(* The user channel stays as it is.  Nothing reads the file. *)
WriteUserAuthenticate(id) ==
    /\ At(id, "StoreUserAuthenticate")
    /\ userAuth' = [userAuth EXCEPT ![id] = req[id].no]
    /\ Then(id, "respond")
    /\ UNCHANGED <<auth, bstoken, tok, enrollments>>

(* An empty token is none. *)
WriteBootstrapToken(id) ==
    /\ At(id, "StoreBootstrapToken")
    /\ bstoken' = [bstoken EXCEPT ![id] = 0]
    /\ Then(id, "FillBootstrapToken")
    /\ UNCHANGED <<auth, tok, userAuth, enrollments>>

FillBootstrapToken(id) ==
    /\ At(id, "FillBootstrapToken")
    /\ bstoken' = [bstoken EXCEPT ![id] = req[id].no]
    /\ Then(id, "respond")
    /\ UNCHANGED <<auth, tok, userAuth, enrollments>>

MessageCall(id) ==
    \/ WriteAuthenticate(id) \/ FillAuthenticate(id)
    \/ WriteTokenUpdate(id) \/ FillTokenUpdate(id)

OtherCall(id) ==
    \/ ResetTally(id) \/ RemoveBootstrapToken(id) \/ ClearQueue(id)
    \/ ListSubs(id) \/ WriteDisabled(id) \/ RemoveSubs(id)
    \/ AssocSub(id) \/ BumpTally(id) \/ WriteTally(id) \/ RemoveDisabled(id)
    \/ WriteUserAuthenticate(id)
    \/ WriteBootstrapToken(id) \/ FillBootstrapToken(id) \/ RetrieveBootstrapToken(id)

FileCall(id) == MessageCall(id) \/ (OtherCall(id) /\ UNCHANGED blank)

=============================================================================
