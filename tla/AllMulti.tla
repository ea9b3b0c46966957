------------------------------ MODULE AllMulti ------------------------------
(***************************************************************************)
(* Several storages at once (storage/allmulti): every call of the service  *)
(* and of the API is made on all stores, in a goroutine each; when all of  *)
(* them answered, the first store's value and error are returned.  Here,   *)
(* the command queue of one enrollment in two stores, each of them a       *)
(* database or the file backend (FileQueue), its client, and one API       *)
(* client that enqueues.                                                   *)
(***************************************************************************)
EXTENDS FileQueue, Sequences, SequencesExt

CONSTANTS
    Kinds,       \* the configurations: the kind of each store
    Allowed      \* what may happen: see Troubles

(* "clearNotNow": the queue is cleared while a file store keeps the result *)
(* of a NotNow.  "overlap": it is cleared during an EnqueueCommand.        *)
(* "early": a command is answered before its EnqueueCommand returned.      *)
Troubles == {"clearNotNow", "overlap", "early"}

ASSUME AllMultiAssumption ==
    /\ Commands \subseteq Nat /\ None \notin Commands
    /\ 1 \in Stores /\ Kinds \subseteq [Stores -> {"sql", "file"}]
    /\ Callers = {"client", "api"}
    /\ Allowed \subseteq Troubles /\ MaxFail \in Nat

VARIABLES
    kind,        \* store s is a database or the file backend
    order,       \* the rows of enrollment_queue in a database, by created_at
    result,      \* the status in a command's row of command_results
    inactive,    \* the commands whose row in the queue is not active any more
    held,        \* the command the client has to answer, or None
    settled,     \* those it answered for good
    issued       \* the commands the API client enqueued

files  == <<dir, blank>>
tables == <<order, result, inactive>>
vars   == <<call, job, files, fails, kind, tables, held, settled, issued>>

Statuses == {"none", "NotNow", "Acknowledged"}

TypeOK ==
    /\ call \in [Callers -> Call] /\ job \in [Callers -> [Stores -> Job]]
    /\ dir \in [Stores -> [Dirs -> SUBSET Files]]
    /\ blank \in [Stores -> SUBSET Commands]
    /\ kind \in Kinds
    /\ order \in [Stores -> Seq(Commands)]
    /\ result \in [Stores -> [Commands -> Statuses]]
    /\ inactive \in [Stores -> SUBSET Commands]
    /\ held \in Commands \cup {None}
    /\ settled \subseteq Commands /\ issued \subseteq Commands
    /\ fails \in 0 .. MaxFail

Init ==
    /\ call = [k \in Callers |-> NoCall]
    /\ job = [k \in Callers |-> [s \in Stores |-> Started]]
    /\ dir = [s \in Stores |-> [d \in Dirs |-> {}]]
    /\ blank = [s \in Stores |-> {}]
    /\ kind \in Kinds
    /\ order = [s \in Stores |-> <<>>]
    /\ result = [s \in Stores |-> [c \in Commands |-> "none"]]
    /\ inactive = [s \in Stores |-> {}]
    /\ held = None /\ settled = {} /\ issued = {}
    /\ fails = 0

-----------------------------------------------------------------------------
(* A database: each call is one statement or transaction (see NanoMDM). *)

Rows(s) == ToSet(order[s])

Answered(s) == {c \in Commands : result[s][c] = "Acknowledged"}

Waiting(s) ==
    IF kind[s] = "sql" THEN Rows(s) \ (inactive[s] \cup Answered(s))
    ELSE {c \in Commands \ blank[s] :
             Exists(s, "Queue", c) \/ Exists(s, "QueueNotNow", c)}

Deferred(s) ==
    IF kind[s] = "sql" THEN {c \in Waiting(s) : result[s][c] = "NotNow"}
    ELSE {c \in Commands : Exists(s, "QueueNotNow", c)}

Ended(s) ==
    IF kind[s] = "sql" THEN inactive[s] \cup Answered(s)
    ELSE {c \in Commands : Exists(s, "QueueDone", c) \/ Exists(s, "QueueInactive", c)}

InsertRow(k, s) ==
    /\ At(k, s, "EnqueueCommand", "start")
    /\ order' = [order EXCEPT ![s] = Append(@, call[k].uuid)]
    /\ Done(k, s, None)
    /\ UNCHANGED <<result, inactive>>

(* The result's foreign keys need the command; a later status replaces it. *)
UpsertResult(k, s) ==
    LET c == call[k].uuid IN
    /\ At(k, s, "StoreCommandReport", "start")
    /\ \/ /\ c \notin Rows(s) /\ Failed(k, s)
          /\ UNCHANGED result
       \/ /\ c \in Rows(s)
          /\ Becomes(k, s, Outcome("done", TRUE, None))
          /\ result' = [result EXCEPT ![s][c] = call[k].status]
    /\ UNCHANGED <<order, inactive>>

(* The oldest row of those the client may be given *)
Rank(k, s) ==
    {i \in DOMAIN order[s] :
        /\ order[s][i] \in Waiting(s)
        /\ call[k].status = "NotNow" => order[s][i] \notin Deferred(s)}

SelectNext(k, s) ==
    /\ At(k, s, "RetrieveNextCommand", "start")
    /\ \/ Rank(k, s) = {} /\ Done(k, s, None)
       \/ \E i \in Rank(k, s) : /\ \A j \in Rank(k, s) : i <= j
                               /\ Done(k, s, order[s][i])
    /\ UNCHANGED tables

Deactivate(k, s) ==
    /\ At(k, s, "ClearQueue", "start")
    /\ inactive' = [inactive EXCEPT ![s] = @ \cup Waiting(s)]
    /\ Done(k, s, None)
    /\ UNCHANGED <<order, result>>

StatementFails(k, s) ==
    /\ call[k].op # "none" /\ job[k][s].at \notin Over
    /\ fails < MaxFail /\ fails' = fails + 1
    /\ Failed(k, s)
    /\ UNCHANGED tables

DatabaseStep(k, s) ==
    \/ /\ \/ InsertRow(k, s) \/ UpsertResult(k, s)
          \/ SelectNext(k, s) \/ Deactivate(k, s)
       /\ UNCHANGED fails
    \/ StatementFails(k, s)

(* A goroutine of execStores *)
Run(k, s) ==
    /\ \/ kind[s] = "file" /\ FileStep(k, s) /\ UNCHANGED tables
       \/ kind[s] = "sql" /\ DatabaseStep(k, s) /\ UNCHANGED <<call, files>>
    /\ UNCHANGED <<kind, held, settled, issued>>

-----------------------------------------------------------------------------
(* The callers *)

Resting(k) == call[k].op = "none"

(* Starts the goroutines. *)
execStores(k, op, c, status) ==
    /\ call' = [call EXCEPT ![k] = [op |-> op, uuid |-> c, status |-> status]]
    /\ job' = [job EXCEPT ![k] = [s \in Stores |-> Started]]

(* The command is built with a fresh UUID. *)
Enqueue(c) ==
    /\ Resting("api") /\ c \notin issued
    /\ "overlap" \in Allowed \/ call["client"].op # "ClearQueue"
    /\ execStores("api", "EnqueueCommand", c, "Idle")
    /\ issued' = issued \cup {c}
    /\ UNCHANGED <<files, fails, kind, tables, held, settled>>

(* An Idle report is stored by no store. *)
Idle ==
    /\ Resting("client")
    /\ execStores("client", "RetrieveNextCommand", None, "Idle")
    /\ held' = None
    /\ UNCHANGED <<files, fails, kind, tables, settled, issued>>

(* What it answered for good the client does not postpone later. *)
Report(status) ==
    /\ Resting("client") /\ held # None
    /\ status = "NotNow" => held \notin settled
    /\ "early" \in Allowed \/ call["api"].uuid # held
    /\ execStores("client", "StoreCommandReport", held, status)
    /\ settled' = IF status = "NotNow" THEN settled ELSE settled \cup {held}
    /\ UNCHANGED <<files, fails, kind, tables, held, issued>>

KeepsResult(s) == \E f \in dir[s]["QueueNotNow"] : f[2] = "result.plist"

(* The device enrolls anew (see NanoMDM, Checkins). *)
Authenticate ==
    /\ Resting("client")
    /\ "overlap" \in Allowed \/ Resting("api")
    /\ "clearNotNow" \in Allowed \/ \A s \in Stores : ~ KeepsResult(s)
    /\ execStores("client", "ClearQueue", None, "Idle")
    /\ held' = None
    /\ UNCHANGED <<files, fails, kind, tables, settled, issued>>

FirstAnswered(k) == job[k][1].at \in Over     \* a mutant

AllAnswered(k) == \A s \in Stores : job[k][s].at \in Over

(* finalValue and finalErr: the first store's *)
LastStore(k) == job[k][2]     \* a mutant

Final(k) == job[k][1]

NoJobs(k) == job' = [job EXCEPT ![k] = [s \in Stores |-> Started]]

Return(k) ==
    /\ call[k].op # "none" /\ AllAnswered(k)
    /\ IF call[k].op = "StoreCommandReport" /\ Final(k).at = "done"
       THEN /\ execStores(k, "RetrieveNextCommand", None, call[k].status)
            /\ UNCHANGED held
       ELSE /\ call' = [call EXCEPT ![k] = NoCall]
            /\ NoJobs(k)
            /\ held' = IF call[k].op = "RetrieveNextCommand" /\ Final(k).at = "done"
                       THEN Final(k).val ELSE held
    /\ UNCHANGED <<files, fails, kind, tables, settled, issued>>

Next ==
    \/ \E c \in Commands : Enqueue(c)
    \/ Idle \/ (\E status \in {"NotNow", "Acknowledged"} : Report(status))
    \/ Authenticate
    \/ \E k \in Callers : Return(k) \/ \E s \in Stores : Run(k, s)

Spec == Init /\ [][Next]_vars

-----------------------------------------------------------------------------
(* The effect of the client's request on the first store *)

First == job["client"][1]

Answering == call["client"].op = "RetrieveNextCommand" /\ First.at = "done"

Given(status) == IF status = "NotNow" THEN "new" ELSE "any"

(* Its report is stored, or it needed none. *)
Served ==
    \/ call["client"].op = "RetrieveNextCommand" /\ First.at # "done"
    \/ call["client"].op = "StoreCommandReport" /\ First.moved

Phase ==
    IF Served THEN Given(call["client"].status)
    ELSE IF call["client"].op = "ClearQueue" /\ First.at # "done" THEN "clearing"
    ELSE "idle"

(* "only the first storage backend will be 'used' when interacting with    *)
(* the system": the client sees the queue of the first store alone, and    *)
(* that store does what a queue promises, whatever happens in the others   *)
(* and whichever answers first.                                            *)
FirstStore == INSTANCE CommandStore WITH
    waiting <- Waiting(1), deferred <- Deferred(1), ended <- Ended(1),
    held <- IF Answering THEN First.val ELSE held,
    phase <- Phase

ImplementsFirst == FirstStore!Spec

(* The others "are called to" and are "write-only": as long as no store    *)
(* fails they record what the first one does, and all agree about every    *)
(* command once the calls have returned.                                   *)
InSync ==
    (\A k \in Callers : Resting(k)) /\ fails = 0 =>
        \A s \in Stores : /\ Waiting(s) = Waiting(1)
                          /\ Deferred(s) = Deferred(1)
                          /\ Ended(s) = Ended(1)

(* What getNext of the file backend finds decodes as a command, unless a   *)
(* call under way is about to write it or to remove it: otherwise every    *)
(* request of the enrollment fails from then on.                           *)
NextDecodes ==
    fails = 0 => \A s \in Stores : kind[s] = "file" =>
        /\ blank[s] # {} => At("api", s, "EnqueueCommand", "write")
        /\ Finds(s, "QueueNotNow") = "error" =>
              At("client", s, "StoreCommandReport", "removeResults")

-----------------------------------------------------------------------------
(* What the three follow from *)

Stored(s) ==
    IF kind[s] = "sql" THEN Rows(s)
    ELSE {c \in Commands : \E d \in Dirs : Exists(s, d, c)}

Readable(s) == IF kind[s] = "sql" THEN Rows(s) ELSE Stored(s) \ blank[s]

Reporting == call["client"].op = "StoreCommandReport"

Postponing == call["client"].status = "NotNow"

CallInv ==
    /\ call["api"].op \in {"none", "EnqueueCommand"}
    /\ call["api"].op # "none" => call["api"].uuid \in issued
    /\ call["client"].op # "EnqueueCommand"
    /\ Reporting =>
          /\ call["client"].uuid = held /\ held # None
          /\ call["client"].status # "Idle"
          /\ Postponing <=> held \notin settled
    /\ call["client"].op = "ClearQueue" => Resting("api")

(* A command is new to a store until its EnqueueCommand starts there. *)
FreshInv(s) ==
    \A c \in Stored(s) :
        /\ c \in issued
        /\ ~ (At("api", s, "EnqueueCommand", "start") /\ c = call["api"].uuid)

TableInv(s) ==
    /\ inactive[s] \subseteq Rows(s)
    /\ \A c \in Commands :
          /\ result[s][c] # "none" => c \in Rows(s)
          /\ result[s][c] = "Acknowledged" => c \in settled

(* A command's file lies in one directory; and what the steps of a call    *)
(* have seen of the directories so far stays so.                           *)
FilesInv(s) ==
    /\ \A c \in Commands, d \in Dirs, e \in Dirs :
          Exists(s, d, c) /\ Exists(s, e, c) => d = e
    /\ At("api", s, "EnqueueCommand", "write") => call["api"].uuid \in blank[s]
    /\ At("client", s, "ClearQueue", "notNow") => dir[s]["Queue"] = {}
    /\ At("client", s, "RetrieveNextCommand", "queue") /\ ~ Postponing =>
          dir[s]["QueueNotNow"] = {}

BlankInv(s) == \A c \in blank[s] : Exists(s, "Queue", c)

ReportInv(s) ==
    LET j == job["client"][s] IN
    Reporting =>
        /\ j.at \in {"start", "move"} => ~ j.moved
        /\ j.at \in {"removeResults", "writeResults"} => j.moved
        /\ j.at = "done" => j.moved
        /\ j.src \in {"Queue", "QueueNotNow"}

StoreInv(s) ==
    /\ FreshInv(s) /\ ReportInv(s)
    /\ IF kind[s] = "sql" THEN TableInv(s) ELSE FilesInv(s)

(* The client holds commands of the first store. *)
HeldInv ==
    /\ held # None => held \in Readable(1)
    /\ Answering /\ First.val # None => First.val \in Readable(1)

FirstInv ==
    /\ TypeOK /\ CallInv /\ HeldInv
    /\ \A s \in Stores : StoreInv(s)
    /\ kind[1] = "file" => BlankInv(1)

(* Without errors the directories hold no file that is not a command's, or *)
(* no command's any more, but while a call is about to write or remove it. *)
ReadInv(s) ==
    /\ BlankInv(s)
    /\ \A c \in blank[s] :
          At("api", s, "EnqueueCommand", "write") /\ c = call["api"].uuid
    /\ \A f \in dir[s]["Queue"] : f[2] = "plist"
    /\ \A f \in dir[s]["QueueNotNow"] :
          \/ Exists(s, "QueueNotNow", f[1])
          \/ At("client", s, "StoreCommandReport", "removeResults") /\ f[1] = held
    /\ call["client"].op = "ClearQueue" => ~ KeepsResult(s)
    /\ Reporting /\ job["client"][s].at = "move" =>
          job["client"][s].src = Source(s, held)
    /\ Reporting /\ Postponing /\ job["client"][s].at \in {"removeResults", "writeResults"}
          => Exists(s, "QueueNotNow", held)

(* The stores agree about what will be once the calls under way are done.  *)
Upcoming(s) ==
    IF ~ Resting("api") /\ job["api"][s].at \notin Over THEN {call["api"].uuid} ELSE {}

Taken(s) ==
    IF call["client"].op = "ClearQueue" THEN Waiting(s)
    ELSE IF Reporting /\ ~ Postponing THEN {held} ELSE {}

Postponed(s) == IF Reporting /\ Postponing THEN {held} \cap Waiting(s) ELSE {}

WillWait(s)  == (Waiting(s) \cup Upcoming(s)) \ Taken(s)
WillDefer(s) == (Deferred(s) \cup Postponed(s)) \ Taken(s)
WillEnd(s)   == Ended(s) \cup Taken(s)

DoneInv(s) ==
    /\ Reporting /\ job["client"][s].at \notin {"start", "move"} =>
          IF Postponing THEN held \in Waiting(s) => held \in Deferred(s)
          ELSE held \notin Waiting(s) \cup Deferred(s) /\ held \in Ended(s)
    /\ call["client"].op = "ClearQueue" /\ job["client"][s].at \in Over =>
          Waiting(s) = {}

SyncInv ==
    /\ FirstInv
    /\ Reporting => held # call["api"].uuid
    /\ fails = 0 => \A s \in Stores :
          /\ issued \subseteq Readable(s) \cup Upcoming(s)
          /\ kind[s] = "file" => ReadInv(s)
          /\ DoneInv(s)
          /\ WillWait(s) = WillWait(1)
          /\ WillDefer(s) = WillDefer(1)
          /\ WillEnd(s) = WillEnd(1)

=============================================================================
