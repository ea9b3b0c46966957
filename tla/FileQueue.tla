----------------------------- MODULE FileQueue -----------------------------
(***************************************************************************)
(* The command queue of one enrollment in the file backend                 *)
(* (storage/file/queue.go): a directory for each state of a command, in    *)
(* which lie the command's file, c.plist, and its last report,             *)
(* c.result.plist.  A call is a sequence of file-system calls without any  *)
(* lock.  os.WriteFile creates, or empties, a file before it fills it.     *)
(*                                                                         *)
(* A call is made by a caller on a store: job[k][s] is the goroutine of    *)
(* caller k on store s, call[k] what k has it do.  Commands are numbers,   *)
(* compared as os.ReadDir sorts the names made of their UUIDs.             *)
(***************************************************************************)
EXTENDS Naturals, FiniteSetsExt

CONSTANTS
    Commands,
    None,
    Callers,
    Stores,
    MaxFail      \* bound on errors of the file system and of databases

VARIABLES
    call,        \* what caller k asks of the stores
    job,         \* how far its goroutine is on each store, and the outcome
    dir,         \* the files in each directory of a file store
    blank,       \* the commands whose file is there but not filled yet
    fails

Dirs == {"Queue", "QueueNotNow", "QueueDone", "QueueInactive"}

Files == Commands \X {"plist", "result.plist"}

NoCall == [op |-> "none", uuid |-> None, status |-> "Idle"]

Call ==
    [op : {"none", "EnqueueCommand", "StoreCommandReport",
           "RetrieveNextCommand", "ClearQueue"},
     uuid : Commands \cup {None}, status : {"Idle", "NotNow", "Acknowledged"}]

(* moved: history, the report has moved its command already *)
Underway(step, src, moved) ==
    [at |-> step, src |-> src, moved |-> moved, val |-> None]

Outcome(end, moved, c) ==
    [at |-> end, src |-> "Queue", moved |-> moved, val |-> c]

Over == {"done", "failed"}

Started == Underway("start", "Queue", FALSE)

Job ==
    [at : {"start", "write", "move", "removeResults", "writeResults", "queue",
           "notNow"} \cup Over,
     src : Dirs, moved : BOOLEAN, val : Commands \cup {None}]

At(k, s, op, step) == call[k].op = op /\ job[k][s].at = step

Becomes(k, s, j) == job' = [job EXCEPT ![k][s] = j]

Then(k, s, step) ==
    Becomes(k, s, Underway(step, job[k][s].src, job[k][s].moved))

Done(k, s, c) == Becomes(k, s, Outcome("done", job[k][s].moved, c))

Failed(k, s) == Becomes(k, s, Outcome("failed", job[k][s].moved, None))

-----------------------------------------------------------------------------
(* getNext: the first file with a name in .plist, which those of results   *)
(* have too; "A.plist" comes before "A.result.plist".                      *)
FirstUUID(s, d) == Min({f[1] : f \in dir[s][d]})

NextIsCommand(s, d) == <<FirstUUID(s, d), "plist">> \in dir[s][d]

Decodes(s, d) == NextIsCommand(s, d) /\ FirstUUID(s, d) \notin blank[s]

(* A function may find no command, one, or fail. *)
Finds(s, d) ==
    IF dir[s][d] = {} THEN "nothing"
    ELSE IF Decodes(s, d) THEN "command" ELSE "error"

-----------------------------------------------------------------------------
(* EnqueueCommand *)

Create(k, s) ==
    /\ At(k, s, "EnqueueCommand", "start")
    /\ dir' = [dir EXCEPT ![s]["Queue"] = @ \cup {<<call[k].uuid, "plist">>}]
    /\ blank' = [blank EXCEPT ![s] = @ \cup {call[k].uuid}]
    /\ Then(k, s, "write")
    /\ UNCHANGED <<call, fails>>

Write(k, s) ==
    /\ At(k, s, "EnqueueCommand", "write")
    /\ blank' = [blank EXCEPT ![s] = @ \ {call[k].uuid}]
    /\ Done(k, s, None)
    /\ UNCHANGED <<call, dir, fails>>

-----------------------------------------------------------------------------
(* StoreCommandReport, of a report that is not Idle: that one is no call *)

Exists(s, d, c) == <<c, "plist">> \in dir[s][d]

Source(s, c) ==
    IF ~ Exists(s, "Queue", c) /\ Exists(s, "QueueNotNow", c)
    THEN "QueueNotNow" ELSE "Queue"

Destination(k) ==
    IF call[k].status = "NotNow" THEN "QueueNotNow" ELSE "QueueDone"

Locate(k, s) ==
    /\ At(k, s, "StoreCommandReport", "start")
    /\ Becomes(k, s, Underway("move", Source(s, call[k].uuid), FALSE))
    /\ UNCHANGED <<call, dir, blank, fails>>

(* os.Rename; a report of a command that is in neither directory fails. *)
Renamed(s, from, to, c) ==
    LET f    == <<c, "plist">>
        D(d) == IF d = to THEN dir[s][d] \cup {f}
                ELSE IF d = from THEN dir[s][d] \ {f} ELSE dir[s][d]
    IN  dir' = [dir EXCEPT ![s] = [d \in Dirs |-> D(d)]]

Move(k, s) ==
    LET src == job[k][s].src
        c   == call[k].uuid
    IN  /\ At(k, s, "StoreCommandReport", "move")
        /\ \/ /\ Exists(s, src, c)
              /\ Renamed(s, src, Destination(k), c)
              /\ LET next == IF src = "QueueNotNow" THEN "removeResults"
                             ELSE "writeResults"
                 IN  Becomes(k, s, Underway(next, src, TRUE))
           \/ /\ ~ Exists(s, src, c) /\ Failed(k, s)
              /\ UNCHANGED dir
        /\ UNCHANGED <<call, blank, fails>>

(* Its error is ignored. *)
NoResultsRemoved(k, s) ==     \* a mutant
    /\ At(k, s, "StoreCommandReport", "removeResults")
    /\ Then(k, s, "writeResults")
    /\ UNCHANGED <<call, dir, blank, fails>>

RemoveResults(k, s) ==
    /\ At(k, s, "StoreCommandReport", "removeResults")
    /\ \/ /\ dir' = [dir EXCEPT ![s]["QueueNotNow"] =
                        @ \ {<<call[k].uuid, "result.plist">>}]
          /\ UNCHANGED fails
       \/ /\ fails < MaxFail /\ fails' = fails + 1
          /\ UNCHANGED dir
    /\ Then(k, s, "writeResults")
    /\ UNCHANGED <<call, blank>>

WriteResults(k, s) ==
    /\ At(k, s, "StoreCommandReport", "writeResults")
    /\ dir' = [dir EXCEPT ![s][Destination(k)] =
                  @ \cup {<<call[k].uuid, "result.plist">>}]
    /\ Done(k, s, None)
    /\ UNCHANGED <<call, blank, fails>>

-----------------------------------------------------------------------------
(* RetrieveNextCommand: the postponed ones first, unless they are skipped *)

Got(k, s, d) ==
    \/ Finds(s, d) = "command" /\ Done(k, s, FirstUUID(s, d))
    \/ Finds(s, d) = "error" /\ Failed(k, s)

NextNotNow(k, s) ==
    /\ At(k, s, "RetrieveNextCommand", "start")
    /\ \/ /\ call[k].status = "NotNow" \/ Finds(s, "QueueNotNow") = "nothing"
          /\ Then(k, s, "queue")
       \/ /\ call[k].status # "NotNow"
          /\ Got(k, s, "QueueNotNow")
    /\ UNCHANGED <<call, dir, blank, fails>>

NextQueued(k, s) ==
    /\ At(k, s, "RetrieveNextCommand", "queue")
    /\ \/ Finds(s, "Queue") = "nothing" /\ Done(k, s, None)
       \/ Got(k, s, "Queue")
    /\ UNCHANGED <<call, dir, blank, fails>>

-----------------------------------------------------------------------------
(* ClearQueue: getNext and move, until getNext finds nothing *)

(* Its last command found, it goes on with the other directory, or ends. *)
ClearedFrom(k, s, d) ==
    /\ \/ /\ Finds(s, d) = "nothing"
          /\ IF d = "Queue" THEN Then(k, s, "notNow") ELSE Done(k, s, None)
          /\ UNCHANGED dir
       \/ /\ Finds(s, d) = "command"
          /\ Renamed(s, d, "QueueInactive", FirstUUID(s, d))
          /\ UNCHANGED job
       \/ /\ Finds(s, d) = "error" /\ Failed(k, s)
          /\ UNCHANGED dir
    /\ UNCHANGED <<call, blank, fails>>

ClearQueued(k, s) == At(k, s, "ClearQueue", "start") /\ ClearedFrom(k, s, "Queue")

ClearNotNow(k, s) ==
    At(k, s, "ClearQueue", "notNow") /\ ClearedFrom(k, s, "QueueNotNow")

-----------------------------------------------------------------------------
(* Any other step may meet an error of the file system; what the steps     *)
(* before it did stays.                                                    *)
StepFails(k, s) ==
    /\ call[k].op # "none" /\ job[k][s].at \notin {"removeResults"} \cup Over
    /\ fails < MaxFail /\ fails' = fails + 1
    /\ Failed(k, s)
    /\ UNCHANGED <<call, dir, blank>>

FileStep(k, s) ==
    \/ Create(k, s) \/ Write(k, s)
    \/ Locate(k, s) \/ Move(k, s) \/ RemoveResults(k, s) \/ WriteResults(k, s)
    \/ NextNotNow(k, s) \/ NextQueued(k, s)
    \/ ClearQueued(k, s) \/ ClearNotNow(k, s)
    \/ StepFails(k, s)

=============================================================================
