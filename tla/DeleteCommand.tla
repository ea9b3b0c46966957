--------------------------- MODULE DeleteCommand ---------------------------
(***************************************************************************)
(* deleteCommand of the SQL backends (delete=1), statement by statement:   *)
(* enrollments that were sent one command answer it concurrently, each     *)
(* answer in a transaction that deletes the enrollment's rows and then the *)
(* command, if no enrollment refers to it any more.                        *)
(*                                                                         *)
(* A statement sees what is committed when it starts and what its own      *)
(* transaction did (READ COMMITTED in PostgreSQL; the locking reads of     *)
(* DELETE in MySQL).  Only mysql begins by locking the commands row.       *)
(***************************************************************************)
CONSTANTS
    Enrollments,   \* the enrollments the command was enqueued for
    Backend,       \* "mysql" or "pgsql"
    None           \* no enrollment

ASSUME DeleteAssumption ==
    /\ Backend \in {"mysql", "pgsql"}
    /\ None \notin Enrollments
    /\ Enrollments # {}

VARIABLES
    command,    \* is the commands row there?
    queued,     \* enrollments with an enrollment_queue row
    results,    \* enrollments with a (NotNow) command_results row
    tx,         \* tx[id]: the statement id's transaction executes next
    dropped,    \* transactions that deleted the commands row, uncommitted
    lock        \* the transaction that locked the commands row FOR UPDATE

vars == <<command, queued, results, tx, dropped, lock>>

Statements == {"none", "deleteRows", "deleteCommand", "commit"}

TypeOK ==
    /\ command \in BOOLEAN
    /\ queued \subseteq Enrollments
    /\ results \subseteq Enrollments
    /\ tx \in [Enrollments -> Statements]
    /\ dropped \subseteq Enrollments
    /\ lock \in Enrollments \cup {None}

Init ==
    /\ command = TRUE
    /\ queued = Enrollments
    /\ results = {}
    /\ tx = [id \in Enrollments |-> "none"]
    /\ dropped = {}
    /\ lock = None

Then(id, stmt) == tx' = [tx EXCEPT ![id] = stmt]

(* An enrollment answers NotNow; the foreign key check reads the commands  *)
(* row and waits for whoever locked or deleted it.                         *)
NotNow(id) ==
    /\ id \in queued /\ tx[id] = "none"
    /\ lock = None /\ dropped = {}
    /\ results' = results \cup {id}
    /\ UNCHANGED <<command, queued, tx, dropped, lock>>

(* SELECT ... FOR UPDATE: waits for the lock, finds no row to lock once    *)
(* the command is gone.                                                    *)
NoLock(id) == UNCHANGED lock     \* a mutant

LockCommand(id) ==
    IF Backend = "mysql" /\ command
    THEN lock = None /\ lock' = id
    ELSE UNCHANGED lock

(* An enrollment answers the command for good, for the first time or again *)
(* because the response was lost.                                          *)
Begin(id) ==
    /\ tx[id] = "none"
    /\ LockCommand(id)
    /\ Then(id, "deleteRows")
    /\ UNCHANGED <<command, queued, results, dropped>>

(* The enrollment's own rows are deleted: with one statement on mysql, on  *)
(* pgsql with two, which nobody else can tell apart before the commit.     *)
DeleteRows(id) ==
    /\ tx[id] = "deleteRows"
    /\ Then(id, "deleteCommand")
    /\ UNCHANGED <<command, queued, results, dropped, lock>>

(* The transaction of id sees no row that refers to the command, its own   *)
(* deleted ones aside.                                                     *)
OwnRowsDeleted(id) == TRUE     \* a mutant

Unreferenced(id) == queued \cup results \subseteq {id}

(* A second DELETE of the same row waits for the first one's transaction.  *)
DeleteUnreferenced(id) ==
    /\ tx[id] = "deleteCommand"
    /\ dropped = {}
    /\ dropped' = IF command /\ Unreferenced(id) THEN {id} ELSE {}
    /\ Then(id, "commit")
    /\ UNCHANGED <<command, queued, results, lock>>

Unlocked(id) == IF lock = id THEN None ELSE lock

(* Deleting the command takes the rows that refer to it along: the foreign *)
(* keys are ON DELETE CASCADE.                                             *)
Commit(id) ==
    /\ tx[id] = "commit"
    /\ command' = (command /\ id \notin dropped)
    /\ queued'  = IF id \in dropped THEN {} ELSE queued \ {id}
    /\ results' = IF id \in dropped THEN {} ELSE results \ {id}
    /\ dropped' = dropped \ {id}
    /\ lock' = Unlocked(id)
    /\ Then(id, "none")

(* A statement fails or the client is gone: deleteCommandTx rolls back. *)
Rollback(id) ==
    /\ tx[id] # "none"
    /\ dropped' = dropped \ {id}
    /\ lock' = Unlocked(id)
    /\ Then(id, "none")
    /\ UNCHANGED <<command, queued, results>>

Next == \E id \in Enrollments :
    \/ NotNow(id) \/ Begin(id) \/ DeleteRows(id) \/ DeleteUnreferenced(id)
    \/ Commit(id) \/ Rollback(id)

Spec == Init /\ [][Next]_vars

-----------------------------------------------------------------------------
(* "commands themselves will be deleted from the database after            *)
(* enrollments have responded to a command": the commands row is there     *)
(* exactly as long as some enrollment has yet to respond.                  *)
DeletedAfterResponses == command <=> queued # {}

(* An enrollment's queued command goes only by a transaction of its own:   *)
(* no other enrollment's answer deletes the command, and by the cascade    *)
(* the queue row, from under it.                                           *)
NoCommandLost ==
    [][\A id \in queued \ queued' : tx[id] = "commit"]_vars

(* What the lock buys: only its holder is past Begin while the command is  *)
(* there, so what it saw of the other enrollments' rows still holds when   *)
(* it commits.                                                             *)
LockInv ==
    /\ TypeOK
    /\ DeletedAfterResponses
    /\ results \subseteq queued
    /\ command => \A id \in Enrollments : tx[id] # "none" => lock = id
    /\ lock # None => command /\ tx[lock] # "none"
    /\ \A id \in Enrollments : tx[id] = "commit" /\ command =>
          (id \in dropped <=> queued \subseteq {id})
    /\ \A id \in dropped : tx[id] = "commit"

=============================================================================
