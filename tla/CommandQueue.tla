--------------------------- MODULE CommandQueue ---------------------------
(***************************************************************************)
(* What a command queue promises one enrollment (the interfaces            *)
(* CommandAndReportResultsStore and CommandEnqueuer of storage/queue.go):  *)
(* commands wait in the order they were enqueued, a request is answered    *)
(* with the first of them, or with the first not yet answered NotNow, and  *)
(* a command leaves the queue when it is answered or the queue is cleared. *)
(***************************************************************************)
EXTENDS Naturals

CONSTANTS Commands, None

VARIABLES
    waiting,     \* the commands in the queue
    turn,        \* c is the turn[c]-th command ever enqueued, 0 if it was not
    issued,      \* how many were enqueued
    deferred,    \* the commands answered NotNow
    held,        \* the command the client has to answer, or None
    phase,       \* "idle" or, after an error, "failed"; or the client awaits
                 \* "any" command or a "new" one
    fails        \* errors of the storage

queueVars == <<waiting, turn, issued, deferred>>
vars      == <<queueVars, held, phase, fails>>

Init ==
    /\ waiting = {} /\ turn = [c \in Commands |-> 0] /\ issued = 0
    /\ deferred = {}
    /\ held = None /\ phase = "idle" /\ fails = 0

Enqueue(c) ==
    /\ turn[c] = 0
    /\ waiting' = waiting \cup {c}
    /\ issued' = issued + 1
    /\ turn' = [turn EXCEPT ![c] = issued + 1]
    /\ UNCHANGED <<deferred, held, phase, fails>>

Resting == phase \in {"idle", "failed"}

Idle ==
    /\ Resting /\ phase' = "any"
    /\ held' = None
    /\ UNCHANGED <<queueVars, fails>>

NotNow ==
    /\ Resting /\ held # None
    /\ deferred' = deferred \cup ({held} \cap waiting)
    /\ phase' = "new"
    /\ UNCHANGED <<waiting, turn, issued, held, fails>>

Answer ==
    /\ Resting /\ held # None
    /\ waiting' = waiting \ {held}
    /\ deferred' = deferred \ {held}
    /\ phase' = "any"
    /\ UNCHANGED <<turn, issued, held, fails>>

Skipped(c) == phase = "new" /\ c \in deferred

(* The first command that is not skipped, if there is one. *)
Retrieve ==
    /\ ~ Resting /\ phase' = "idle"
    /\ \/ /\ held' \in waiting /\ ~ Skipped(held')
          /\ \A c \in waiting : turn[c] < turn[held'] => Skipped(c)
       \/ /\ held' = None
          /\ \A c \in waiting : Skipped(c)
    /\ UNCHANGED <<queueVars, fails>>

(* The request fails; the client answers again, or starts over. *)
Fail ==
    /\ ~ Resting /\ phase' = "failed"
    /\ fails' \in {fails, fails + 1}
    /\ UNCHANGED <<queueVars, held>>

(* An error of the storage may be answered as if no command were left.     *)
Miss ==
    /\ ~ Resting /\ phase' = "idle" /\ held' = None
    /\ fails' = fails + 1
    /\ UNCHANGED queueVars

Clear ==
    /\ Resting
    /\ waiting' = {} /\ deferred' = {} /\ held' = None
    /\ fails' \in {fails, fails + 1}
    /\ UNCHANGED <<turn, issued, phase>>

(* An error while a command is enqueued. *)
EnqueueFails ==
    /\ fails' = fails + 1
    /\ UNCHANGED <<queueVars, held, phase>>

Next ==
    \/ \E c \in Commands : Enqueue(c)
    \/ Idle \/ NotNow \/ Answer \/ Retrieve \/ Fail \/ Miss \/ Clear
    \/ EnqueueFails

Spec == Init /\ [][Next]_vars

=============================================================================
