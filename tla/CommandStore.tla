--------------------------- MODULE CommandStore ---------------------------
(***************************************************************************)
(* What every storage promises of one enrollment's commands (storage/      *)
(* queue.go), whatever order it hands them out in: CommandQueue without    *)
(* the order.  A command waits until it is answered or cleared, is not     *)
(* offered right after a NotNow if it was answered so itself, and does not *)
(* come back.                                                              *)
(***************************************************************************)
CONSTANTS Commands, None

VARIABLES
    waiting,     \* the commands in the queue
    deferred,    \* those answered NotNow
    ended,       \* those answered for good, or cleared
    held,        \* the command the client has to answer, or None
    phase        \* "idle"; "any" or "new": which commands the client may be
                 \* given; or "clearing"

queueVars == <<waiting, deferred, ended>>
vars      == <<queueVars, held, phase>>

Init ==
    /\ waiting = {} /\ deferred = {} /\ ended = {}
    /\ held = None /\ phase = "idle"

Enqueue(c) ==
    /\ c \notin waiting \cup ended
    /\ waiting' = waiting \cup {c}
    /\ UNCHANGED <<deferred, ended, held, phase>>

Idle ==
    /\ phase = "idle" /\ phase' = "any"
    /\ held' = None
    /\ UNCHANGED queueVars

NotNow ==
    /\ phase = "idle" /\ held # None
    /\ deferred' = deferred \cup ({held} \cap waiting)
    /\ phase' = "new"
    /\ UNCHANGED <<waiting, ended, held>>

Answer ==
    /\ phase = "idle" /\ held # None
    /\ waiting' = waiting \ {held} /\ deferred' = deferred \ {held}
    /\ ended' = ended \cup {held}
    /\ phase' = "any"
    /\ UNCHANGED held

Offered(c) == c \in waiting /\ ~ (phase = "new" /\ c \in deferred)

Retrieve ==
    /\ phase \in {"any", "new"} /\ phase' = "idle"
    /\ IF \E c \in Commands : Offered(c) THEN Offered(held') ELSE held' = None
    /\ held' \in Commands \cup {None}
    /\ UNCHANGED queueVars

Clear ==
    /\ phase = "idle" /\ phase' = "clearing"
    /\ held' = None
    /\ UNCHANGED queueVars

(* Command by command, or all at once; it succeeds once nothing waits. *)
Remove(C) ==
    /\ phase = "clearing"
    /\ waiting' = waiting \ C /\ deferred' = deferred \ C
    /\ ended' = ended \cup C
    /\ \/ phase' = "clearing"
       \/ phase' = "idle" /\ waiting' = {}
    /\ UNCHANGED held

(* The request fails; the client answers again, or starts over. *)
Fail ==
    /\ phase # "idle" /\ phase' = "idle"
    /\ UNCHANGED <<queueVars, held>>

Next ==
    \/ \E c \in Commands : Enqueue(c)
    \/ Idle \/ NotNow \/ Answer \/ Retrieve
    \/ Clear \/ (\E C \in SUBSET waiting : Remove(C))
    \/ Fail

Spec == Init /\ [][Next]_vars

=============================================================================
