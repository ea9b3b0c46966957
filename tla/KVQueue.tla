------------------------------ MODULE KVQueue ------------------------------
(***************************************************************************)
(* The command queue of one enrollment in the key-value backends           *)
(* (storage/kv/queue.go and queue_ll.go): a doubly linked list kept in the *)
(* keys "first", "last" and "next" and "prev" of each command, "" or no    *)
(* key being None.  Reports and clearing run in a transaction, taken here  *)
(* as one step.  Enqueueing writes the list outside its transaction, key   *)
(* by key, and the commands themselves inside it, so that they appear when *)
(* it commits; retrieving reads key by key without one.                    *)
(***************************************************************************)
EXTENDS Naturals

CONSTANTS
    Commands,
    None,
    Requests,    \* API requests that enqueue
    Allowed,     \* what the clients may do: see Troubles
    MaxFail      \* bound on storage errors

(* "tail": the last of several commands is answered for good before those  *)
(* ahead of it.  "resend": a report is repeated when its request failed.   *)
(* "overlap": a report or a clearing runs during an EnqueueCommand.        *)
(* "partial": an EnqueueCommand fails after its first write to the list.   *)
Troubles == {"tail", "resend", "overlap", "partial"}

ASSUME KVQueueAssumption ==
    /\ None \notin Commands
    /\ Allowed \subseteq Troubles /\ MaxFail \in Nat

VARIABLES
    first, last,     \* the ends of the list
    next, prev,      \* the links of its items
    status,          \* the stored status of a command
    raw,             \* the commands stored
    enq,             \* request a: its command, the last item it read, its step
    cursor,          \* the item RetrieveNextCommand looks at, None at the start
    held, phase,     \* the client: see CommandQueue
    waiting, turn, issued,    \* history: see CommandQueue
    fails            \* storage errors so far

links  == <<first, last, next, prev>>
client == <<cursor, held, phase>>
queued == <<waiting, turn, issued>>
vars   == <<links, status, raw, enq, client, queued, fails>>

Item == Commands \cup {None}

TypeOK ==
    /\ first \in Item /\ last \in Item
    /\ next \in [Commands -> Item] /\ prev \in [Commands -> Item]
    /\ status \in [Commands -> {"none", "NotNow", "Acknowledged"}]
    /\ raw \subseteq Commands
    /\ enq \in [Requests -> [id : Item, last : Item,
                             at : {"idle", "last", "first", "next", "prev",
                                   "setLast", "commit"}]]
    /\ cursor \in Item /\ held \in Item
    /\ phase \in {"idle", "failed", "any", "new"}
    /\ waiting \subseteq Commands
    /\ turn \in [Commands -> Nat] /\ issued \in Nat
    /\ fails \in 0 .. MaxFail

Idling == [id |-> None, last |-> None, at |-> "idle"]

Init ==
    /\ first = None /\ last = None
    /\ next = [c \in Commands |-> None] /\ prev = [c \in Commands |-> None]
    /\ status = [c \in Commands |-> "none"]
    /\ raw = {}
    /\ enq = [a \in Requests |-> Idling]
    /\ cursor = None /\ held = None /\ phase = "idle"
    /\ waiting = {} /\ turn = [c \in Commands |-> 0] /\ issued = 0
    /\ fails = 0

-----------------------------------------------------------------------------
(* EnqueueCommand *)

HasNotUnchecked(c) == TRUE     \* a mutant

HasNot(c) == c \notin raw

(* A command that is stored already is refused. *)
Begin(a, c) ==
    /\ enq[a].at = "idle" /\ HasNot(c)
    /\ enq' = [enq EXCEPT ![a] = [id |-> c, last |-> None, at |-> "last"]]
    /\ UNCHANGED <<links, status, raw, client, queued, fails>>

getLast(a) ==
    /\ enq[a].at = "last"
    /\ enq' = [enq EXCEPT ![a].last = last,
                          ![a].at = IF last = None THEN "first" ELSE "next"]
    /\ UNCHANGED <<links, status, raw, client, queued, fails>>

(* The first write puts the command into the list. *)
Join(c) ==
    /\ waiting' = waiting \cup {c}
    /\ issued' = issued + 1
    /\ turn' = [turn EXCEPT ![c] = issued + 1]

setFirst(a) ==
    /\ enq[a].at = "first"
    /\ first' = enq[a].id
    /\ Join(enq[a].id)
    /\ enq' = [enq EXCEPT ![a].at = "setLast"]
    /\ UNCHANGED <<last, next, prev, status, raw, client, fails>>

setNext(a) ==
    /\ enq[a].at = "next"
    /\ next' = [next EXCEPT ![enq[a].last] = enq[a].id]
    /\ Join(enq[a].id)
    /\ enq' = [enq EXCEPT ![a].at = "prev"]
    /\ UNCHANGED <<first, last, prev, status, raw, client, fails>>

setPrev(a) ==
    /\ enq[a].at = "prev"
    /\ prev' = [prev EXCEPT ![enq[a].id] = enq[a].last]
    /\ enq' = [enq EXCEPT ![a].at = "setLast"]
    /\ UNCHANGED <<first, last, next, status, raw, client, queued, fails>>

setLast(a) ==
    /\ enq[a].at = "setLast"
    /\ last' = enq[a].id
    /\ enq' = [enq EXCEPT ![a].at = "commit"]
    /\ UNCHANGED <<first, next, prev, status, raw, client, queued, fails>>

Commit(a) ==
    /\ enq[a].at = "commit"
    /\ raw' = raw \cup {enq[a].id}
    /\ enq' = [enq EXCEPT ![a] = Idling]
    /\ UNCHANGED <<links, status, client, queued, fails>>

(* A failed write to the list is reported, but the command is committed;   *)
(* a failed commit leaves the list as it is.                               *)
EnqueueFails(a) ==
    /\ enq[a].at # "idle"
    /\ "partial" \in Allowed \/ enq[a].at \in {"last", "first", "next"}
    /\ fails < MaxFail /\ fails' = fails + 1
    /\ enq' = [enq EXCEPT ![a] = IF @.at = "commit" THEN Idling
                                ELSE [@ EXCEPT !.at = "commit"]]
    /\ UNCHANGED <<links, status, raw, client, queued>>

EnqueueCommand(a) ==
    \/ \E c \in Commands : Begin(a, c)
    \/ getLast(a) \/ setFirst(a) \/ setNext(a) \/ setPrev(a) \/ setLast(a)
    \/ Commit(a)

-----------------------------------------------------------------------------
(* StoreCommandReport and ClearQueue *)

NoEnqueue == \A a \in Requests : enq[a].at \in {"idle", "last", "commit"}

Resting == phase \in {"idle", "failed"}

(* The client reports; phase tells how RetrieveNextCommand will look. *)
Reports(retrieve) ==
    /\ Resting /\ phase' = retrieve
    /\ UNCHANGED <<cursor, raw, enq, fails>>

ReportIdle ==
    /\ Reports("any")
    /\ held' = None
    /\ UNCHANGED <<links, status, queued>>

Answers == held # None /\ (phase = "failed" => "resend" \in Allowed)

ReportNotNow ==
    /\ Answers
    /\ Reports("new")
    /\ status' = [status EXCEPT ![held] = "NotNow"]
    /\ UNCHANGED <<links, queued, held>>

(* c leaves the list: its neighbours are linked to each other, or the ends *)
(* of the list moved.  The next key of a command before the last is kept.  *)
nextKept(c) == [next EXCEPT ![c] = None]     \* a mutant

nextStitched(c) ==
    [x \in Commands |-> IF x = c THEN None
                        ELSE IF x = prev[c] /\ next[c] # None THEN next[c]
                        ELSE next[x]]

prevKept(c) == [prev EXCEPT ![c] = None]     \* a mutant

prevStitched(c) ==
    [x \in Commands |-> IF x = c THEN None
                        ELSE IF x = next[c] THEN prev[c] ELSE prev[x]]

unlink(c) ==
    /\ first' = IF prev[c] = None THEN next[c] ELSE first
    /\ last' = IF next[c] = None THEN prev[c] ELSE last
    /\ next' = nextStitched(c)
    /\ prev' = prevStitched(c)

ReportAnswer ==
    /\ Answers
    /\ "overlap" \in Allowed \/ NoEnqueue
    /\ "tail" \in Allowed \/ prev[held] = None \/ next[held] # None
    /\ Reports("any")
    /\ status' = [status EXCEPT ![held] = "Acknowledged"]
    /\ unlink(held)
    /\ waiting' = waiting \ {held}
    /\ UNCHANGED <<turn, issued, held>>

(* The items reached from item i on. *)
Reach(i) ==
    {c \in Commands :
        \A S \in SUBSET Commands :
            i \in S \cup {None} /\ (\A s \in S : next[s] \in S \cup {None})
                => c \in S}

(* The items RetrieveNextCommand and clear can reach. *)
Linked == Reach(first)

(* The loop of clear removes the links of the items left behind, then the  *)
(* ends of the list.                                                       *)
clear(left) ==
    /\ Resting /\ ("overlap" \in Allowed \/ NoEnqueue)
    /\ first' = None /\ last' = None
    /\ next' = [c \in Commands |-> IF c \in left THEN None ELSE next[c]]
    /\ prev' = [c \in Commands |-> IF c \in left /\ next[c] # None
                                  THEN None ELSE prev[c]]
    /\ held' = None
    /\ waiting' = {}
    /\ UNCHANGED <<status, raw, enq, cursor, phase, turn, issued>>

(* The last item is not visited a second time, and keeps its prev key. *)
ClearQueue == clear(Linked) /\ UNCHANGED fails

(* getNext of item c fails (or getFirst, with c the first): the loop looks *)
(* at the empty id before the error, and ends as if c were the last.       *)
ClearQueueCut(c) ==
    /\ c \in Linked
    /\ fails < MaxFail /\ fails' = fails + 1
    /\ clear(Linked \ Reach(c))

-----------------------------------------------------------------------------
(* RetrieveNextCommand *)

(* The walk goes to item c; without one the request ends. *)
WalkTo(c) ==
    /\ cursor' = c
    /\ IF c = None THEN held' = None /\ phase' = "idle"
                   ELSE UNCHANGED <<held, phase>>

getFirst ==
    /\ ~ Resting /\ cursor = None
    /\ WalkTo(first)
    /\ UNCHANGED <<links, status, raw, enq, queued, fails>>

NeverSkipped(c) == FALSE     \* a mutant

Skipped(c) == phase = "new" /\ status[c] = "NotNow"

getNext ==
    /\ cursor # None /\ Skipped(cursor)
    /\ WalkTo(next[cursor])
    /\ UNCHANGED <<links, status, raw, enq, queued, fails>>

(* The command is sent, unless it is not stored (yet). *)
Deliver ==
    /\ cursor # None /\ ~ Skipped(cursor)
    /\ cursor' = None
    /\ \/ cursor \in raw /\ held' = cursor /\ phase' = "idle"
       \/ cursor \notin raw /\ phase' = "failed" /\ UNCHANGED held
    /\ UNCHANGED <<links, status, raw, enq, queued, fails>>

(* An error of reading the status or the command is reported. *)
RetrieveFails ==
    /\ cursor # None
    /\ fails < MaxFail /\ fails' = fails + 1
    /\ cursor' = None /\ phase' = "failed"
    /\ UNCHANGED <<links, status, raw, enq, held, queued>>

(* One of getFirst or getNext is not: the loop looks at the empty id first *)
(* and ends, so that the client hears that no command waits.               *)
RetrieveMisses ==
    /\ ~ Resting /\ (cursor # None => Skipped(cursor))
    /\ fails < MaxFail /\ fails' = fails + 1
    /\ WalkTo(None)
    /\ UNCHANGED <<links, status, raw, enq, queued>>

Next ==
    \/ \E a \in Requests : EnqueueCommand(a) \/ EnqueueFails(a)
    \/ ReportIdle \/ ReportNotNow \/ ReportAnswer
    \/ ClearQueue \/ \E c \in Commands : ClearQueueCut(c)
    \/ getFirst \/ getNext \/ Deliver \/ RetrieveFails \/ RetrieveMisses

Spec == Init /\ [][Next]_vars

-----------------------------------------------------------------------------
Deferred == {c \in waiting : status[c] = "NotNow"}

Promise == INSTANCE CommandQueue WITH
    deferred <- Deferred

(* The linked list is a command queue: it delivers in order, nothing twice *)
(* and nothing is forgotten, and says that no command is left only when    *)
(* that is so, or a storage error made it.                                 *)
ImplementsQueue == Promise!Spec

(* "unlink removes id from the linked list": an answered command can no    *)
(* longer be reached from the first.                                       *)
UnlinkRemoves == \A c \in Linked : status[c] # "Acknowledged"

(* A command "will just sit in the queue until it is told to check-in": a  *)
(* command in the queue is found by walking the list.                      *)
NothingLost == waiting \subseteq Linked

(* The loops over the list end: it has no cycle. *)
WalkEnds == Linked # {} => \E c \in Linked : next[c] = None

(* Why: first is the oldest command in the queue, next the one behind,     *)
(* prev the one ahead, and last, unless it is being moved, the newest.     *)
Oldest(c) == c \in waiting /\ \A d \in waiting : turn[c] <= turn[d]

Newest(c) == c \in waiting /\ \A d \in waiting : turn[d] <= turn[c]

Behind(c, d) ==
    /\ d \in waiting /\ turn[c] < turn[d]
    /\ \A e \in waiting : turn[e] <= turn[c] \/ turn[d] <= turn[e]

EndsInv ==
    /\ Oldest(first) \/ (first = None /\ waiting = {})
    /\ \/ Newest(last) \/ (last = None /\ waiting = {})
       \/ \E a \in Requests : enq[a].at \in {"prev", "setLast"}

LinksInv ==
    \A c \in waiting :
        /\ Behind(c, next[c]) \/ (next[c] = None /\ Newest(c))
        /\ \/ prev[c] \in waiting /\ next[prev[c]] = c
           \/ prev[c] = None /\ first = c
           \/ prev[c] = None /\ \E a \in Requests : enq[a].at = "prev" /\ enq[a].id = c

TurnInv ==
    /\ \A c \in Commands : turn[c] <= issued
    /\ \A c, d \in waiting : turn[c] = turn[d] => c = d
    /\ \A c \in Commands : turn[c] = 0 =>
          /\ c \notin waiting /\ status[c] = "none"
          /\ next[c] = None /\ prev[c] = None
    /\ \A c \in Commands \ raw : turn[c] > 0 =>
          \E a \in Requests :
              enq[a].id = c /\ enq[a].at \in {"prev", "setLast", "commit"}
    /\ \A c \in waiting : status[c] # "Acknowledged"

EnqueueInv ==
    \A a \in Requests : LET e == enq[a] IN
        /\ e.at # "idle" => e.id \in Commands
        /\ e.at \in {"last", "first", "next"} => turn[e.id] = 0
        /\ e.at = "first" => waiting = {}
        /\ e.at = "next" => Newest(e.last)
        /\ e.at \in {"prev", "setLast"} => Newest(e.id)
        /\ e.at = "prev" => e.last \in waiting /\ next[e.last] = e.id

WalkInv ==
    /\ Resting => cursor = None
    /\ phase = "idle" => held \in waiting \cup {None}
    /\ cursor # None =>
          /\ cursor \in waiting
          /\ \A c \in waiting : turn[c] < turn[cursor] => Skipped(c)

ListInv == TypeOK /\ EndsInv /\ LinksInv /\ TurnInv /\ EnqueueInv /\ WalkInv

=============================================================================
