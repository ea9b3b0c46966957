--------------------------- MODULE KVQueue_proofs ---------------------------
(* Theorems about KVQueue: without the troubles, and with one API request  *)
(* enqueueing at a time, the linked list is a command queue, for any       *)
(* number of commands.                                                     *)
EXTENDS KVQueue, WellFoundedInduction, TLAPS

Untroubled == Allowed = {} /\ \A a, b \in Requests : a = b

Steps == {"idle", "last", "first", "next", "prev", "setLast", "commit"}

LEMMA ListInvInit == Init => ListInv
<1> SUFFICES ASSUME Init PROVE ListInv
  OBVIOUS
<1> USE KVQueueAssumption DEF Init, Item, Idling
<1>1. TypeOK
  BY DEF TypeOK
<1>2. EndsInv /\ LinksInv /\ TurnInv /\ EnqueueInv /\ WalkInv
  BY DEF EndsInv, LinksInv, TurnInv, EnqueueInv, WalkInv, Oldest, Newest, Resting
<1> QED BY <1>1, <1>2 DEF ListInv

(* Steps of EnqueueCommand. *)
LEMMA BeginInv ==
    ASSUME Untroubled, ListInv, NEW a \in Requests, NEW c \in Commands, Begin(a, c)
    PROVE  ListInv'
<1> USE KVQueueAssumption DEF Untroubled, ListInv, Begin, HasNot, links, client, queued, Item
<1>1. TypeOK'
  BY DEF TypeOK
<1>2. turn[c] = 0
  BY DEF TypeOK, TurnInv
<1>3. EndsInv' /\ LinksInv'
  BY DEF TypeOK, EndsInv, LinksInv, Oldest, Newest, Behind
<1>4. TurnInv'
  BY DEF TypeOK, TurnInv
<1>5. EnqueueInv'
  BY <1>2 DEF TypeOK, EnqueueInv, Newest
<1>6. WalkInv'
  BY DEF WalkInv, Resting, Skipped
<1> QED BY <1>1, <1>3, <1>4, <1>5, <1>6

LEMMA getLastInv ==
    ASSUME Untroubled, ListInv, NEW a \in Requests, getLast(a)
    PROVE  ListInv'
<1> USE KVQueueAssumption DEF Untroubled, ListInv, getLast, links, client, queued, Item
<1>1. TypeOK'
  BY DEF TypeOK
<1>3. EndsInv' /\ LinksInv'
  BY DEF TypeOK, EndsInv, LinksInv, Oldest, Newest, Behind
<1>4. TurnInv'
  BY DEF TypeOK, TurnInv
<1>5. EnqueueInv'
  BY DEF TypeOK, EnqueueInv, EndsInv, Newest
<1>6. WalkInv'
  BY DEF WalkInv, Resting, Skipped
<1> QED BY <1>1, <1>3, <1>4, <1>5, <1>6

LEMMA setFirstInv ==
    ASSUME Untroubled, ListInv, NEW a \in Requests, setFirst(a)
    PROVE  ListInv'
<1> USE KVQueueAssumption DEF Untroubled, ListInv, setFirst, Join, client, Item
<1>1. TypeOK'
  BY DEF TypeOK, EnqueueInv
<1>2. /\ enq[a].id \in Commands /\ turn[enq[a].id] = 0 /\ waiting = {}
      /\ waiting' = {enq[a].id} /\ first' = enq[a].id
      /\ next[enq[a].id] = None /\ prev[enq[a].id] = None
      /\ enq'[a].id = enq[a].id /\ enq'[a].at = "setLast"
  BY DEF TypeOK, EnqueueInv, TurnInv
<1>3. EndsInv' /\ LinksInv'
  BY <1>1, <1>2 DEF TypeOK, EndsInv, LinksInv, Oldest, Newest, Behind
<1>4. TurnInv'
  BY <1>2 DEF TypeOK, TurnInv
<1>5. EnqueueInv'
  BY <1>1, <1>2 DEF TypeOK, EnqueueInv, Newest
<1>6. WalkInv'
  BY <1>2 DEF WalkInv, Resting, Skipped
<1> QED BY <1>1, <1>3, <1>4, <1>5, <1>6

LEMMA setNextInv ==
    ASSUME Untroubled, ListInv, NEW a \in Requests, setNext(a)
    PROVE  ListInv'
<1> USE KVQueueAssumption DEF Untroubled, ListInv, setNext, Join, client, Item
<1>1. TypeOK'
  BY DEF TypeOK, EnqueueInv, Newest
<1>2. /\ enq[a].id \in Commands /\ turn[enq[a].id] = 0 /\ enq[a].id \notin waiting
      /\ Newest(enq[a].last)
      /\ next[enq[a].id] = None /\ prev[enq[a].id] = None
      /\ enq'[a].id = enq[a].id /\ enq'[a].last = enq[a].last /\ enq'[a].at = "prev"
  BY DEF TypeOK, EnqueueInv, TurnInv
<1>3. EndsInv' /\ LinksInv'
  BY <1>1, <1>2 DEF TypeOK, EndsInv, LinksInv, TurnInv, Oldest, Newest, Behind
<1>4. TurnInv'
  BY <1>2 DEF TypeOK, TurnInv, Newest
<1>5. EnqueueInv'
  BY <1>1, <1>2 DEF TypeOK, EnqueueInv, TurnInv, Newest
<1>6. WalkInv'
  BY <1>2 DEF TypeOK, WalkInv, TurnInv, Resting, Skipped
<1> QED BY <1>1, <1>3, <1>4, <1>5, <1>6

LEMMA setPrevInv ==
    ASSUME Untroubled, ListInv, NEW a \in Requests, setPrev(a)
    PROVE  ListInv'
<1> USE KVQueueAssumption DEF Untroubled, ListInv, setPrev, client, queued, Item
<1>1. TypeOK'
  BY DEF TypeOK, EnqueueInv, Newest
<1>2. /\ enq[a].id \in waiting /\ enq[a].last \in waiting /\ next[enq[a].last] = enq[a].id
      /\ enq'[a].id = enq[a].id /\ enq'[a].at = "setLast"
  BY DEF TypeOK, EnqueueInv, Newest
<1>3. EndsInv' /\ LinksInv'
  BY <1>1, <1>2 DEF TypeOK, EndsInv, LinksInv, Oldest, Newest, Behind
<1>4. TurnInv'
  BY <1>2 DEF TypeOK, TurnInv
<1>5. EnqueueInv'
  BY <1>2 DEF TypeOK, EnqueueInv, Newest
<1>6. WalkInv'
  BY DEF WalkInv, Resting, Skipped
<1> QED BY <1>1, <1>3, <1>4, <1>5, <1>6

LEMMA setLastInv ==
    ASSUME Untroubled, ListInv, NEW a \in Requests,
           setLast(a) \/ Commit(a) \/ EnqueueFails(a)
    PROVE  ListInv'
<1> USE KVQueueAssumption
        DEF Untroubled, ListInv, setLast, Commit, EnqueueFails, links, client,
            queued, Item, Idling
<1>1. TypeOK'
  BY DEF TypeOK, EnqueueInv, Newest
<1>3. EndsInv' /\ LinksInv'
  BY <1>1 DEF TypeOK, EndsInv, LinksInv, EnqueueInv, Oldest, Newest, Behind
<1>4. TurnInv'
  BY DEF TypeOK, TurnInv
<1>5. EnqueueInv'
  BY DEF TypeOK, EnqueueInv, Newest
<1>6. WalkInv'
  BY DEF WalkInv, Resting, Skipped
<1> QED BY <1>1, <1>3, <1>4, <1>5, <1>6

(* Steps of the client's requests. *)
LEMMA ReportInv ==
    ASSUME Untroubled, ListInv, ReportIdle \/ ReportNotNow
    PROVE  ListInv'
<1> USE KVQueueAssumption
        DEF Untroubled, ListInv, ReportIdle, ReportNotNow, Answers, Reports,
            Resting, links, queued, Item
<1>1. TypeOK'
  BY DEF TypeOK, WalkInv
<1>2. ReportNotNow => held \in waiting
  BY DEF WalkInv
<1>3. EndsInv' /\ LinksInv'
  BY DEF TypeOK, EndsInv, LinksInv, Oldest, Newest, Behind
<1>4. TurnInv'
  BY <1>2 DEF TypeOK, TurnInv
<1>5. EnqueueInv'
  BY DEF TypeOK, EnqueueInv, Newest
<1>6. WalkInv'
  BY DEF WalkInv, Skipped
<1> QED BY <1>1, <1>3, <1>4, <1>5, <1>6

(* The command leaves the list between its neighbours, and the list keeps  *)
(* its order.                                                              *)
LEMMA ReportAnswerInv ==
    ASSUME Untroubled, ListInv, ReportAnswer
    PROVE  ListInv'
<1> USE KVQueueAssumption DEF Untroubled, ListInv, Item
<1>1. /\ held \in waiting /\ held \in Commands
      /\ prev[held] = None \/ next[held] # None
      /\ \A a \in Requests : enq[a].at \in {"idle", "last", "commit"}
      /\ cursor = None
  BY DEF ReportAnswer, Answers, Reports, Resting, WalkInv, NoEnqueue, TypeOK
<1>2. /\ first' = IF prev[held] = None THEN next[held] ELSE first
      /\ last' = IF next[held] = None THEN prev[held] ELSE last
      /\ next' = nextStitched(held) /\ prev' = prevStitched(held)
      /\ waiting' = waiting \ {held} /\ UNCHANGED <<turn, issued, held, cursor, raw, enq, fails>>
      /\ phase' = "any" /\ status' = [status EXCEPT ![held] = "Acknowledged"]
  BY DEF ReportAnswer, Reports, unlink
<1>3. /\ next' \in [Commands -> Item] /\ prev' \in [Commands -> Item]
      /\ \A x \in Commands \ {held} :
            /\ next'[x] = IF x = prev[held] /\ next[held] # None
                          THEN next[held] ELSE next[x]
            /\ prev'[x] = IF x = next[held] THEN prev[held] ELSE prev[x]
      /\ next'[held] = None /\ prev'[held] = None
  BY <1>1, <1>2 DEF nextStitched, prevStitched, TypeOK
<1>4. TypeOK'
  BY <1>1, <1>2, <1>3 DEF TypeOK
<1>5. EndsInv'
  BY <1>1, <1>2, <1>3 DEF TypeOK, EndsInv, LinksInv, TurnInv, Oldest, Newest, Behind
<1>6. LinksInv'
  <2> DEFINE h == held
             p == prev[h]
             n == next[h]
  <2>1. /\ \A c, d \in waiting : turn[c] = turn[d] => c = d
        /\ \A c \in waiting : turn[c] \in Nat /\ c # None
        /\ p = None => first = h
        /\ p # None => p \in waiting /\ next[p] = h /\ n # None
        /\ n # None => Behind(h, n)
    BY <1>1 DEF TypeOK, LinksInv, TurnInv, Behind
  <2>2. ASSUME NEW c \in waiting, next[c] = h
        PROVE  c = p
    <3>1. Behind(c, h)
      BY <1>1, <2>2, <2>1 DEF LinksInv
    <3>2. p # None
      BY <1>1, <2>1, <3>1 DEF EndsInv, Oldest, Behind
    <3>3. Behind(p, h)
      BY <1>1, <2>1, <3>2 DEF LinksInv
    <3> QED BY ONLY <1>1, <2>1, <3>1, <3>2, <3>3 DEF Behind
  <2>3. ASSUME NEW c \in waiting'
        PROVE  Behind(c, next[c])' \/ (next'[c] = None /\ Newest(c)')
    <3>1. c \in waiting /\ c # h /\ c \in Commands
      BY <1>2 DEF TypeOK
    <3>2. CASE c = p /\ n # None
      <4>1. next'[c] = n
        BY <1>3, <3>1, <3>2
      <4>2. Behind(p, h) /\ Behind(h, n)
        BY <1>1, <2>1, <3>1, <3>2 DEF LinksInv
      <4>3. n \in waiting \ {h}
        BY <2>1, <4>2 DEF Behind
      <4> QED BY ONLY <1>2, <2>1, <3>1, <3>2, <4>1, <4>2, <4>3, <1>1 DEF Behind
    <3>3. CASE c # p \/ n = None
      <4>1. next'[c] = next[c] /\ next[c] # h
        BY <1>3, <2>1, <2>2, <3>1, <3>3
      <4> QED BY <1>2, <3>1, <4>1 DEF LinksInv, Behind, Newest
    <3> QED BY <3>2, <3>3
  <2>4. ASSUME NEW c \in waiting'
        PROVE  \/ prev'[c] \in waiting' /\ next'[prev'[c]] = c
               \/ prev'[c] = None /\ first' = c
    <3>1. c \in waiting /\ c # h /\ c \in Commands
      BY <1>2 DEF TypeOK
    <3>2. CASE c = n
      <4>1. prev'[c] = p
        BY <1>3, <3>1, <3>2
      <4>2. CASE p = None
        BY <1>2, <3>1, <3>2, <4>1, <4>2
      <4>3. CASE p # None
        <5>1. p \in waiting /\ p # h /\ p \in Commands
          BY <2>1, <3>1, <3>2, <4>3 DEF TypeOK
        <5>2. next'[p] = n
          BY <1>3, <3>1, <3>2, <5>1, <2>1
        <5> QED BY <1>2, <3>2, <4>1, <5>1, <5>2
      <4> QED BY <4>2, <4>3
    <3>3. CASE c # n
      <4>1. prev'[c] = prev[c]
        BY <1>3, <3>1, <3>3
      <4>2. CASE prev[c] \in waiting /\ next[prev[c]] = c
        <5>1. prev[c] # h /\ prev[c] \in Commands
          BY <3>3, <4>2 DEF TypeOK
        <5>2. prev[c] # p
          BY <2>1, <3>1, <4>2
        <5>3. next'[prev[c]] = c
          BY <1>3, <4>2, <5>1, <5>2
        <5> QED BY <1>2, <4>1, <4>2, <5>1, <5>3
      <4>3. CASE prev[c] = None /\ first = c
        BY <1>2, <2>1, <3>1, <4>1, <4>3
      <4> QED BY <1>1, <3>1, <4>2, <4>3 DEF LinksInv
    <3> QED BY <3>2, <3>3
  <2> QED BY <2>3, <2>4 DEF LinksInv
<1>7. TurnInv'
  BY <1>1, <1>2, <1>3 DEF TypeOK, TurnInv, EndsInv, LinksInv, Behind
<1>8. EnqueueInv'
  BY <1>1, <1>2 DEF TypeOK, EnqueueInv
<1>9. WalkInv'
  BY <1>1, <1>2 DEF WalkInv, Resting
<1> QED BY <1>4, <1>5, <1>6, <1>7, <1>8, <1>9

LEMMA ClearQueueInv ==
    ASSUME Untroubled, ListInv,
           ClearQueue \/ \E c \in Commands : ClearQueueCut(c)
    PROVE  ListInv'
<1>0. PICK left : clear(left) /\ fails' \in 0 .. MaxFail
  <2>1. CASE ClearQueue
    <3>1. clear(Linked) /\ fails' \in 0 .. MaxFail
      BY <2>1 DEF ClearQueue, ListInv, TypeOK
    <3> QED BY <3>1, Zenon
  <2>2. CASE \E c \in Commands : ClearQueueCut(c)
    <3>1. PICK c \in Commands : clear(Linked \ Reach(c)) /\ fails < MaxFail /\ fails' = fails + 1
      BY <2>2, Zenon DEF ClearQueueCut
    <3>2. fails' \in 0 .. MaxFail
      BY <3>1, KVQueueAssumption DEF ListInv, TypeOK
    <3> QED BY <3>1, <3>2, Zenon
  <2> QED BY <2>1, <2>2
<1> USE <1>0, KVQueueAssumption DEF Untroubled, ListInv, clear, NoEnqueue, Resting, Item
<1>1. TypeOK'
  BY DEF TypeOK
<1>2. EndsInv' /\ LinksInv'
  BY DEF EndsInv, LinksInv
<1>3. TurnInv'
  BY DEF TypeOK, TurnInv
<1>4. EnqueueInv'
  BY DEF TypeOK, EnqueueInv
<1>5. WalkInv'
  BY DEF WalkInv
<1> QED BY <1>1, <1>2, <1>3, <1>4, <1>5

(* The walk goes from the oldest command to the one behind. *)
LEMMA WalkStepInv ==
    ASSUME Untroubled, ListInv,
           getFirst \/ getNext \/ Deliver \/ RetrieveFails \/ RetrieveMisses
    PROVE  ListInv'
<1> USE KVQueueAssumption
        DEF Untroubled, ListInv, getFirst, getNext, Deliver, RetrieveFails,
            RetrieveMisses, WalkTo, Resting, links, queued, Item
<1>1. TypeOK'
  BY DEF TypeOK, WalkInv
<1>2. EndsInv' /\ LinksInv'
  BY DEF TypeOK, EndsInv, LinksInv, Oldest, Newest, Behind
<1>3. TurnInv'
  BY DEF TypeOK, TurnInv
<1>4. EnqueueInv'
  BY DEF TypeOK, EnqueueInv, Newest
<1>5. WalkInv'
  <2>1. CASE getFirst
    BY <2>1 DEF TypeOK, WalkInv, EndsInv, Oldest, Skipped
  <2>2. CASE getNext
    <3>1. cursor \in waiting /\ UNCHANGED <<waiting, turn, status>>
      BY <2>2 DEF WalkInv
    <3>2. CASE next[cursor] = None
      BY <2>2, <3>1, <3>2 DEF WalkInv
    <3>3. CASE next[cursor] # None
      <4>1. /\ cursor' = next[cursor] /\ UNCHANGED <<held, phase>>
            /\ cursor' # None /\ Behind(cursor, cursor')
        BY <2>2, <3>1, <3>3 DEF LinksInv
      <4>2. ASSUME NEW c \in waiting, turn[c] < turn[cursor']
            PROVE  Skipped(c)
        <5>1. turn[c] <= turn[cursor]
          BY <4>1, <4>2 DEF TypeOK, Behind
        <5> QED BY <2>2, <3>1, <5>1 DEF TypeOK, TurnInv, WalkInv
      <4> QED BY <2>2, <3>1, <4>1, <4>2 DEF WalkInv, Behind, Skipped
    <3> QED BY <3>2, <3>3
  <2>3. CASE Deliver \/ RetrieveFails \/ RetrieveMisses
    BY <2>3 DEF WalkInv, Skipped
  <2> QED BY <2>1, <2>2, <2>3
<1> QED BY <1>1, <1>2, <1>3, <1>4, <1>5

LEMMA ListInvStep ==
    ASSUME Untroubled, ListInv, [Next]_vars
    PROVE  ListInv'
<1>1. CASE \E a \in Requests : EnqueueCommand(a) \/ EnqueueFails(a)
  BY <1>1, BeginInv, getLastInv, setFirstInv, setNextInv, setPrevInv, setLastInv
     DEF EnqueueCommand
<1>2. CASE ReportIdle \/ ReportNotNow
  BY <1>2, ReportInv
<1>3. CASE ReportAnswer
  BY <1>3, ReportAnswerInv
<1>4. CASE ClearQueue \/ \E c \in Commands : ClearQueueCut(c)
  BY <1>4, ClearQueueInv
<1>5. CASE getFirst \/ getNext \/ Deliver \/ RetrieveFails \/ RetrieveMisses
  BY <1>5, WalkStepInv
<1>6. CASE UNCHANGED vars
  BY <1>6 DEF vars, links, client, queued, ListInv, TypeOK, EndsInv, LinksInv,
              TurnInv, EnqueueInv, WalkInv, Oldest, Newest, Behind, Skipped, Resting
<1> QED BY <1>1, <1>2, <1>3, <1>4, <1>5, <1>6 DEF Next

(* The list links the commands in the queue by age, from the oldest on, as *)
(* long as the client answers them in an order and at times the list       *)
(* withstands.                                                             *)
THEOREM ListCorrect ==
    ASSUME Untroubled
    PROVE  Spec => []ListInv
<1>1. ListInv /\ [Next]_vars => ListInv'
  BY ListInvStep
<1> QED BY <1>1, ListInvInit, PTL DEF Spec

(* Every step of the linked list is a step of the promised queue, or none. *)
LEMMA QueueStep ==
    ASSUME Untroubled, ListInv, [Next]_vars
    PROVE  [Promise!Next]_(Promise!vars)
<1> USE KVQueueAssumption
        DEF Untroubled, ListInv, Promise!Next, Promise!vars, Promise!queueVars,
            Deferred, Item
<1>1. CASE \E a \in Requests : setFirst(a) \/ setNext(a)
  <2>1. PICK a \in Requests : setFirst(a) \/ setNext(a)
    BY <1>1
  <2>2. enq[a].id \in Commands /\ turn[enq[a].id] = 0 /\ status[enq[a].id] = "none"
    BY <2>1 DEF EnqueueInv, TurnInv, setFirst, setNext
  <2>3. Promise!Enqueue(enq[a].id)
    BY <2>1, <2>2 DEF setFirst, setNext, Join, client, Promise!Enqueue
  <2> QED BY <2>2, <2>3
<1>2. ASSUME NEW a \in Requests,
             \/ \E c \in Commands : Begin(a, c)
             \/ getLast(a) \/ setPrev(a) \/ setLast(a) \/ Commit(a)
      PROVE  UNCHANGED Promise!vars
  BY <1>2 DEF Begin, getLast, setPrev, setLast, Commit, client, queued
<1>12. ASSUME NEW a \in Requests, EnqueueFails(a)
       PROVE  Promise!EnqueueFails
  BY <1>12 DEF EnqueueFails, client, queued, Promise!EnqueueFails
<1>3. CASE ReportIdle
  BY <1>3 DEF ReportIdle, Reports, Resting, queued, Promise!Idle, Promise!Resting
<1>4. CASE ReportNotNow
  <2>1. held \in waiting /\ held # None
    BY <1>4 DEF ReportNotNow, Answers, Reports, Resting, WalkInv
  <2>2. {c \in waiting : status'[c] = "NotNow"} = {c \in waiting : status[c] = "NotNow"} \cup {held}
    BY <1>4, <2>1 DEF ReportNotNow, TypeOK
  <2> QED BY <1>4, <2>1, <2>2
          DEF ReportNotNow, Reports, Resting, queued, Promise!NotNow, Promise!Resting
<1>5. CASE ReportAnswer
  <2>1. held \in waiting /\ held # None
    BY <1>5 DEF ReportAnswer, Answers, Reports, Resting, WalkInv
  <2>2. {c \in waiting \ {held} : status'[c] = "NotNow"}
          = {c \in waiting : status[c] = "NotNow"} \ {held}
    BY <1>5, <2>1 DEF ReportAnswer, TypeOK
  <2> QED BY <1>5, <2>1, <2>2
          DEF ReportAnswer, Reports, Resting, Promise!Answer, Promise!Resting
<1>6. CASE ClearQueue \/ \E c \in Commands : ClearQueueCut(c)
  <2>1. PICK left : clear(left) /\ fails' \in {fails, fails + 1}
    <3>1. CASE ClearQueue
      BY <3>1, Zenon DEF ClearQueue
    <3>2. CASE \E c \in Commands : ClearQueueCut(c)
      BY <3>2, Zenon DEF ClearQueueCut
    <3> QED BY <1>6, <3>1, <3>2
  <2> QED BY <2>1 DEF clear, Resting, Promise!Clear, Promise!Resting
<1>7. CASE getFirst
  BY <1>7 DEF getFirst, WalkTo, links, queued, Resting, EndsInv, Oldest, TypeOK,
              Promise!Retrieve, Promise!Resting, Promise!Skipped
<1>8. CASE getNext
  <2>1. /\ cursor \in waiting /\ Skipped(cursor) /\ ~ Resting
        /\ UNCHANGED <<waiting, turn, issued, status, fails>>
        /\ IF next[cursor] = None THEN held' = None /\ phase' = "idle"
                                  ELSE UNCHANGED <<held, phase>>
    BY <1>8 DEF getNext, WalkTo, queued, WalkInv
  <2>2. CASE next[cursor] = None
    <3>1. \A c \in waiting : Skipped(c)
      <4>1. Newest(cursor)
        BY <2>1, <2>2 DEF LinksInv, Behind, TypeOK
      <4>2. \A c \in waiting : turn[c] < turn[cursor] \/ c = cursor
        BY <2>1, <4>1 DEF TypeOK, TurnInv, Newest
      <4> QED BY <1>8, <2>1, <4>2 DEF getNext, WalkInv
    <3> QED BY <2>1, <2>2, <3>1
            DEF Skipped, Resting, Promise!Retrieve, Promise!Resting, Promise!Skipped
  <2>3. CASE next[cursor] # None
    BY <2>1, <2>3
  <2> QED BY <2>2, <2>3
<1>9. CASE Deliver
  <2>1. /\ cursor \in waiting /\ ~ Skipped(cursor) /\ ~ Resting
        /\ \A c \in waiting : turn[c] < turn[cursor] => Skipped(c)
    BY <1>9 DEF Deliver, WalkInv
  <2>2. CASE cursor \in raw
    BY <1>9, <2>1, <2>2 DEF Deliver, queued, Skipped, Resting, Promise!Retrieve,
                            Promise!Resting, Promise!Skipped
  <2>3. CASE cursor \notin raw
    BY <1>9, <2>1, <2>3 DEF Deliver, queued, Resting, Promise!Fail, Promise!Resting
  <2> QED BY <2>2, <2>3
<1>10. CASE RetrieveFails
  BY <1>10 DEF RetrieveFails, queued, WalkInv, Resting, Promise!Fail, Promise!Resting
<1>13. CASE RetrieveMisses
  BY <1>13 DEF RetrieveMisses, WalkTo, links, queued, Resting, Promise!Miss, Promise!Resting
<1>11. CASE UNCHANGED vars
  BY <1>11 DEF vars, client, queued
<1> QED BY <1>1, <1>2, <1>3, <1>4, <1>5, <1>6, <1>7, <1>8, <1>9, <1>10, <1>11,
           <1>12, <1>13
        DEF Next, EnqueueCommand

(* The key-value backends deliver the commands of an enrollment in order,  *)
(* none twice and none never, under the same conditions.                   *)
THEOREM QueueCorrect ==
    ASSUME Untroubled
    PROVE  Spec => ImplementsQueue
<1>1. Init => Promise!Init
  BY DEF Init, Deferred, Promise!Init
<1>2. ListInv /\ [Next]_vars => [Promise!Next]_(Promise!vars)
  BY QueueStep
<1> QED BY <1>1, <1>2, ListCorrect, PTL DEF Spec, ImplementsQueue, Promise!Spec

(* An answered command cannot be reached from the first any more.          *)
THEOREM UnlinkCorrect ==
    ASSUME Untroubled
    PROVE  Spec => []UnlinkRemoves
<1>1. ListInv => UnlinkRemoves
  <2> SUFFICES ASSUME ListInv, NEW c \in Linked
               PROVE  status[c] # "Acknowledged"
    BY DEF UnlinkRemoves
  <2>1. first \in waiting \cup {None} /\ \A s \in waiting : next[s] \in waiting \cup {None}
    BY DEF ListInv, EndsInv, LinksInv, Oldest, Behind
  <2>2. waiting \in SUBSET Commands
    BY DEF ListInv, TypeOK
  <2>3. c \in waiting
    BY <2>1, <2>2 DEF Linked, Reach
  <2> QED BY <2>3 DEF ListInv, TurnInv
<1> QED BY <1>1, ListCorrect, PTL

(* A set of natural numbers has a least element.                           *)
LEMMA LeastNatural ==
    ASSUME NEW T \in SUBSET Nat, T # {}
    PROVE  \E m \in T : \A n \in T : m <= n
<1>1. PICK R : R = OpToRel(<, Nat) /\ IsWellFoundedOn(R, Nat)
  BY NatLessThanWellFounded, Zenon
<1>2. PICK m \in T : \A n \in T : ~ (<<n, m>> \in R)
  BY <1>1, WFMin
<1>3. \A n \in T : n \in Nat /\ m \in Nat /\ ~ (n < m)
  BY <1>1, <1>2 DEF OpToRel
<1> QED BY <1>3

(* Every command in the queue is reached from the first: were the oldest   *)
(* unreached one not the first, the one ahead of it would lead to it.      *)
LEMMA LinkedComplete ==
    ASSUME ListInv
    PROVE  NothingLost
<1> SUFFICES ASSUME ListInv,
                    NEW S \in SUBSET Commands, first \in S \cup {None},
                    \A s \in S : next[s] \in S \cup {None}
             PROVE  waiting \subseteq S
  BY DEF NothingLost, Linked, Reach, ListInv, TypeOK
<1> SUFFICES ASSUME waiting \ S # {}
             PROVE  FALSE
  OBVIOUS
<1> DEFINE T == {turn[c] : c \in waiting \ S}
<1>1. T \in SUBSET Nat /\ T # {}
  BY DEF ListInv, TypeOK
<1>2. PICK c \in waiting \ S : \A d \in waiting \ S : turn[c] <= turn[d]
  <2> HIDE DEF T
  <2>1. PICK m \in T : \A n \in T : m <= n
    BY <1>1, LeastNatural
  <2>2. PICK c \in waiting \ S : m = turn[c]
    BY <2>1 DEF T
  <2>3. \A d \in waiting \ S : m <= turn[d]
    BY <2>1 DEF T
  <2> QED BY <2>2, <2>3
<1>3. PICK p \in waiting : next[p] = c
  <2>1. c \in waiting /\ first # c
    BY <1>2, KVQueueAssumption DEF ListInv, TypeOK
  <2>2. CASE prev[c] \in waiting /\ next[prev[c]] = c
    BY <2>2
  <2>3. CASE \E a \in Requests : enq[a].at = "prev" /\ enq[a].id = c
    BY <2>3 DEF ListInv, EnqueueInv
  <2> QED BY <2>1, <2>2, <2>3 DEF ListInv, LinksInv
<1>4. turn[p] < turn[c]
  BY <1>2, <1>3, KVQueueAssumption DEF ListInv, LinksInv, Behind, TypeOK
<1>5. p \in S
  BY <1>2, <1>3, <1>4 DEF ListInv, TypeOK
<1> QED BY <1>2, <1>3, <1>5, KVQueueAssumption DEF ListInv, TypeOK

(* No command in the queue is out of the list's reach.                     *)
THEOREM NothingLostCorrect ==
    ASSUME Untroubled
    PROVE  Spec => []NothingLost
<1>1. ListInv => NothingLost
  BY LinkedComplete
<1> QED BY <1>1, ListCorrect, PTL

(* The loops of the queue over its list come to an end: the newest command *)
(* in the queue has none behind it.                                        *)
THEOREM WalkEndsCorrect ==
    ASSUME Untroubled
    PROVE  Spec => []WalkEnds
<1>1. ListInv => WalkEnds
  <2> SUFFICES ASSUME ListInv, Linked # {}
               PROVE  \E c \in Linked : next[c] = None
    BY DEF WalkEnds
  <2>1. first \in waiting \cup {None} /\ \A s \in waiting : next[s] \in waiting \cup {None}
    BY DEF ListInv, EndsInv, LinksInv, Oldest, Behind
  <2>2. waiting \in SUBSET Commands /\ issued \in Nat /\ \A c \in waiting : turn[c] \in Nat
    BY DEF ListInv, TypeOK
  <2>3. Linked \subseteq waiting /\ waiting \subseteq Linked
    BY <2>1, <2>2, LinkedComplete DEF Linked, Reach, NothingLost
  <2> DEFINE T == {issued - turn[c] : c \in waiting}
  <2>4. T \in SUBSET Nat /\ T # {}
    BY <2>2, <2>3 DEF ListInv, TurnInv
  <2>5. PICK c \in waiting : \A d \in waiting : turn[d] <= turn[c]
    <3> HIDE DEF T
    <3>1. PICK m \in T : \A n \in T : m <= n
      BY <2>4, LeastNatural
    <3>2. PICK c \in waiting : m = issued - turn[c]
      BY <3>1 DEF T
    <3>3. \A d \in waiting : m <= issued - turn[d]
      BY <3>1 DEF T
    <3> QED BY <2>2, <3>2, <3>3
  <2>6. ~ Behind(c, next[c])
    BY <2>2, <2>5 DEF Behind
  <2> QED BY <2>3, <2>5, <2>6 DEF ListInv, LinksInv
<1> QED BY <1>1, ListCorrect, PTL

=============================================================================
